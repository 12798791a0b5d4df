----------------------------- MODULE UserCalls -----------------------------
(***************************************************************************)
(* How one evaluator calls user functions and modules.  A call may be a    *)
(* C++ recursion of the tree walker or a frame pushed by the bytecode VM,  *)
(* one can start the other, a tail call reuses the frame it is made from,  *)
(* and an exception can leave from anywhere.  Through all of it the code   *)
(* keeps by hand a call stack, a bag of active declarations, three depth   *)
(* counters that stop runaway programs, the stack of CSG accumulators and  *)
(* the flag that says geometry is only being measured.                     *)
(*                                                                         *)
(* The C++ stack is the sequence native.  A body is not a list of          *)
(* instructions: at every point any operation its kind allows may be next. *)
(***************************************************************************)
EXTENDS Integers, SequencesExt

CONSTANTS
  Functions,        \* function declarations and function literals
  Literals,         \* the function literals among them
  Modules,          \* module declarations
  Compiled,         \* the declarations the VM has a chunk for
  Encloses,         \* pairs: the first declaration's text contains the second's
  MaxUserCallDepth, MaxModuleCallDepth, MaxVmCallStackDepth,
  MaxDriveVmNativeDepth, TcoIterationCap,
  \* Bounds of the model.
  Stops,            \* functions at whose body entry the host may stop
  MaxStops,         \* calls a stop at their entry may abandon
  MaxCallsAfterStop,\* calls open at once when one has been abandoned
  MaxBlocks,        \* builtin blocks and measurements open in C++ at once
  MaxWraps,         \* brackets open in VM frames at once
  MaxActive         \* occurrences of one declaration a tail call may add

Decl == Functions \cup Modules

NoDecl == "none"

ASSUME CallsAssumption ==
  /\ NoDecl \notin Decl
  /\ Literals \subseteq Functions
  /\ Functions \cap Modules = {}
  /\ Compiled \subseteq Decl
  /\ Encloses \subseteq Decl \X Decl
  /\ Stops \subseteq Functions
  /\ {MaxStops, MaxCallsAfterStop} \subseteq Nat
  /\ {MaxUserCallDepth, MaxModuleCallDepth, MaxVmCallStackDepth,
      MaxDriveVmNativeDepth, TcoIterationCap, MaxBlocks, MaxWraps,
      MaxActive} \subseteq Nat \ {0}

VARIABLES
  callStack,     \* callStack_: the declaration of every open call
  active,        \* activeDeclRefcount_, 0 for a declaration without entry
  moduleDepth,   \* moduleCallDepth_
  nativeDepth,   \* nativeUserCallDepth_
  driveDepth,    \* driveVmNativeDepth_
  tree,          \* size of treeStack_
  measuring,     \* measuring_
  vm,            \* vmCallStack_ with vmCallBrackets_
  native,        \* the C++ stack, innermost activation last
  mode,          \* "idle", "run", "throw"
  \* History: no guard of the code depends on it.
  crossed,       \* a tail call has changed the declaration of a frame
  abandoned      \* handles of the calls that a stop at their entry left counted

calls == <<callStack, active, moduleDepth, nativeDepth, crossed, abandoned>>
vars == <<callStack, active, moduleDepth, nativeDepth, driveDepth, tree,
          measuring, vm, native, mode, crossed, abandoned>>

(***************************************************************************)
(* Activations on the C++ stack, and VM frames.                            *)
(*                                                                         *)
(* A call's decl is what it is running now, its handle what it entered     *)
(* with; catches says that whoever called a module takes the accumulator   *)
(* off again when the module throws.                                       *)
(***************************************************************************)
Handle(d, counted) == [decl |-> d, counted |-> counted]
NoHandle == Handle(NoDecl, FALSE)

Top == [type |-> "top"]
Block == [type |-> "block"]
Measure(saved) == [type |-> "measure", saved |-> saved]
Drive(floor) == [type |-> "drive", floor |-> floor]
Call(d, catches) ==
  [type |-> "call", decl |-> d, handle |-> Handle(d, TRUE), hops |-> 0,
   started |-> FALSE, catches |-> catches]

VmFrame(type, d, h) ==
  [type |-> type, decl |-> d, handle |-> h, hops |-> 0, wraps |-> <<>>]

SetLast(s, x) == [s EXCEPT ![Len(s)] = x]

(* A frame whose call is the last of callStack_: a tail call may reuse it. *)
HopEligible(f) == f.type \in {"function", "entry"}

(* Mutant: a forwarded block of children is taken for one without. *)
OwnsSpliceIfModule(f) == f.type = "module"

(* A frame that splices the accumulator its caller pushed for it. *)
OwnsModuleSplice(f) == f.type \in {"module", "children"}

IsModule(f) == f.type \in {"module", "children", "body"}

Running == mode = "run"
InVm == Running /\ Last(native).type = "drive"

(* A compiled call that still waits for its chunk.                         *)
Awaiting(c) == c.type = "call" /\ c.decl \in Compiled /\ ~c.started

(* The tree walker is running.  In a compiled call it is only while the    *)
(* arguments and default values of a function are bound: their expressions *)
(* are walked, or are chunks of their own.                                 *)
InWalker ==
  /\ Running
  /\ \/ Last(native).type \in {"top", "block", "measure"}
     \/ /\ Last(native).type = "call"
        /\ \/ Last(native).decl \notin Compiled
           \/ Awaiting(Last(native)) /\ Last(native).decl \in Functions

WalksStatements ==
  /\ InWalker
  /\ Last(native).type = "call" => Last(native).decl \in Modules

WalksFunction ==
  /\ InWalker
  /\ Last(native).type = "call"
  /\ Last(native).decl \in Functions \ Compiled

(* Statements are compiled into module chunks, and into the brackets that  *)
(* measure geometry inside an expression.                                  *)
VmStatements == InVm /\ (IsModule(Last(vm)) \/ Last(vm).wraps # <<>>)

(***************************************************************************)
(* The bookkeeping of a call.                                              *)
(***************************************************************************)
IsOnCallStack(d) == \E i \in 1..Len(callStack) : callStack[i] = d

(* A declaration nested in another can be named while that one runs. *)
Callable(d) == \A a \in Decl : <<a, d>> \in Encloses => IsOnCallStack(a)

(* callCtxFor's scan: no active declaration contains d. *)
Isolated(d) == ~ \E a \in Decl : active[a] > 0 /\ <<a, d>> \in Encloses

(* Bound: how much is called once a call has been abandoned.               *)
Room == abandoned = <<>> \/ Len(callStack) < Len(abandoned) + MaxCallsAfterStop

NoteActiveDeclEnter(bag, d) == [bag EXCEPT ![d] = @ + 1]

(* Mutant: the count goes below zero. *)
NoteActiveDeclExitAlways(bag, d) == [bag EXCEPT ![d] = @ - 1]

(* A declaration that is not there is passed over. *)
NoteActiveDeclExit(bag, d) == [bag EXCEPT ![d] = IF @ > 0 THEN @ - 1 ELSE 0]

(* Mutant: one native call too many. *)
TooDeepPastLimit(d, skipDepthGuard) ==
  \/ ~skipDepthGuard /\ nativeDepth > MaxUserCallDepth
  \/ d \in Modules /\ moduleDepth >= MaxModuleCallDepth

(* enterUserCall's two depth errors. *)
TooDeep(d, skipDepthGuard) ==
  \/ ~skipDepthGuard /\ nativeDepth >= MaxUserCallDepth
  \/ d \in Modules /\ moduleDepth >= MaxModuleCallDepth

CountCall(d, skipDepthGuard) ==
  /\ nativeDepth' = nativeDepth + (IF skipDepthGuard THEN 0 ELSE 1)
  /\ callStack' = Append(callStack, d)
  /\ moduleDepth' = moduleDepth + (IF d \in Modules THEN 1 ELSE 0)
  /\ active' = NoteActiveDeclEnter(active, d)
  /\ UNCHANGED crossed

EnterUserCall(d, skipDepthGuard) ==
  /\ CountCall(d, skipDepthGuard)
  /\ UNCHANGED abandoned

(* The host stops or cancels at the body entry, the last thing that        *)
(* enterUserCall does for a function: the call is counted, and whoever     *)
(* made it has no try around it yet and no frame for it, so nobody will    *)
(* leave it.                                                               *)
StopAtEntry(d, skipDepthGuard) ==
  /\ d \in Stops
  /\ Len(abandoned) < MaxStops
  /\ CountCall(d, skipDepthGuard)
  /\ abandoned' = Append(abandoned, Handle(d, ~skipDepthGuard))
  /\ mode' = "throw"

(* Mutant: it does not matter how the call was entered. *)
ExitNativeUserCall(h) ==
  /\ callStack' = Front(callStack)
  /\ moduleDepth' = moduleDepth - (IF h.decl \in Modules THEN 1 ELSE 0)
  /\ nativeDepth' = nativeDepth - 1
  /\ active' = NoteActiveDeclExit(active, h.decl)
  /\ UNCHANGED <<crossed, abandoned>>

(* exitUserCallSuccess and exitUserCallException. *)
ExitUserCall(h) ==
  /\ callStack' = Front(callStack)
  /\ moduleDepth' = moduleDepth - (IF h.decl \in Modules THEN 1 ELSE 0)
  /\ nativeDepth' = nativeDepth - (IF h.counted THEN 1 ELSE 0)
  /\ active' = NoteActiveDeclExit(active, h.decl)
  /\ UNCHANGED <<crossed, abandoned>>

(* Mutant: the declaration that is left stays active. *)
RecordTailCallHopOnly(d) ==
  /\ active' = NoteActiveDeclEnter(active, d)
  /\ callStack' = SetLast(callStack, d)
  /\ crossed' = (crossed \/ d # Last(callStack))
  /\ UNCHANGED <<moduleDepth, nativeDepth, abandoned>>

(* A tail call takes over the last frame of callStack_. *)
RecordTailCallHop(d) ==
  /\ active' = NoteActiveDeclEnter(
                 NoteActiveDeclExit(active, Last(callStack)), d)
  /\ callStack' = SetLast(callStack, d)
  /\ crossed' = (crossed \/ d # Last(callStack))
  /\ UNCHANGED <<moduleDepth, nativeDepth, abandoned>>

(***************************************************************************)
(* One evaluation.                                                         *)
(***************************************************************************)
Init ==
  /\ callStack = <<>>
  /\ active = [d \in Decl |-> 0]
  /\ moduleDepth = 0
  /\ nativeDepth = 0
  /\ driveDepth = 0
  /\ tree = 0
  /\ measuring = FALSE
  /\ vm = <<>>
  /\ native = <<>>
  /\ mode = "idle"
  /\ crossed = FALSE
  /\ abandoned = <<>>

(* resolveTreeImpl: of all this only treeStack_ starts afresh. *)
Evaluate ==
  /\ mode = "idle"
  /\ tree' = 1
  /\ native' = <<Top>>
  /\ mode' = "run"
  /\ UNCHANGED <<calls, driveDepth, measuring, vm>>

Finish ==
  /\ Running
  /\ Last(native) = Top
  /\ tree' = tree - 1
  /\ native' = <<>>
  /\ mode' = "idle"
  /\ UNCHANGED <<calls, driveDepth, measuring, vm>>

(* error(), a failed assert, a stop or a cancellation at a checkpoint. *)
Fail ==
  /\ Running
  /\ mode' = "throw"
  /\ UNCHANGED <<calls, driveDepth, tree, measuring, vm, native>>

(***************************************************************************)
(* Calls made as C++ recursion.                                            *)
(*                                                                         *)
(* evalUserFunctionCore, runModuleBodyNative and evalUserModule: enter,    *)
(* then run the body inside a try.                                         *)
(***************************************************************************)
NativeCall(d, catches) ==
  /\ Callable(d) /\ Room
  /\ \/ /\ TooDeep(d, FALSE)
        /\ mode' = "throw"
        /\ tree' = tree + (IF d \in Modules /\ ~catches THEN 1 ELSE 0)
        /\ UNCHANGED <<calls, native>>
     \/ /\ ~TooDeep(d, FALSE)
        /\ EnterUserCall(d, FALSE)
        /\ tree' = tree + (IF d \in Modules THEN 1 ELSE 0)
        /\ native' = Append(native, Call(d, catches))
        /\ UNCHANGED mode
     \/ /\ ~TooDeep(d, FALSE)
        /\ StopAtEntry(d, FALSE)
        /\ UNCHANGED <<tree, native>>
  /\ UNCHANGED <<driveDepth, measuring, vm>>

(* evalFunctionCall, and a tail call that cannot be a hop. *)
CallFunction(d) ==
  /\ InWalker
  /\ d \in Functions
  /\ NativeCall(d, TRUE)

(* evalModularCall of a user module. *)
CallUserModule(d) ==
  /\ WalksStatements
  /\ d \in Modules
  /\ NativeCall(d, TRUE)

(* evalFunctionBodyTrampoline.  A compiled callee is a real call; so is    *)
(* one that would see the caller's scopes, unless it is a literal that     *)
(* brought its own.                                                        *)
TrampolineHop(d) ==
  /\ WalksFunction
  /\ Callable(d)
  /\ d \in Functions \ Compiled
  /\ Isolated(d) \/ d \in Literals
  /\ NoteActiveDeclExit(active, Last(callStack))[d] < MaxActive
  /\ \/ /\ Last(native).hops >= TcoIterationCap
        /\ mode' = "throw"
        /\ UNCHANGED <<calls, native>>
     \/ /\ Last(native).hops < TcoIterationCap
        /\ RecordTailCallHop(d)
        /\ native' = SetLast(native, [Last(native) EXCEPT !.decl = d,
                                                          !.hops = @ + 1])
        /\ UNCHANGED mode
  /\ UNCHANGED <<driveDepth, tree, measuring, vm>>

(* Every entry into driveVm counts itself, then looks at the count. *)
DriveVm(below, f) ==
  /\ vm' = Append(vm, f)
  /\ native' = Append(below, Drive(Len(vm)))
  /\ driveDepth' = driveDepth + 1
  /\ mode' = IF driveDepth + 1 > MaxDriveVmNativeDepth THEN "throw" ELSE mode
  /\ UNCHANGED <<calls, tree, measuring>>

(* runCompiledFunction and runCompiledModuleBody, called by                *)
(* evalUserFunctionCore and evalUserModule.                                *)
RunCompiledBody ==
  /\ Running
  /\ Awaiting(Last(native))
  /\ LET c == Last(native)
     IN  DriveVm(SetLast(native, [c EXCEPT !.started = TRUE]),
                 VmFrame(IF c.decl \in Functions THEN "entry" ELSE "body",
                         c.decl, NoHandle))

(* runCompiledExprChunk, runCompiledAssignmentBlock and the default values *)
(* of a compiled function's parameters: a frame that is no call.           *)
RunBareChunk ==
  /\ InWalker \/ InVm
  /\ DriveVm(native, VmFrame("bare", NoDecl, NoHandle))

(* tryRunCompiledChildren: a whole list of statements as one chunk. *)
RunChildrenChunk ==
  /\ WalksStatements
  /\ DriveVm(native, VmFrame("body", NoDecl, NoHandle))

BlocksOpen ==
  Cardinality({i \in 1..Len(native) : native[i].type \in {"block", "measure"}})

(* A builtin with children (buildTreeNode, evalModularCall), met by the    *)
(* walker or by Op::NativeStatement.                                       *)
OpenBlock ==
  /\ WalksStatements \/ VmStatements
  /\ BlocksOpen < MaxBlocks
  /\ tree' = tree + 1
  /\ native' = Append(native, Block)
  /\ UNCHANGED <<calls, driveDepth, measuring, vm, mode>>

(* evalRenderExpr *)
OpenMeasure ==
  /\ InWalker
  /\ BlocksOpen < MaxBlocks
  /\ tree' = tree + 1
  /\ measuring' = TRUE
  /\ native' = Append(native, Measure(measuring))
  /\ UNCHANGED <<calls, driveDepth, vm, mode>>

CloseBlock ==
  /\ Running
  /\ Last(native).type \in {"block", "measure"}
  /\ tree' = tree - 1
  /\ measuring' = IF Last(native).type = "measure"
                  THEN Last(native).saved ELSE measuring
  /\ native' = Front(native)
  /\ UNCHANGED <<calls, driveDepth, vm, mode>>

(* The end of a native call: of the tree walker's body, or of a compiled   *)
(* one once driveVm has returned.                                          *)
ReturnCall ==
  /\ Running
  /\ Last(native).type = "call"
  /\ ~Awaiting(Last(native))
  /\ ExitUserCall(Last(native).handle)
  /\ tree' = tree - (IF Last(native).handle.decl \in Modules THEN 1 ELSE 0)
  /\ native' = Front(native)
  /\ UNCHANGED <<driveDepth, measuring, vm, mode>>

(***************************************************************************)
(* Calls inside the VM.                                                    *)
(*                                                                         *)
(* pushBracketedCallFrame and pushBracketedModuleFrame: the frame is only  *)
(* put on the stack once enterUserCall is through.                         *)
(***************************************************************************)
PushBracketed(d, type, accumulators) ==
  /\ Callable(d) /\ Room
  /\ tree' = tree + accumulators
  /\ LET refused == Len(vm) >= MaxVmCallStackDepth \/ TooDeep(d, TRUE)
     IN  \/ /\ refused
            /\ mode' = "throw"
            /\ UNCHANGED <<calls, vm>>
         \/ /\ ~refused
            /\ EnterUserCall(d, TRUE)
            /\ vm' = Append(vm, VmFrame(type, d, Handle(d, FALSE)))
            /\ UNCHANGED mode
         \/ /\ ~refused
            /\ StopAtEntry(d, TRUE)
            /\ UNCHANGED vm
  /\ UNCHANGED <<driveDepth, measuring, native>>

(* Op::CallFn, Op::CallDynamic, and tail calls that cannot be hops. *)
VmCallFunction(d) ==
  /\ InVm
  /\ d \in Functions
  /\ IF d \in Compiled THEN PushBracketed(d, "function", 0)
                       ELSE NativeCall(d, TRUE)

(* Op::CallModule pushes the accumulator first, and has no catch. *)
VmCallModule(d) ==
  /\ VmStatements
  /\ d \in Modules
  /\ IF d \in Compiled THEN PushBracketed(d, "module", 1)
                       ELSE NativeCall(d, FALSE)

(* Op::CallChildren with a compiled list. *)
VmCallChildren ==
  /\ VmStatements
  /\ moduleDepth > 0
  /\ tree' = tree + 1
  /\ IF Len(vm) >= MaxVmCallStackDepth
     THEN mode' = "throw" /\ UNCHANGED vm
     ELSE vm' = Append(vm, VmFrame("children", NoDecl, NoHandle))
          /\ UNCHANGED mode
  /\ UNCHANGED <<calls, driveDepth, measuring, native>>

(* Mutant: hops of the VM are not counted. *)
VmTailHopUncounted(d) ==
  /\ InVm
  /\ HopEligible(Last(vm))
  /\ Last(vm).wraps = <<>>
  /\ d \in Functions \cap Compiled
  /\ Callable(d)
  /\ Isolated(d) \/ d \in Literals
  /\ NoteActiveDeclExit(active, Last(callStack))[d] < MaxActive
  /\ RecordTailCallHop(d)
  /\ vm' = SetLast(vm, [Last(vm) EXCEPT !.decl = d])
  /\ UNCHANGED <<driveDepth, tree, measuring, native, mode>>

(* Mutant: within a call, a frame that is no call is reused as well. *)
VmTailHopFromBare(d) ==
  /\ InVm
  /\ \/ HopEligible(Last(vm))
     \/ Last(vm).type = "bare" /\ callStack # <<>>
  /\ Last(vm).wraps = <<>>
  /\ d \in Functions \cap Compiled
  /\ Callable(d)
  /\ Isolated(d) \/ d \in Literals
  /\ NoteActiveDeclExit(active, Last(callStack))[d] < MaxActive
  /\ Last(vm).hops < TcoIterationCap
  /\ RecordTailCallHop(d)
  /\ vm' = SetLast(vm, [Last(vm) EXCEPT !.decl = d, !.hops = @ + 1])
  /\ UNCHANGED <<driveDepth, tree, measuring, native, mode>>

(* Op::CallFnTail and Op::CallDynamicTail. *)
VmTailHop(d) ==
  /\ InVm
  /\ HopEligible(Last(vm))
  /\ Last(vm).wraps = <<>>
  /\ d \in Functions \cap Compiled
  /\ Callable(d)
  /\ Isolated(d) \/ d \in Literals
  /\ NoteActiveDeclExit(active, Last(callStack))[d] < MaxActive
  /\ \/ /\ Last(vm).hops >= TcoIterationCap
        /\ mode' = "throw"
        /\ UNCHANGED <<calls, vm>>
     \/ /\ Last(vm).hops < TcoIterationCap
        /\ RecordTailCallHop(d)
        /\ vm' = SetLast(vm, [Last(vm) EXCEPT !.decl = d, !.hops = @ + 1])
        /\ UNCHANGED mode
  /\ UNCHANGED <<driveDepth, tree, measuring, native>>

WrapsOpen ==
  Cardinality({p \in (1..Len(vm)) \X (1..MaxWraps) : p[2] <= Len(vm[p[1]].wraps)})

(* Op::PushBuiltinWrap and Op::PushCsgWrap.  A bracket records the flag it *)
(* found; the one that measures is the only one to change it, and the only *)
(* one an expression can open.                                             *)
PushWrap(measures) ==
  /\ InVm
  /\ measures \/ VmStatements
  /\ WrapsOpen < MaxWraps
  /\ tree' = tree + 1
  /\ vm' = SetLast(vm, [Last(vm) EXCEPT !.wraps = Append(@, measuring)])
  /\ measuring' = (measuring \/ measures)
  /\ UNCHANGED <<calls, driveDepth, native, mode>>

(* Op::PopBuiltinWrap and Op::PopCsgWrap. *)
PopWrap ==
  /\ InVm
  /\ Last(vm).wraps # <<>>
  /\ tree' = tree - 1
  /\ measuring' = Last(Last(vm).wraps)
  /\ vm' = SetLast(vm, [Last(vm) EXCEPT !.wraps = Front(@)])
  /\ UNCHANGED <<calls, driveDepth, native, mode>>

(* The bracket of a frame that leaves, if it has one. *)
LeaveBracket(f) ==
  IF f.handle = NoHandle THEN UNCHANGED calls ELSE ExitUserCall(f.handle)

(* driveVm's completion branch. *)
VmReturn ==
  /\ InVm
  /\ LET f == Last(vm) IN
       /\ f.wraps = <<>>
       /\ LeaveBracket(f)
       /\ tree' = tree - (IF OwnsModuleSplice(f) THEN 1 ELSE 0)
       /\ vm' = Front(vm)
       /\ IF Len(vm) = Last(native).floor + 1
          THEN native' = Front(native) /\ driveDepth' = driveDepth - 1
          ELSE UNCHANGED <<native, driveDepth>>
  /\ UNCHANGED <<measuring, mode>>

(***************************************************************************)
(* An exception on its way out.                                            *)
(***************************************************************************)
Throwing(type) == mode = "throw" /\ Last(native).type = type

(* Mutant: the brackets of the frames are not closed. *)
UnwindFrameOnly ==
  /\ Throwing("drive")
  /\ Len(vm) > Last(native).floor
  /\ LET f == Last(vm) IN
       /\ tree' = tree - Len(f.wraps) - (IF OwnsModuleSplice(f) THEN 1 ELSE 0)
       /\ measuring' = IF f.wraps = <<>> THEN measuring ELSE Head(f.wraps)
  /\ vm' = Front(vm)
  /\ UNCHANGED <<calls, driveDepth, native, mode>>

(* Mutant: the flag of the innermost bracket is what remains. *)
UnwindFrameInnermost ==
  /\ Throwing("drive")
  /\ Len(vm) > Last(native).floor
  /\ LET f == Last(vm) IN
       /\ LeaveBracket(f)
       /\ tree' = tree - Len(f.wraps) - (IF OwnsModuleSplice(f) THEN 1 ELSE 0)
       /\ measuring' = IF f.wraps = <<>> THEN measuring ELSE Last(f.wraps)
  /\ vm' = Front(vm)
  /\ UNCHANGED <<driveDepth, native, mode>>

(* teardownVmCallStackDownTo, one frame. *)
UnwindFrame ==
  /\ Throwing("drive")
  /\ Len(vm) > Last(native).floor
  /\ LET f == Last(vm) IN
       /\ LeaveBracket(f)
       /\ tree' = tree - Len(f.wraps) - (IF OwnsModuleSplice(f) THEN 1 ELSE 0)
       /\ measuring' = IF f.wraps = <<>> THEN measuring ELSE Head(f.wraps)
  /\ vm' = Front(vm)
  /\ UNCHANGED <<driveDepth, native, mode>>

UnwindDrive ==
  /\ Throwing("drive")
  /\ Len(vm) = Last(native).floor
  /\ driveDepth' = driveDepth - 1
  /\ native' = Front(native)
  /\ UNCHANGED <<calls, tree, measuring, vm, mode>>

UnwindCall ==
  /\ Throwing("call")
  /\ LET c == Last(native) IN
       /\ ExitUserCall(c.handle)
       /\ tree' = tree - (IF c.handle.decl \in Modules /\ c.catches
                          THEN 1 ELSE 0)
  /\ native' = Front(native)
  /\ UNCHANGED <<driveDepth, measuring, vm, mode>>

UnwindBlock ==
  /\ Throwing("block") \/ Throwing("measure")
  /\ tree' = tree - 1
  /\ measuring' = IF Last(native).type = "measure"
                  THEN Last(native).saved ELSE measuring
  /\ native' = Front(native)
  /\ UNCHANGED <<calls, driveDepth, vm, mode>>

(* Nothing above the pass catches: the host gets the exception. *)
UnwindTop ==
  /\ Throwing("top")
  /\ native' = <<>>
  /\ mode' = "idle"
  /\ UNCHANGED <<calls, driveDepth, tree, measuring, vm>>

Unwind == UnwindFrame \/ UnwindDrive \/ UnwindCall \/ UnwindBlock \/ UnwindTop

(* Something comes to its end: what a program that recurses or loops by    *)
(* calls for ever never does.                                              *)
Leave == Finish \/ ReturnCall \/ VmReturn \/ CloseBlock \/ PopWrap

Next ==
  \/ Evaluate
  \/ Fail
  \/ \E d \in Decl :
       \/ CallFunction(d)
       \/ CallUserModule(d)
       \/ TrampolineHop(d)
       \/ VmCallFunction(d)
       \/ VmCallModule(d)
       \/ VmTailHop(d)
  \/ RunCompiledBody
  \/ RunBareChunk
  \/ RunChildrenChunk
  \/ OpenBlock
  \/ OpenMeasure
  \/ VmCallChildren
  \/ \E measures \in BOOLEAN : PushWrap(measures)
  \/ Leave
  \/ Unwind

Spec == Init /\ [][Next]_vars /\ WF_vars(Next)

(***************************************************************************)
(* Properties.                                                             *)
(***************************************************************************)
Occurrences(d) == {i \in 1..Len(callStack) : callStack[i] = d}
NativeOf(type) == {i \in 1..Len(native) : native[i].type = type}
Brackets == {i \in 1..Len(vm) : vm[i].handle # NoHandle}
ModulesOnStack == {i \in 1..Len(callStack) : callStack[i] \in Modules}

(* The accumulators that are somebody's to take off again. *)
OpenAccumulators ==
  Cardinality(NativeOf("block")) + Cardinality(NativeOf("measure"))
  + Cardinality({i \in NativeOf("call") : native[i].handle.decl \in Modules})
  + Cardinality({i \in 1..Len(vm) : OwnsModuleSplice(vm[i])})
  + WrapsOpen

CallRecords ==
  [type : {"call"}, decl : Decl, handle : [decl : Decl, counted : {TRUE}],
   hops : 0..TcoIterationCap, started : BOOLEAN, catches : BOOLEAN]

Activations ==
  {Top, Block} \cup [type : {"measure"}, saved : BOOLEAN]
  \cup [type : {"drive"}, floor : Nat] \cup CallRecords

VmFrames ==
  [type : {"function", "entry", "bare", "module", "body", "children"},
   decl : Decl \cup {NoDecl},
   handle : [decl : Decl \cup {NoDecl}, counted : {FALSE}],
   hops : 0..TcoIterationCap, wraps : Seq(BOOLEAN)]

(* What kind of frame carries which declarations.                          *)
FrameOK(f) ==
  /\ f.type \in {"function", "module"} <=> f.handle # NoHandle
  /\ f.type \in {"function", "entry"} => f.decl \in Functions
  /\ f.type = "function" => f.handle.decl \in Functions
  /\ f.type = "module" => f.decl \in Modules /\ f.handle.decl = f.decl

TypeOK ==
  /\ callStack \in Seq(Decl)
  /\ active \in [Decl -> Nat]
  /\ {moduleDepth, nativeDepth, driveDepth, tree} \subseteq Nat
  /\ {measuring, crossed} \subseteq BOOLEAN
  /\ vm \in Seq(VmFrames)
  /\ \A k \in 1..Len(vm) : FrameOK(vm[k])
  /\ native \in Seq(Activations)
  /\ mode \in {"idle", "run", "throw"}
  /\ mode = "idle" <=> native = <<>>
  /\ abandoned \in Seq([decl : Functions, counted : BOOLEAN])

(* The calls entered with one of these declarations and not left: those    *)
(* still open in C++ or in the VM, and those that were abandoned.          *)
Entered(decls) ==
  Cardinality({i \in NativeOf("call") : native[i].handle.decl \in decls})
  + Cardinality({k \in Brackets : vm[k].handle.decl \in decls})
  + Cardinality({a \in 1..Len(abandoned) : abandoned[a].decl \in decls})

(* Those among them that were abandoned and hold C++ stack for the limit.  *)
CountedAbandoned == {a \in 1..Len(abandoned) : abandoned[a].counted}

(* The three counters say what they are for, at every moment and while an  *)
(* exception passes through both kinds of call: how many modules are being *)
(* called, how many calls hold C++ stack, how many driveVm do              *)
(* (evaluator.hpp:2005-2043, 1871-1892).  A stop at a body entry leaves    *)
(* its call in them, and puts the call stack out of step with them.        *)
CountersExact ==
  /\ moduleDepth = Entered(Modules)
  /\ nativeDepth = Cardinality(NativeOf("call")) + Cardinality(CountedAbandoned)
  /\ driveDepth = Cardinality(NativeOf("drive"))
  /\ abandoned = <<>> => moduleDepth = Cardinality(ModulesOnStack)

(* The call stack has one frame for every open call, native or in the VM,  *)
(* and one for every abandoned call; the code that runs is what its last   *)
(* frame says: a tail call of a chunk that is no call must not rename the  *)
(* call around it (bytecode_vm.hpp:250-274).                               *)
CallStackIsOpenCalls ==
  /\ Len(callStack) = Cardinality(NativeOf("call")) + Cardinality(Brackets)
                        + Len(abandoned)
  /\ InWalker /\ Last(native).type = "call"
       => Last(callStack) = Last(native).decl
  /\ InVm /\ Last(vm).type \in {"function", "entry", "module"}
       => Last(callStack) = Last(vm).decl

(* Unless a tail call has changed the declaration of a frame, the bag of   *)
(* active declarations is the bag of declarations entered and not left;    *)
(* with no call abandoned it is the bag of declarations on the call stack  *)
(* (evaluator.hpp:2045-2052).                                              *)
ActiveDeclsExact ==
  ~crossed => \A d \in Decl :
    /\ active[d] = Entered({d})
    /\ abandoned = <<>> => active[d] = Cardinality(Occurrences(d))

(* As long as nothing is thrown, every accumulator on treeStack_ belongs   *)
(* to a node, call or bracket that is still open, whichever of the two     *)
(* engines opened it (csg_resolve.cpp:41-57, bytecode_vm.cpp:598-602).     *)
TreeBalanced == Running => tree = 1 + OpenAccumulators

(* measuring_ is on only inside something that restores it, also while an  *)
(* exception tears frames down with several brackets open                  *)
(* (bytecode_vm.cpp:503-510).                                              *)
MeasuringScoped ==
  measuring => \/ NativeOf("measure") # {}
               \/ \E i \in 1..Len(vm) : vm[i].wraps # <<>>

(* Whatever way an evaluation ended, what it leaves to the next one on the *)
(* same evaluator, since resolveTreeImpl resets none of this, is the calls *)
(* the host stopped at their body entry, and no other: a place each on the *)
(* call stack, in the bag and, called from C++, in the count of native     *)
(* calls.  Any other end, and any end without such a stop before it,       *)
(* leaves no call open (evaluator.hpp:2021-2027, csg_resolve.cpp:234-243,  *)
(* user_calls.cpp:753).                                                    *)
IdleClean ==
  mode = "idle" =>
    /\ vm = <<>> /\ driveDepth = 0 /\ moduleDepth = 0 /\ ~measuring
    /\ Len(callStack) = Len(abandoned)
    /\ nativeDepth = Cardinality(CountedAbandoned)
    /\ ~crossed => \A d \in Decl :
         active[d] = Cardinality({a \in 1..Len(abandoned) : abandoned[a].decl = d})

(* What the fixed limits are there for: the C++ stack is never deeper than *)
(* they say, whatever mixture of walker, VM, statements and expressions    *)
(* leads there, and the heap stack exceeds its own limit only by frames    *)
(* that drivers push without asking (evaluator.hpp:1849-1892, 2005-2027).  *)
DepthsBounded ==
  /\ Cardinality(NativeOf("call")) <= MaxUserCallDepth
  /\ Cardinality(NativeOf("drive")) <= MaxDriveVmNativeDepth + 1
  /\ Len(vm) <= MaxVmCallStackDepth + MaxDriveVmNativeDepth + 1
  /\ Entered(Modules) <= MaxModuleCallDepth

(* A program whose calls never come to an end is stopped: by a depth       *)
(* limit, or by the count of hops when tail calls keep the depth constant  *)
(* (user_calls.cpp:678-681, evaluator.hpp:1849-1869).                      *)
NoRunaway == []<>(mode = "idle") \/ []<><<Leave>>_vars

(* Call stack, counters, the bag of active declarations and the calls that *)
(* are really open agree, so the limits on the counters bound what they    *)
(* are meant to bound, for any mixture of engines (user_calls.cpp:700-790, *)
(* bytecode_vm.cpp:560-612).                                               *)
CallsAccounted ==
  CountersExact /\ CallStackIsOpenCalls /\ ActiveDeclsExact /\ DepthsBounded

(* What a bracket changes, a node list pushed or the measuring mode, is    *)
(* undone by whatever ends the bracket.                                    *)
BracketsBalanced == TreeBalanced /\ MeasuringScoped

(***************************************************************************)
(* The inductive invariant behind the safety properties.                   *)
(***************************************************************************)
Drives == NativeOf("drive")

(* What is free of arithmetic: shapes, and the pass at the bottom.         *)
Shapes ==
  /\ callStack \in Seq(Decl)
  /\ active \in [Decl -> Nat]
  /\ {moduleDepth, nativeDepth, driveDepth, tree} \subseteq Int
  /\ {measuring, crossed} \subseteq BOOLEAN
  /\ vm \in Seq(VmFrames)
  /\ \A k \in 1..Len(vm) : FrameOK(vm[k])
  /\ native \in Seq(Activations)
  /\ mode \in {"idle", "run", "throw"}
  /\ mode = "idle" <=> native = <<>>
  /\ abandoned \in Seq([decl : Functions, counted : BOOLEAN])
  /\ native # <<>> => native[1] = Top
  /\ \A i \in 2..Len(native) : native[i].type # "top"

(* Drivers are nested as their frames are; one that runs has a frame, and  *)
(* the frame of a compiled function is the one its call started.           *)
DrivesNested ==
  /\ \A i, j \in Drives : i < j => native[i].floor < native[j].floor
  /\ \A j \in Drives :
       /\ native[j].floor <= Len(vm)
       /\ j < Len(native) \/ Running => native[j].floor < Len(vm)
  /\ vm # <<>> => \E j \in Drives : native[j].floor = 0
  /\ \A k \in 1..Len(vm) : vm[k].type = "entry" =>
       \E j \in Drives :
         /\ j > 1 /\ native[j].floor = k - 1
         /\ native[j - 1].type = "call"
         /\ native[j - 1].started
         /\ native[j - 1].decl \in Compiled

(* A driver above native activation i holds VM frame k.                    *)
Above(i, k) == \E j \in Drives : j > i /\ k > native[j].floor

(* at[i] and vat[k] are the places on the call stack of the calls native   *)
(* activation i and VM frame k stand for: every place above what abandoned *)
(* calls have left is one of them, in the order in which the calls were    *)
(* made.                                                                   *)
InCallOrder(at, vat) ==
  /\ \A p \in 1..Len(callStack) : p > Len(abandoned) =>
       (\E i \in NativeOf("call") : at[i] = p) \/ (\E k \in Brackets : vat[k] = p)
  /\ \A i \in NativeOf("call") : at[i] > Len(abandoned)
  /\ \A k \in Brackets : vat[k] > Len(abandoned)
  /\ \A i, j \in NativeOf("call") : i < j => at[i] < at[j]
  /\ \A k, l \in Brackets : k < l => vat[k] < vat[l]
  /\ \A i \in NativeOf("call"), k \in Brackets :
       IF Above(i, k) THEN at[i] < vat[k] ELSE vat[k] < at[i]

(* The place of a call names what it runs; its kind is that of the         *)
(* declaration it was entered with, the declaration itself until a tail    *)
(* call crosses to another.                                                *)
NamesRunning(at, vat) ==
  /\ \A i \in NativeOf("call") :
       LET c == native[i]
           d == callStack[at[i]]
       IN  /\ d \in Modules <=> c.handle.decl \in Modules
           /\ ~crossed => d = c.handle.decl
           /\ ~c.started \/ c.decl \notin Compiled => d = c.decl
           /\ \A j \in Drives : 
                j = i + 1 /\ native[j].floor < Len(vm)
                  /\ vm[native[j].floor + 1].type = "entry"
                => d = vm[native[j].floor + 1].decl
  /\ \A k \in Brackets :
       LET d == callStack[vat[k]]
       IN  /\ d = vm[k].decl
           /\ ~crossed => d = vm[k].handle.decl

Placed ==
  \E at \in [NativeOf("call") -> 1..Len(callStack)],
     vat \in [Brackets -> 1..Len(callStack)] :
    InCallOrder(at, vat) /\ NamesRunning(at, vat)

(* An exception on its way from the entry of an abandoned call finds that  *)
(* call above those it leaves: only the next evaluation is in order again. *)
CallsPlaced == Running \/ abandoned = <<>> => Placed

Counted ==
  /\ Len(callStack) = Cardinality(NativeOf("call")) + Cardinality(Brackets)
                        + Len(abandoned)
  /\ CountersExact
  /\ ActiveDeclsExact

WithinLimits ==
  /\ nativeDepth <= MaxUserCallDepth
  /\ moduleDepth <= MaxModuleCallDepth
  /\ driveDepth <= MaxDriveVmNativeDepth + (IF Running THEN 0 ELSE 1)
  /\ Len(vm) <= MaxVmCallStackDepth + driveDepth
  /\ \A j \in Drives :
       native[j].floor
         <= MaxVmCallStackDepth + Cardinality({i \in Drives : i < j})

(* A mode that is on when a bracket opens was switched on outside it.      *)
SavedModes ==
  /\ \A i \in NativeOf("measure") : native[i].saved =>
       \/ \E j \in NativeOf("measure") : j < i
       \/ \E k \in 1..Len(vm) : vm[k].wraps # <<>> /\ ~Above(i, k)
  /\ \A k \in 1..Len(vm) : vm[k].wraps # <<>> /\ Head(vm[k].wraps) =>
       \/ \E i \in NativeOf("measure") : Above(i, k)
       \/ \E l \in 1..(k - 1) : vm[l].wraps # <<>>

(* An exception leaves behind at most what nobody took off.                *)
Accumulators ==
  /\ tree >= 0
  /\ \A k \in 1..Len(vm) : Len(vm[k].wraps) <= MaxWraps
  /\ mode # "idle" => tree >= 1 + OpenAccumulators
  /\ TreeBalanced

IInv ==
  /\ Shapes
  /\ DrivesNested
  /\ CallsPlaced
  /\ Counted
  /\ WithinLimits
  /\ SavedModes
  /\ MeasuringScoped
  /\ Accumulators
=============================================================================

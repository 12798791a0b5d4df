-------------------------- MODULE UserCallsProofs --------------------------
(***************************************************************************)
(* Proofs about UserCalls for every program, every setting of the limits   *)
(* and a host that may stop an evaluation wherever it likes.               *)
(***************************************************************************)
EXTENDS UserCalls, FiniteSetTheorems, SequenceTheorems, TLAPS

-----------------------------------------------------------------------------
(* Sequences and finite sets of places.                                    *)

(* What is left when the last element goes.                                *)
LEMMA FrontFacts ==
  ASSUME NEW S, NEW s \in Seq(S), s # <<>>
  PROVE  /\ Front(s) \in Seq(S)
         /\ Len(s) \in Nat \ {0}
         /\ Len(Front(s)) = Len(s) - 1
         /\ \A i \in 1..(Len(s) - 1) : Front(s)[i] = s[i]
<1> PICK n \in Nat : n = Len(s)
  OBVIOUS
<1>1. n \in Nat \ {0}
  BY EmptySeq
<1>2. \A i \in 1..(n - 1) : s[i] \in S
  BY ElementOfSeq
<1>3. /\ Front(s) \in Seq(S)
      /\ Len(Front(s)) = IF 1 <= n - 1 THEN n - 1 - 1 + 1 ELSE 0
      /\ \A i \in 1..(n - 1 - 1 + 1) : Front(s)[i] = s[1 + i - 1]
  BY <1>2, SubSeqProperties DEF Front
<1>4. ASSUME NEW i \in 1..(n - 1) PROVE Front(s)[i] = s[i]
  <2>1. i \in 1..(n - 1 - 1 + 1) /\ 1 + i - 1 = i
    OBVIOUS
  <2> QED
    BY <2>1, <1>3
<1>5. Len(Front(s)) = n - 1
  BY <1>1, <1>3
<1> QED
  BY <1>1, <1>3, <1>4, <1>5

(* Changing the last element changes no other.                             *)
LEMMA SetLastFacts ==
  ASSUME NEW S, NEW s \in Seq(S), s # <<>>, NEW x \in S
  PROVE  /\ SetLast(s, x) \in Seq(S)
         /\ Len(SetLast(s, x)) = Len(s)
         /\ SetLast(s, x)[Len(s)] = x
         /\ \A i \in 1..(Len(s) - 1) : SetLast(s, x)[i] = s[i]
BY EmptySeq, ExceptSeq DEF SetLast

(* One of the other elements.                                              *)
LEMMA SetLastOthers ==
  ASSUME NEW S, NEW s \in Seq(S), s # <<>>, NEW x \in S,
         NEW i \in 1..(Len(s) - 1)
  PROVE  SetLast(s, x)[i] = s[i]
BY SetLastFacts

(* The element it was changed to is the last one.                          *)
LEMMA LastOfSetLast ==
  ASSUME NEW S, NEW s \in Seq(S), s # <<>>, NEW x \in S
  PROVE  Last(SetLast(s, x)) = x
<1>1. Len(SetLast(s, x)) = Len(s) /\ SetLast(s, x)[Len(s)] = x
  BY SetLastFacts
<1> QED
  BY <1>1 DEF Last

(* A set of places of a sequence is finite.                                *)
LEMMA PlacesFinite ==
  ASSUME NEW n \in Nat, NEW A \in SUBSET (1..n)
  PROVE  IsFiniteSet(A) /\ Cardinality(A) \in Nat /\ Cardinality(A) <= n
<1>1. IsFiniteSet(1..n) /\ Cardinality(1..n) = n
  BY FS_Interval
<1> QED
  BY <1>1, FS_Subset, FS_CardinalityType

-----------------------------------------------------------------------------
(* The steps, by what they do to the two stacks.                           *)

Refused ==
  /\ Running
  /\ mode' = "throw"
  /\ tree' \in {tree, tree + 1}
  /\ UNCHANGED <<calls, driveDepth, measuring, vm, native>>

NativeEntered(d, catches) ==
  /\ Running
  /\ ~TooDeep(d, FALSE)
  /\ EnterUserCall(d, FALSE)
  /\ tree' = tree + (IF d \in Modules THEN 1 ELSE 0)
  /\ native' = Append(native, Call(d, catches))
  /\ UNCHANGED <<driveDepth, measuring, vm, mode>>

(* The step that leaves a call behind: it is counted, and that is all.     *)
EntryStopped(d, skip) ==
  /\ Running
  /\ d \in Functions
  /\ ~TooDeep(d, skip)
  /\ StopAtEntry(d, skip)
  /\ UNCHANGED <<driveDepth, tree, measuring, vm, native>>

NativeHopped(d) ==
  /\ WalksFunction
  /\ d \in Functions \ Compiled
  /\ Last(native).hops < TcoIterationCap
  /\ RecordTailCallHop(d)
  /\ native' = SetLast(native, [Last(native) EXCEPT !.decl = d, !.hops = @ + 1])
  /\ UNCHANGED <<driveDepth, tree, measuring, vm, mode>>

ChunkStarted ==
  /\ Running
  /\ \E type \in {"bare", "body"} :
       DriveVm(native, VmFrame(type, NoDecl, NoHandle))

FrameEntered(d, type) ==
  /\ InVm
  /\ Len(vm) < MaxVmCallStackDepth
  /\ ~TooDeep(d, TRUE)
  /\ EnterUserCall(d, TRUE)
  /\ \/ type = "function" /\ d \in Functions /\ tree' = tree
     \/ type = "module" /\ d \in Modules /\ tree' = tree + 1
  /\ vm' = Append(vm, VmFrame(type, d, Handle(d, FALSE)))
  /\ UNCHANGED <<driveDepth, measuring, native, mode>>

ChildrenEntered ==
  /\ InVm
  /\ Len(vm) < MaxVmCallStackDepth
  /\ tree' = tree + 1
  /\ vm' = Append(vm, VmFrame("children", NoDecl, NoHandle))
  /\ UNCHANGED <<calls, driveDepth, measuring, native, mode>>

FrameHopped(d) ==
  /\ InVm
  /\ HopEligible(Last(vm))
  /\ d \in Functions
  /\ Last(vm).hops < TcoIterationCap
  /\ RecordTailCallHop(d)
  /\ vm' = SetLast(vm, [Last(vm) EXCEPT !.decl = d, !.hops = @ + 1])
  /\ UNCHANGED <<driveDepth, tree, measuring, native, mode>>

BlockClosed ==
  /\ mode # "idle"
  /\ Last(native).type \in {"block", "measure"}
  /\ tree' = tree - 1
  /\ measuring' = IF Last(native).type = "measure"
                  THEN Last(native).saved ELSE measuring
  /\ native' = Front(native)
  /\ UNCHANGED <<calls, driveDepth, vm, mode>>

CallLeft ==
  /\ mode # "idle"
  /\ Last(native).type = "call"
  /\ ExitUserCall(Last(native).handle)
  /\ tree' = tree - (IF /\ Last(native).handle.decl \in Modules
                        /\ Running \/ Last(native).catches
                     THEN 1 ELSE 0)
  /\ native' = Front(native)
  /\ UNCHANGED <<driveDepth, measuring, vm, mode>>

PassLeft ==
  /\ mode # "idle"
  /\ Last(native).type = "top"
  /\ native' = <<>>
  /\ mode' = "idle"
  /\ tree' \in {tree, tree - 1}
  /\ UNCHANGED <<calls, driveDepth, measuring, vm>>

Step ==
  \/ Evaluate
  \/ PassLeft
  \/ Refused
  \/ \E d \in Decl, catches \in BOOLEAN : NativeEntered(d, catches)
  \/ \E d \in Decl, skip \in BOOLEAN : EntryStopped(d, skip)
  \/ \E d \in Decl : NativeHopped(d)
  \/ RunCompiledBody
  \/ ChunkStarted
  \/ OpenBlock
  \/ OpenMeasure
  \/ \E d \in Decl, type \in {"function", "module"} : FrameEntered(d, type)
  \/ ChildrenEntered
  \/ \E d \in Decl : FrameHopped(d)
  \/ \E measures \in BOOLEAN : PushWrap(measures)
  \/ PopWrap
  \/ BlockClosed
  \/ CallLeft
  \/ VmReturn
  \/ UnwindFrame
  \/ UnwindDrive
  \/ UNCHANGED vars

(* A call made as C++ recursion is refused, entered, or stopped at entry.  *)
LEMMA NativeCallSteps ==
  ASSUME Running, tree \in Int,
         NEW d \in Decl, NEW catches \in BOOLEAN, NativeCall(d, catches)
  PROVE  Refused \/ NativeEntered(d, catches) \/ EntryStopped(d, FALSE)
<1>1. CASE TooDeep(d, FALSE)
  <2>1. /\ mode' = "throw"
        /\ tree' = tree + (IF d \in Modules /\ ~catches THEN 1 ELSE 0)
        /\ UNCHANGED <<calls, native, driveDepth, measuring, vm>>
    BY <1>1 DEF NativeCall
  <2>2. tree' \in {tree, tree + 1}
    BY <2>1
  <2> QED
    BY <2>1, <2>2 DEF Refused
<1>2. CASE ~TooDeep(d, FALSE)
  <2>1. /\ UNCHANGED <<driveDepth, measuring, vm>>
        /\ \/ /\ EnterUserCall(d, FALSE)
              /\ tree' = tree + (IF d \in Modules THEN 1 ELSE 0)
              /\ native' = Append(native, Call(d, catches))
              /\ mode' = mode
           \/ StopAtEntry(d, FALSE) /\ UNCHANGED <<tree, native>>
    BY <1>2 DEF NativeCall
  <2>2. StopAtEntry(d, FALSE) => d \in Functions
    BY CallsAssumption DEF StopAtEntry
  <2> QED
    BY <1>2, <2>1, <2>2 DEF NativeEntered, EntryStopped
<1> QED
  BY <1>1, <1>2

(* So is one inside the VM.                                                *)
LEMMA PushBracketedSteps ==
  ASSUME InVm, Shapes, NEW d \in Decl,
         NEW type \in {"function", "module"}, NEW n \in {0, 1},
         \/ type = "function" /\ d \in Functions /\ n = 0
         \/ type = "module" /\ d \in Modules /\ n = 1,
         PushBracketed(d, type, n)
  PROVE  Refused \/ FrameEntered(d, type) \/ EntryStopped(d, TRUE)
<1> DEFINE refused == Len(vm) >= MaxVmCallStackDepth \/ TooDeep(d, TRUE)
<1>1. CASE refused
  <2>1. /\ mode' = "throw" /\ tree' = tree + n
        /\ UNCHANGED <<calls, vm, driveDepth, measuring, native>>
    BY <1>1 DEF PushBracketed
  <2>2. tree' \in {tree, tree + 1}
    BY <2>1 DEF Shapes
  <2> QED
    BY <2>1, <2>2 DEF Refused, InVm
<1>2. CASE ~refused
  <2>1. /\ tree' = tree + n /\ UNCHANGED <<driveDepth, measuring, native>>
        /\ \/ /\ EnterUserCall(d, TRUE)
              /\ vm' = Append(vm, VmFrame(type, d, Handle(d, FALSE)))
              /\ mode' = mode
           \/ StopAtEntry(d, TRUE) /\ vm' = vm
    BY <1>2 DEF PushBracketed
  <2>2. Len(vm) < MaxVmCallStackDepth
    <3> PICK m \in Nat : m = Len(vm)
      BY DEF Shapes
    <3>1. MaxVmCallStackDepth \in Int
      BY CallsAssumption
    <3>2. ~(m >= MaxVmCallStackDepth)
      BY <1>2
    <3> QED
      BY <3>1, <3>2
  <2>3. n = 0 => tree' = tree
    BY <2>1 DEF Shapes
  <2>4. CASE StopAtEntry(d, TRUE) /\ vm' = vm
    <3>1. d \in Functions /\ n = 0
      BY <2>4, CallsAssumption DEF StopAtEntry
    <3> QED
      BY <1>2, <2>1, <2>3, <2>4, <3>1 DEF EntryStopped, InVm
  <2> QED
    BY <1>2, <2>1, <2>2, <2>3, <2>4 DEF FrameEntered
<1> QED
  BY <1>1, <1>2

(* Every step of the system is one of these.                               *)
LEMMA StepCases ==
  ASSUME Shapes, [Next]_vars
  PROVE  Step
<1>0. tree \in Int
  BY DEF Shapes
<1>1. CASE Fail
  BY <1>1 DEF Fail, Refused, Step
<1>2. ASSUME NEW d \in Decl, CallFunction(d) PROVE Step
  BY <1>0, <1>2, NativeCallSteps DEF CallFunction, InWalker, Step
<1>3. ASSUME NEW d \in Decl, CallUserModule(d) PROVE Step
  BY <1>0, <1>3, NativeCallSteps DEF CallUserModule, WalksStatements, InWalker, Step
<1>4. ASSUME NEW d \in Decl, TrampolineHop(d) PROVE Step
  BY <1>4 DEF TrampolineHop, WalksFunction, InWalker, Refused, NativeHopped, Step
<1>5. ASSUME NEW d \in Decl, VmCallFunction(d) PROVE Step
  BY <1>0, <1>5, NativeCallSteps, PushBracketedSteps DEF VmCallFunction, InVm, Step
<1>6. ASSUME NEW d \in Decl, VmCallModule(d) PROVE Step
  BY <1>0, <1>6, NativeCallSteps, PushBracketedSteps
     DEF VmCallModule, VmStatements, InVm, Step
<1>7. ASSUME NEW d \in Decl, VmTailHop(d) PROVE Step
  BY <1>7 DEF VmTailHop, InVm, Refused, FrameHopped, Step
<1>8. CASE RunBareChunk
  BY <1>8 DEF RunBareChunk, InWalker, InVm, ChunkStarted, Step
<1>9. CASE RunChildrenChunk
  BY <1>9 DEF RunChildrenChunk, WalksStatements, InWalker, ChunkStarted, Step
<1>10. CASE VmCallChildren
  <2> PICK m \in Nat : m = Len(vm)
    BY DEF Shapes
  <2>1. MaxVmCallStackDepth \in Int
    BY CallsAssumption
  <2>2. CASE m >= MaxVmCallStackDepth
    BY <1>10, <2>2 DEF VmCallChildren, VmStatements, InVm, Refused, Step
  <2>3. CASE m < MaxVmCallStackDepth
    BY <1>10, <2>1, <2>3 DEF VmCallChildren, VmStatements, ChildrenEntered, Step
  <2> QED
    BY <2>1, <2>2, <2>3
<1>11. CASE Leave
  <2>1. CASE Finish
    BY <2>1 DEF Finish, Running, Top, PassLeft, Step
  <2>2. CASE ReturnCall
    BY <2>2 DEF ReturnCall, Running, CallLeft, Step
  <2>3. CASE CloseBlock
    BY <2>3 DEF CloseBlock, Running, BlockClosed, Step
  <2> QED
    BY <1>11, <2>1, <2>2, <2>3 DEF Leave, Step
<1>12. CASE Unwind
  <2>1. CASE UnwindTop
    BY <2>1 DEF UnwindTop, Throwing, PassLeft, Step
  <2>2. CASE UnwindCall
    BY <2>2 DEF UnwindCall, Throwing, Running, CallLeft, Step
  <2>3. CASE UnwindBlock
    BY <2>3 DEF UnwindBlock, Throwing, BlockClosed, Step
  <2> QED
    BY <1>12, <2>1, <2>2, <2>3 DEF Unwind, Step
<1> QED
  BY <1>1, <1>2, <1>3, <1>4, <1>5, <1>6, <1>7, <1>8, <1>9, <1>10, <1>11, <1>12
     DEF Next, Step

(* No other step adds to what has been abandoned.                          *)
LEMMA StepAbandons ==
  ASSUME Step
  PROVE  \/ abandoned' = abandoned
         \/ \E d \in Decl, skip \in BOOLEAN : EntryStopped(d, skip)
<1>1. CASE Evaluate \/ PassLeft \/ Refused
  BY <1>1 DEF Evaluate, PassLeft, Refused, calls
<1>2. CASE \E d \in Decl, catches \in BOOLEAN : NativeEntered(d, catches)
  BY <1>2 DEF NativeEntered, EnterUserCall
<1>3. CASE \E d \in Decl : NativeHopped(d) \/ FrameHopped(d)
  BY <1>3 DEF NativeHopped, FrameHopped, RecordTailCallHop
<1>4. CASE RunCompiledBody \/ ChunkStarted
  BY <1>4 DEF RunCompiledBody, ChunkStarted, DriveVm, calls
<1>5. CASE OpenBlock \/ OpenMeasure \/ BlockClosed \/ UnwindDrive \/ ChildrenEntered
  BY <1>5 DEF OpenBlock, OpenMeasure, BlockClosed, UnwindDrive, ChildrenEntered, calls
<1>6. CASE \E d \in Decl, type \in {"function", "module"} : FrameEntered(d, type)
  BY <1>6 DEF FrameEntered, EnterUserCall
<1>7. CASE PopWrap \/ \E measures \in BOOLEAN : PushWrap(measures)
  BY <1>7 DEF PopWrap, PushWrap, calls
<1>8. CASE CallLeft
  BY <1>8 DEF CallLeft, ExitUserCall
<1>9. CASE VmReturn \/ UnwindFrame
  BY <1>9 DEF VmReturn, UnwindFrame, LeaveBracket, ExitUserCall, calls
<1>10. CASE UNCHANGED vars
  BY <1>10 DEF vars
<1> QED
  BY <1>1, <1>2, <1>3, <1>4, <1>5, <1>6, <1>7, <1>8, <1>9, <1>10 DEF Step

-----------------------------------------------------------------------------
(* The stacks before and after a step.                                     *)

(* The records the model builds are of their types.                        *)
LEMMA ActivationTypes ==
  /\ Top \in Activations /\ Block \in Activations
  /\ \A b \in BOOLEAN : Measure(b) \in Activations
  /\ \A n \in Nat : Drive(n) \in Activations
  /\ \A d \in Decl, b \in BOOLEAN : Call(d, b) \in Activations
<1>1. \A b \in BOOLEAN : Measure(b) \in [type : {"measure"}, saved : BOOLEAN]
  BY DEF Measure
<1>2. \A n \in Nat : Drive(n) \in [type : {"drive"}, floor : Nat]
  BY DEF Drive
<1>3. ASSUME NEW d \in Decl, NEW b \in BOOLEAN PROVE Call(d, b) \in Activations
  <2>1. Handle(d, TRUE) \in [decl : Decl, counted : {TRUE}]
    BY DEF Handle
  <2>2. 0 \in 0..TcoIterationCap
    BY CallsAssumption
  <2> QED
    BY <2>1, <2>2 DEF Call, Activations, CallRecords
<1> QED
  BY <1>1, <1>2, <1>3 DEF Activations

(* So are the frames.                                                     *)
LEMMA FrameTypes ==
  /\ \A type \in {"bare", "body", "children"} :
       VmFrame(type, NoDecl, NoHandle) \in VmFrames
  /\ \A d \in Decl, type \in {"entry", "body"} :
       VmFrame(type, d, NoHandle) \in VmFrames
  /\ \A d \in Decl, type \in {"function", "module"} :
       VmFrame(type, d, Handle(d, FALSE)) \in VmFrames
<1>1. 0 \in 0..TcoIterationCap
  BY CallsAssumption
<1>2. <<>> \in Seq(BOOLEAN)
  OBVIOUS
<1>3. ASSUME NEW d \in Decl \cup {NoDecl}, NEW e \in Decl \cup {NoDecl},
             NEW type \in {"function", "entry", "bare", "module", "body", "children"}
      PROVE  VmFrame(type, d, Handle(e, FALSE)) \in VmFrames
  <2>1. Handle(e, FALSE) \in [decl : Decl \cup {NoDecl}, counted : {FALSE}]
    BY DEF Handle
  <2> QED
    BY <1>1, <1>2, <2>1 DEF VmFrame, VmFrames
<1> QED
  BY <1>3 DEF NoHandle

(* What the activations of a kind carry.                                   *)
LEMMA ActivationKinds ==
  ASSUME NEW a \in Activations
  PROVE  /\ a.type \in {"top", "block", "measure", "drive", "call"}
         /\ a.type = "top" => a = Top
         /\ a.type = "measure" => a.saved \in BOOLEAN
         /\ a.type = "drive" => a.floor \in Nat
         /\ a.type = "call" =>
              /\ a \in CallRecords
              /\ a.decl \in Decl
              /\ a.handle.decl \in Decl
              /\ a.handle.counted
              /\ a.hops \in 0..TcoIterationCap
              /\ a.started \in BOOLEAN
<1>1. CASE a \in {Top, Block}
  BY <1>1 DEF Top, Block
<1>2. CASE a \in [type : {"measure"}, saved : BOOLEAN]
  BY <1>2
<1>3. CASE a \in [type : {"drive"}, floor : Nat]
  BY <1>3
<1>4. CASE a \in CallRecords
  BY <1>4 DEF CallRecords
<1> QED
  BY <1>1, <1>2, <1>3, <1>4 DEF Activations

(* A new activation leaves those below it where they are.                  *)
LEMMA PushedNative ==
  ASSUME Shapes, native # <<>>, NEW x \in Activations, x.type # "top",
         native' = Append(native, x)
  PROVE  /\ Len(native) \in Nat \ {0}
         /\ native' \in Seq(Activations)
         /\ Len(native') = Len(native) + 1
         /\ native'[Len(native) + 1] = x
         /\ \A i \in 1..Len(native) : native'[i] = native[i]
         /\ native' # <<>> /\ native'[1] = Top
         /\ \A i \in 2..Len(native') : native'[i].type # "top"
<1>0. native \in Seq(Activations) /\ native[1] = Top
      /\ \A i \in 2..Len(native) : native[i].type # "top"
  BY DEF Shapes
<1> PICK n \in Nat : n = Len(native)
  BY <1>0
<1>1. n # 0
  BY <1>0, EmptySeq
<1>2. /\ native' \in Seq(Activations) /\ native' # <<>>
      /\ Len(native') = n + 1
      /\ native'[n + 1] = x
      /\ \A i \in 1..n : native'[i] = native[i]
  BY <1>0, AppendProperties
<1>3. native'[1] = Top
  BY <1>0, <1>1, <1>2
<1>4. ASSUME NEW i \in 2..(n + 1) PROVE native'[i].type # "top"
  <2>1. CASE i = n + 1
    BY <2>1, <1>2
  <2>2. CASE i # n + 1
    <3>1. i \in 2..n /\ i \in 1..n
      BY <2>2
    <3> QED
      BY <3>1, <1>0, <1>2
  <2> QED
    BY <2>1, <2>2
<1> QED
  BY <1>1, <1>2, <1>3, <1>4

(* An activation that is not the pass itself has the pass below it.        *)
LEMMA PoppedNative ==
  ASSUME Shapes, native # <<>>, Last(native).type # "top",
         native' = Front(native)
  PROVE  /\ Len(native) \in Nat \ {0, 1}
         /\ Last(native) \in Activations
         /\ native' \in Seq(Activations)
         /\ Len(native') = Len(native) - 1
         /\ \A i \in 1..(Len(native) - 1) : native'[i] = native[i]
         /\ native' # <<>> /\ native'[1] = Top
         /\ \A i \in 2..Len(native') : native'[i].type # "top"
<1>0. native \in Seq(Activations) /\ native[1] = Top
      /\ \A i \in 2..Len(native) : native[i].type # "top"
  BY DEF Shapes
<1> PICK n \in Nat : n = Len(native)
  BY <1>0
<1>1. n # 0
  BY <1>0, EmptySeq
<1>2. n # 1
  BY <1>0 DEF Last, Top
<1>3. /\ native' \in Seq(Activations)
      /\ Len(native') = n - 1
      /\ \A i \in 1..(n - 1) : native'[i] = native[i]
  BY <1>0, FrontFacts
<1>4. native' # <<>>
  <2>1. n - 1 # 0
    BY <1>1, <1>2
  <2> QED
    BY <2>1, <1>3, EmptySeq
<1>5. Last(native) \in Activations
  BY <1>0, <1>1, ElementOfSeq DEF Last
<1>6. native'[1] = Top
  BY <1>0, <1>1, <1>2, <1>3
<1>7. \A i \in 2..(n - 1) : i \in 1..(n - 1) /\ i \in 2..n
  OBVIOUS
<1> QED
  BY <1>0, <1>1, <1>2, <1>3, <1>4, <1>5, <1>6, <1>7

(* The last VM frame goes.                                                 *)
LEMMA PoppedVm ==
  ASSUME vm \in Seq(VmFrames), vm # <<>>, vm' = Front(vm)
  PROVE  /\ Len(vm) \in Nat \ {0}
         /\ Last(vm) \in VmFrames
         /\ vm' \in Seq(VmFrames)
         /\ Len(vm') = Len(vm) - 1
         /\ \A k \in 1..(Len(vm) - 1) : vm'[k] = vm[k]
<1> PICK n \in Nat : n = Len(vm)
  OBVIOUS
<1>1. n # 0
  BY EmptySeq
<1>2. Last(vm) \in VmFrames
  BY <1>1, ElementOfSeq DEF Last
<1> QED
  BY <1>1, <1>2, FrontFacts

(* A driver at work has a frame above its floor.                           *)
LEMMA DriverHasFrame ==
  ASSUME Shapes, DrivesNested, native # <<>>, Last(native).type = "drive",
         Running \/ Len(vm) > Last(native).floor
  PROVE  /\ Len(native) \in Drives
         /\ Last(native).floor \in Nat
         /\ Last(native).floor < Len(vm)
         /\ vm # <<>>
         /\ Len(vm) \in Nat \ {0}
         /\ Last(vm) \in VmFrames
<1>0. native \in Seq(Activations) /\ vm \in Seq(VmFrames)
  BY DEF Shapes
<1> PICK n \in Nat : n = Len(native)
  BY <1>0
<1> PICK m \in Nat : m = Len(vm)
  BY <1>0
<1>1. n # 0
  BY <1>0, EmptySeq
<1>2. Last(native) \in Activations
  BY <1>0, <1>1, ElementOfSeq DEF Last
<1>3. Last(native).floor \in Nat
  BY <1>2, ActivationKinds
<1>4. n \in Drives
  BY <1>1 DEF Drives, NativeOf, Last
<1>5. Last(native).floor < m
  BY <1>3, <1>4 DEF DrivesNested, Last
<1>6. m # 0
  BY <1>3, <1>5
<1>7. vm # <<>>
  BY <1>0, <1>6, EmptySeq
<1>8. Last(vm) \in VmFrames
  BY <1>0, <1>6, ElementOfSeq DEF Last
<1> QED
  BY <1>3, <1>4, <1>5, <1>6, <1>7, <1>8

(* What is counted is finite.                                              *)
LEMMA CountedFinite ==
  ASSUME Shapes
  PROVE  /\ \A t : IsFiniteSet(NativeOf(t)) /\ Cardinality(NativeOf(t)) \in Nat
         /\ IsFiniteSet(Brackets) /\ Cardinality(Brackets) \in Nat
         /\ IsFiniteSet(ModulesOnStack) /\ Cardinality(ModulesOnStack) \in Nat
         /\ \A d : IsFiniteSet(Occurrences(d)) /\ Cardinality(Occurrences(d)) \in Nat
         /\ IsFiniteSet(CountedAbandoned) /\ Cardinality(CountedAbandoned) \in Nat
         /\ Len(abandoned) \in Nat
<1> PICK n \in Nat : n = Len(native)
  BY DEF Shapes
<1> PICK m \in Nat : m = Len(vm)
  BY DEF Shapes
<1> PICK c \in Nat : c = Len(callStack)
  BY DEF Shapes
<1> PICK a \in Nat : a = Len(abandoned)
  BY DEF Shapes
<1>1. \A t : NativeOf(t) \in SUBSET (1..n)
  BY DEF NativeOf
<1>2. Brackets \in SUBSET (1..m)
  BY DEF Brackets
<1>3. ModulesOnStack \in SUBSET (1..c)
  BY DEF ModulesOnStack
<1>4. \A d : Occurrences(d) \in SUBSET (1..c)
  BY DEF Occurrences
<1>5. CountedAbandoned \in SUBSET (1..a)
  BY DEF CountedAbandoned
<1> QED
  BY <1>1, <1>2, <1>3, <1>4, <1>5, PlacesFinite

(* The calls entered with certain declarations, by where they are now.     *)
CallsIn(D) == {i \in NativeOf("call") : native[i].handle.decl \in D}
FramesIn(D) == {k \in Brackets : vm[k].handle.decl \in D}
LeftIn(D) == {a \in 1..Len(abandoned) : abandoned[a].decl \in D}

LEMMA LengthsNat ==
  ASSUME Shapes
  PROVE  /\ Len(native) \in Nat /\ Len(vm) \in Nat
         /\ Len(callStack) \in Nat /\ Len(abandoned) \in Nat
<1>1. /\ native \in Seq(Activations) /\ vm \in Seq(VmFrames)
      /\ callStack \in Seq(Decl)
      /\ abandoned \in Seq([decl : Functions, counted : BOOLEAN])
  BY DEF Shapes
<1> QED
  BY <1>1

LEMMA SumOfNats ==
  ASSUME NEW x \in Nat, NEW y \in Nat, NEW z \in Nat
  PROVE  x + y + z \in Nat
OBVIOUS

LEMMA EnteredMeans ==
  ASSUME Shapes, NEW D
  PROVE  /\ Entered(D) = Cardinality(CallsIn(D)) + Cardinality(FramesIn(D))
                           + Cardinality(LeftIn(D))
         /\ IsFiniteSet(CallsIn(D)) /\ Cardinality(CallsIn(D)) \in Nat
         /\ IsFiniteSet(FramesIn(D)) /\ Cardinality(FramesIn(D)) \in Nat
         /\ IsFiniteSet(LeftIn(D)) /\ Cardinality(LeftIn(D)) \in Nat
         /\ Entered(D) \in Nat
<1> PICK a \in Nat : a = Len(abandoned)
  BY DEF Shapes
<1>1. CallsIn(D) \in SUBSET NativeOf("call") /\ FramesIn(D) \in SUBSET Brackets
      /\ LeftIn(D) \in SUBSET (1..a)
  BY DEF CallsIn, FramesIn, LeftIn
<1>2. /\ IsFiniteSet(CallsIn(D)) /\ Cardinality(CallsIn(D)) \in Nat
      /\ IsFiniteSet(FramesIn(D)) /\ Cardinality(FramesIn(D)) \in Nat
      /\ IsFiniteSet(LeftIn(D)) /\ Cardinality(LeftIn(D)) \in Nat
  BY <1>1, CountedFinite, PlacesFinite, FS_Subset, FS_CardinalityType
<1>3. Entered(D) = Cardinality(CallsIn(D)) + Cardinality(FramesIn(D))
                     + Cardinality(LeftIn(D))
  BY DEF Entered, CallsIn, FramesIn, LeftIn
<1>4. Entered(D) \in Nat
  BY <1>2, <1>3, SumOfNats
<1> QED
  BY <1>2, <1>3, <1>4

(* Whoever is inside a call finds one on the call stack.                   *)
LEMMA InsideCall ==
  ASSUME Shapes, Counted, NativeOf("call") # {} \/ Brackets # {}
  PROVE  callStack # <<>> /\ Len(callStack) \in Nat \ {0}
<1> PICK n \in Nat : n = Len(callStack)
  BY DEF Shapes
<1>1. /\ IsFiniteSet(NativeOf("call")) /\ Cardinality(NativeOf("call")) \in Nat
      /\ IsFiniteSet(Brackets) /\ Cardinality(Brackets) \in Nat
      /\ Len(abandoned) \in Nat
  BY CountedFinite
<1>2. Cardinality(NativeOf("call")) # 0 \/ Cardinality(Brackets) # 0
  BY <1>1, FS_EmptySet
<1>3. n = Cardinality(NativeOf("call")) + Cardinality(Brackets) + Len(abandoned)
  BY DEF Counted
<1>4. n # 0
  BY <1>1, <1>2, <1>3
<1>5. callStack # <<>>
  BY <1>4, EmptySeq
<1> QED
  BY <1>4, <1>5

(* Abandoned calls have their places on the call stack too.                *)
LEMMA AbandonedFit ==
  ASSUME Shapes, Counted
  PROVE  Len(abandoned) \in Nat /\ Len(abandoned) <= Len(callStack)
<1> PICK n \in Nat : n = Cardinality(NativeOf("call"))
  BY CountedFinite
<1> PICK b \in Nat : b = Cardinality(Brackets)
  BY CountedFinite
<1> PICK a \in Nat : a = Len(abandoned)
  BY CountedFinite
<1>1. Len(callStack) = n + b + a
  BY DEF Counted
<1> QED
  BY <1>1

(* A stop at a body entry leaves one more.                                 *)
LEMMA Abandoning ==
  ASSUME Shapes, NEW d \in Decl, NEW skip \in BOOLEAN, EntryStopped(d, skip)
  PROVE  /\ Len(abandoned) \in Nat
         /\ Len(abandoned') = Len(abandoned) + 1
         /\ abandoned'[Len(abandoned) + 1] = Handle(d, ~skip)
         /\ \A a \in 1..Len(abandoned) : abandoned'[a] = abandoned[a]
         /\ abandoned' # <<>> /\ abandoned' # abandoned
<1>1. abandoned \in Seq([decl : Functions, counted : BOOLEAN])
  BY DEF Shapes
<1>2. Handle(d, ~skip) \in [decl : Functions, counted : BOOLEAN]
  BY DEF EntryStopped, Handle
<1>3. abandoned' = Append(abandoned, Handle(d, ~skip))
  BY DEF EntryStopped, StopAtEntry
<1> PICK n \in Nat : n = Len(abandoned)
  BY <1>1
<1>4. /\ Len(abandoned') = n + 1
      /\ abandoned'[n + 1] = Handle(d, ~skip)
      /\ \A a \in 1..n : abandoned'[a] = abandoned[a]
  BY <1>1, <1>2, <1>3, AppendProperties
<1>5. n + 1 # 0 /\ n + 1 # n
  OBVIOUS
<1>6. abandoned' # <<>> /\ abandoned' # abandoned
  BY <1>4, <1>5
<1> QED
  BY <1>4, <1>6

(* A frame that a tail call may reuse is inside a call.                    *)
LEMMA HopInsideCall ==
  ASSUME Shapes, DrivesNested, Counted, vm # <<>>, HopEligible(Last(vm))
  PROVE  callStack # <<>> /\ Len(callStack) \in Nat \ {0}
<1>0. native \in Seq(Activations) /\ vm \in Seq(VmFrames)
      /\ \A k \in 1..Len(vm) : FrameOK(vm[k])
  BY DEF Shapes
<1> PICK m \in Nat : m = Len(vm)
  BY <1>0
<1> PICK n \in Nat : n = Len(native)
  BY <1>0
<1>1. m \in 1..m
  BY <1>0, EmptySeq
<1>2. CASE vm[m].type = "function"
  <2>1. m \in Brackets
    BY <1>0, <1>1, <1>2 DEF FrameOK, Brackets
  <2> QED
    BY <2>1, InsideCall
<1>3. CASE vm[m].type = "entry"
  <2>1. PICK j \in Drives : j > 1 /\ native[j - 1].type = "call"
    BY <1>1, <1>3 DEF DrivesNested
  <2>2. j - 1 \in NativeOf("call")
    BY <2>1 DEF Drives, NativeOf
  <2> QED
    BY <2>2, InsideCall
<1> QED
  BY <1>2, <1>3 DEF HopEligible, Last

(* A call is entered.                                                      *)
LEMMA EnteredCall ==
  ASSUME Shapes, NEW d \in Decl, NEW skip \in BOOLEAN, CountCall(d, skip)
  PROVE  /\ callStack' \in Seq(Decl)
         /\ Len(callStack) \in Nat
         /\ Len(callStack') = Len(callStack) + 1
         /\ callStack'[Len(callStack) + 1] = d
         /\ \A p \in 1..Len(callStack) : callStack'[p] = callStack[p]
         /\ active' \in [Decl -> Nat]
         /\ moduleDepth' \in Int /\ nativeDepth' \in Int
         /\ crossed' = crossed
<1>1. callStack \in Seq(Decl) /\ active \in [Decl -> Nat]
      /\ moduleDepth \in Int /\ nativeDepth \in Int
  BY DEF Shapes
<1>2. callStack' = Append(callStack, d)
      /\ moduleDepth' = moduleDepth + (IF d \in Modules THEN 1 ELSE 0)
      /\ nativeDepth' = nativeDepth + (IF skip THEN 0 ELSE 1)
      /\ active' = [active EXCEPT ![d] = @ + 1]
      /\ crossed' = crossed
  BY DEF CountCall, NoteActiveDeclEnter
<1>3. active' \in [Decl -> Nat]
  BY <1>1, <1>2
<1>4. moduleDepth' \in Int /\ nativeDepth' \in Int
  BY <1>1, <1>2
<1> QED
  BY <1>1, <1>2, <1>3, <1>4, AppendProperties

(* A call is left.                                                         *)
LEMMA LeftCall ==
  ASSUME Shapes, callStack # <<>>, NEW h, h.decl \in Decl, ExitUserCall(h)
  PROVE  /\ callStack' \in Seq(Decl)
         /\ Len(callStack) \in Nat \ {0}
         /\ Len(callStack') = Len(callStack) - 1
         /\ \A p \in 1..(Len(callStack) - 1) : callStack'[p] = callStack[p]
         /\ active' \in [Decl -> Nat]
         /\ moduleDepth' \in Int /\ nativeDepth' \in Int
         /\ crossed' = crossed
<1>1. callStack \in Seq(Decl) /\ active \in [Decl -> Nat]
      /\ moduleDepth \in Int /\ nativeDepth \in Int
  BY DEF Shapes
<1>2. callStack' = Front(callStack)
      /\ moduleDepth' = moduleDepth - (IF h.decl \in Modules THEN 1 ELSE 0)
      /\ nativeDepth' = nativeDepth - (IF h.counted THEN 1 ELSE 0)
      /\ active' = [active EXCEPT ![h.decl] = IF @ > 0 THEN @ - 1 ELSE 0]
      /\ crossed' = crossed
  BY DEF ExitUserCall, NoteActiveDeclExit
<1>3. active' \in [Decl -> Nat]
  <2>1. (IF active[h.decl] > 0 THEN active[h.decl] - 1 ELSE 0) \in Nat
    BY <1>1
  <2> QED
    BY <1>1, <1>2, <2>1
<1>4. moduleDepth' \in Int /\ nativeDepth' \in Int
  BY <1>1, <1>2
<1> QED
  BY <1>1, <1>2, <1>3, <1>4, FrontFacts

(* A tail call takes over a call.                                          *)
LEMMA HoppedCall ==
  ASSUME Shapes, callStack # <<>>, NEW d \in Decl, RecordTailCallHop(d)
  PROVE  /\ callStack' \in Seq(Decl)
         /\ Len(callStack) \in Nat \ {0}
         /\ Last(callStack) \in Decl
         /\ Len(callStack') = Len(callStack)
         /\ callStack'[Len(callStack)] = d
         /\ \A p \in 1..(Len(callStack) - 1) : callStack'[p] = callStack[p]
         /\ active' \in [Decl -> Nat]
         /\ crossed' \in BOOLEAN
         /\ ~crossed' => ~crossed /\ d = Last(callStack)
<1>1. callStack \in Seq(Decl) /\ active \in [Decl -> Nat] /\ crossed \in BOOLEAN
  BY DEF Shapes
<1> DEFINE l == Last(callStack)
           bag == [active EXCEPT ![l] = IF @ > 0 THEN @ - 1 ELSE 0]
<1>2. callStack' = SetLast(callStack, d)
      /\ active' = [bag EXCEPT ![d] = @ + 1]
      /\ crossed' = (crossed \/ d # l)
  BY DEF RecordTailCallHop, NoteActiveDeclExit, NoteActiveDeclEnter
<1>3. Len(callStack) \in 1..Len(callStack)
  <2> PICK n \in Nat : n = Len(callStack)
    BY <1>1
  <2>1. n # 0
    BY <1>1, EmptySeq
  <2> QED
    BY <2>1
<1>4. l \in Decl
  BY <1>1, <1>3, ElementOfSeq DEF Last
<1>5. bag \in [Decl -> Nat]
  <2>1. (IF active[l] > 0 THEN active[l] - 1 ELSE 0) \in Nat
    BY <1>1, <1>4
  <2> QED
    BY <1>1, <1>4, <2>1
<1>6. active' \in [Decl -> Nat]
  BY <1>2, <1>5
<1>7. crossed' \in BOOLEAN /\ (~crossed' => ~crossed /\ d = l)
  BY <1>2
<1> HIDE DEF bag, l
<1> PICK n \in Nat : n = Len(callStack)
  BY <1>1
<1>8. /\ callStack' \in Seq(Decl)
      /\ Len(callStack') = n
      /\ callStack'[n] = d
      /\ \A p \in 1..(n - 1) : callStack'[p] = callStack[p]
  <2>1. callStack \in Seq(Decl)
    BY <1>1
  <2>2. callStack' = SetLast(callStack, d)
    BY <1>2
  <2>3. SetLast(callStack, d) \in Seq(Decl)
    BY <2>1, SetLastFacts
  <2>4. Len(SetLast(callStack, d)) = Len(callStack)
    BY <2>1, SetLastFacts
  <2>5. SetLast(callStack, d)[Len(callStack)] = d
    BY <2>1, SetLastFacts
  <2>6. ASSUME NEW i \in 1..(Len(callStack) - 1)
        PROVE  SetLast(callStack, d)[i] = callStack[i]
    BY <2>1, SetLastOthers
  <2> QED
    BY <2>2, <2>3, <2>4, <2>5, <2>6
<1>9. n # 0
  BY <1>1, EmptySeq
<1> QED
  BY <1>4, <1>6, <1>7, <1>8, <1>9 DEF l

-----------------------------------------------------------------------------
(* Shapes.                                                                 *)

(* The variables that are not stacks keep their types.                     *)
LEMMA ShapesOf ==
  ASSUME /\ callStack' \in Seq(Decl)
         /\ active' \in [Decl -> Nat]
         /\ moduleDepth' \in Int /\ nativeDepth' \in Int
         /\ driveDepth' \in Int /\ tree' \in Int
         /\ measuring' \in BOOLEAN /\ crossed' \in BOOLEAN,
         vm' \in Seq(VmFrames),
         \A k \in 1..Len(vm') : FrameOK(vm'[k]),
         native' \in Seq(Activations),
         mode' \in {"idle", "run", "throw"},
         mode' = "idle" <=> native' = <<>>,
         abandoned' \in Seq([decl : Functions, counted : BOOLEAN]),
         native' # <<>> => native'[1] = Top,
         \A i \in 2..Len(native') : native'[i].type # "top"
  PROVE  Shapes'
BY DEF Shapes

(* Pushing a frame of a proper kind.                                       *)
LEMMA PushedVm ==
  ASSUME Shapes, NEW f \in VmFrames, FrameOK(f), vm' = Append(vm, f)
  PROVE  /\ Len(vm) \in Nat
         /\ vm' \in Seq(VmFrames)
         /\ Len(vm') = Len(vm) + 1
         /\ vm'[Len(vm) + 1] = f
         /\ \A k \in 1..Len(vm) : vm'[k] = vm[k]
         /\ \A k \in 1..Len(vm') : FrameOK(vm'[k])
<1>0. vm \in Seq(VmFrames) /\ \A k \in 1..Len(vm) : FrameOK(vm[k])
  BY DEF Shapes
<1> PICK m \in Nat : m = Len(vm)
  BY <1>0
<1>1. /\ vm' \in Seq(VmFrames)
      /\ Len(vm') = m + 1
      /\ vm'[m + 1] = f
      /\ \A k \in 1..m : vm'[k] = vm[k]
  BY <1>0, AppendProperties
<1>2. ASSUME NEW k \in 1..(m + 1) PROVE FrameOK(vm'[k])
  <2>1. CASE k = m + 1
    BY <1>1, <2>1
  <2>2. CASE k \in 1..m
    BY <1>0, <1>1, <2>2
  <2> QED
    BY <2>1, <2>2
<1> QED
  BY <1>1, <1>2

(* Changing the last frame within its kind.                                *)
LEMMA ChangedVm ==
  ASSUME Shapes, vm # <<>>, NEW f \in VmFrames, FrameOK(f),
         vm' = SetLast(vm, f)
  PROVE  /\ Len(vm) \in Nat \ {0}
         /\ vm' \in Seq(VmFrames)
         /\ Len(vm') = Len(vm)
         /\ vm'[Len(vm)] = f
         /\ \A k \in 1..(Len(vm) - 1) : vm'[k] = vm[k]
         /\ \A k \in 1..Len(vm') : FrameOK(vm'[k])
<1>0. vm \in Seq(VmFrames) /\ \A k \in 1..Len(vm) : FrameOK(vm[k])
  BY DEF Shapes
<1> PICK m \in Nat : m = Len(vm)
  BY <1>0
<1>1. /\ vm' \in Seq(VmFrames)
      /\ Len(vm') = m
      /\ vm'[m] = f
      /\ \A k \in 1..(m - 1) : vm'[k] = vm[k]
  <2>1. SetLast(vm, f) \in Seq(VmFrames)
    BY <1>0, SetLastFacts
  <2>2. Len(SetLast(vm, f)) = Len(vm)
    BY <1>0, SetLastFacts
  <2>3. SetLast(vm, f)[Len(vm)] = f
    BY <1>0, SetLastFacts
  <2>4. ASSUME NEW i \in 1..(Len(vm) - 1) PROVE SetLast(vm, f)[i] = vm[i]
    BY <1>0, SetLastOthers
  <2> QED
    BY <2>1, <2>2, <2>3, <2>4
<1>2. ASSUME NEW k \in 1..m PROVE FrameOK(vm'[k])
  <2>1. CASE k = m
    BY <1>1, <2>1
  <2>2. CASE k \in 1..(m - 1)
    BY <1>0, <1>1, <2>2
  <2> QED
    BY <2>1, <2>2
<1>3. m # 0
  BY <1>0, EmptySeq
<1> QED
  BY <1>1, <1>2, <1>3

(* Taking the last frame off.                                              *)
LEMMA PoppedFrames ==
  ASSUME Shapes, vm # <<>>, vm' = Front(vm)
  PROVE  /\ Len(vm) \in Nat \ {0}
         /\ Last(vm) \in VmFrames
         /\ FrameOK(Last(vm))
         /\ vm' \in Seq(VmFrames)
         /\ Len(vm') = Len(vm) - 1
         /\ \A k \in 1..(Len(vm) - 1) : vm'[k] = vm[k]
         /\ \A k \in 1..Len(vm') : FrameOK(vm'[k])
<1>0. vm \in Seq(VmFrames) /\ \A k \in 1..Len(vm) : FrameOK(vm[k])
  BY DEF Shapes
<1> PICK m \in Nat : m = Len(vm)
  BY <1>0
<1>1. /\ m # 0
      /\ Last(vm) \in VmFrames
      /\ vm' \in Seq(VmFrames)
      /\ Len(vm') = m - 1
      /\ \A k \in 1..(m - 1) : vm'[k] = vm[k]
  BY <1>0, PoppedVm
<1>2. \A k \in 1..(m - 1) : k \in 1..m
  OBVIOUS
<1>3. m \in 1..m
  BY <1>1
<1> QED
  BY <1>0, <1>1, <1>2, <1>3 DEF Last

(* The frames a step may build are of their kinds.                         *)
LEMMA FrameKinds ==
  /\ \A type \in {"bare", "body", "children"} :
       FrameOK(VmFrame(type, NoDecl, NoHandle))
  /\ \A d \in Modules : FrameOK(VmFrame("body", d, NoHandle))
  /\ \A d \in Functions : FrameOK(VmFrame("entry", d, NoHandle))
  /\ \A d \in Functions : FrameOK(VmFrame("function", d, Handle(d, FALSE)))
  /\ \A d \in Modules : FrameOK(VmFrame("module", d, Handle(d, FALSE)))
BY CallsAssumption DEF FrameOK, VmFrame, Decl, Handle, NoHandle

(* A driver's start is a push on both stacks.                              *)
LEMMA ShapesDriver ==
  ASSUME Shapes, Running, NEW f \in VmFrames, FrameOK(f), NEW below,
         \/ below = native
         \/ \E c \in Activations : c.type = "call" /\ below = SetLast(native, c),
         Last(native).type = "top" => below = native,
         DriveVm(below, f)
  PROVE  /\ Shapes'
         /\ Len(native) \in Nat \ {0}
         /\ Len(native') = Len(native) + 1
         /\ native'[Len(native) + 1] = Drive(Len(vm))
         /\ native'[Len(native)] = Last(below)
         /\ \A i \in 1..(Len(native) - 1) : native'[i] = native[i]
<1>0. /\ native \in Seq(Activations) /\ vm \in Seq(VmFrames)
      /\ native # <<>> /\ native[1] = Top
      /\ \A i \in 2..Len(native) : native[i].type # "top"
      /\ driveDepth \in Int
  BY DEF Shapes, Running
<1>1. /\ vm' = Append(vm, f)
      /\ native' = Append(below, Drive(Len(vm)))
      /\ driveDepth' = driveDepth + 1
      /\ mode' \in {"run", "throw"}
      /\ UNCHANGED <<calls, tree, measuring>>
  BY DEF DriveVm, Running
<1> PICK n \in Nat : n = Len(native)
  BY <1>0
<1>2. n # 0
  BY <1>0, EmptySeq
<1>3. /\ below \in Seq(Activations)
      /\ Len(below) = n
      /\ \A i \in 1..(n - 1) : below[i] = native[i]
      /\ below = native \/ below[n].type = "call"
  <2>1. CASE below = native
    BY <1>0, <2>1
  <2>2. ASSUME NEW c \in Activations, c.type = "call", below = SetLast(native, c)
        PROVE  <1>3!:
    <3>0. native \in Seq(Activations) /\ native # <<>> /\ below = SetLast(native, c)
      BY <1>0, <2>2
    <3>1. SetLast(native, c) \in Seq(Activations)
      BY <2>2, <3>0, SetLastFacts
    <3>2. Len(SetLast(native, c)) = Len(native)
      BY <2>2, <3>0, SetLastFacts
    <3>3. SetLast(native, c)[Len(native)] = c
      BY <2>2, <3>0, SetLastFacts
    <3>4. ASSUME NEW i \in 1..(Len(native) - 1)
          PROVE  SetLast(native, c)[i] = native[i]
      BY <2>2, <3>0, SetLastOthers
    <3> QED
      BY <2>2, <3>0, <3>1, <3>2, <3>3, <3>4
  <2> QED
    BY <2>1, <2>2
<1>4. below[1] = Top /\ \A i \in 2..n : below[i].type # "top"
  <2>1. CASE below = native
    BY <1>0, <2>1
  <2>2. CASE below # native
    <3>1. n # 1
      BY <1>0, <2>2 DEF Last, Top
    <3>2. below[1] = Top
      BY <1>0, <1>2, <1>3, <3>1
    <3>3. ASSUME NEW i \in 2..n PROVE below[i].type # "top"
      <4>1. CASE i = n
        BY <4>1, <1>3, <2>2
      <4>2. CASE i # n
        <5>1. i \in 1..(n - 1)
          BY <4>2
        <5> QED
          BY <5>1, <1>0, <1>3
      <4> QED
        BY <4>1, <4>2
    <3> QED
      BY <3>2, <3>3
  <2> QED
    BY <2>1, <2>2
<1>5. Drive(Len(vm)) \in Activations /\ Drive(Len(vm)).type = "drive"
  BY <1>0, ActivationTypes DEF Drive
<1>6. /\ native' \in Seq(Activations) /\ native' # <<>>
      /\ Len(native') = n + 1
      /\ native'[n + 1] = Drive(Len(vm))
      /\ \A i \in 1..n : native'[i] = below[i]
  BY <1>1, <1>3, <1>5, AppendProperties
<1>7. native'[1] = Top /\ \A i \in 2..Len(native') : native'[i].type # "top"
  <2>1. native'[1] = Top
    BY <1>2, <1>4, <1>6
  <2>2. ASSUME NEW i \in 2..(n + 1) PROVE native'[i].type # "top"
    <3>1. CASE i = n + 1
      BY <3>1, <1>5, <1>6
    <3>2. CASE i # n + 1
      <4>1. i \in 2..n /\ i \in 1..n
        BY <3>2
      <4> QED
        BY <4>1, <1>4, <1>6
    <3> QED
      BY <3>1, <3>2
  <2> QED
    BY <2>1, <2>2, <1>6
<1>8. vm' \in Seq(VmFrames) /\ \A k \in 1..Len(vm') : FrameOK(vm'[k])
  BY <1>1, PushedVm
<1>9. Shapes'
  <2>1. /\ callStack' \in Seq(Decl) /\ active' \in [Decl -> Nat]
        /\ {moduleDepth', nativeDepth', tree'} \subseteq Int
        /\ {measuring', crossed'} \subseteq BOOLEAN
        /\ abandoned' \in Seq([decl : Functions, counted : BOOLEAN])
    BY <1>1 DEF Shapes, calls
  <2>2. driveDepth' \in Int
    BY <1>0, <1>1
  <2> QED
    BY <2>1, <2>2, <1>1, <1>6, <1>7, <1>8 DEF Shapes
<1>10. native'[n] = below[n] /\ \A i \in 1..(n - 1) : native'[i] = native[i]
  BY <1>2, <1>3, <1>6
<1> QED
  BY <1>2, <1>3, <1>6, <1>9, <1>10 DEF Last

(* What starts a compiled body, in those terms.                            *)
LEMMA BodyStarted ==
  ASSUME Shapes, RunCompiledBody
  PROVE  LET c == Last(native)
             s == [c EXCEPT !.started = TRUE]
             f == VmFrame(IF c.decl \in Functions THEN "entry" ELSE "body",
                          c.decl, NoHandle)
         IN  /\ Running
             /\ c \in Activations /\ c.type = "call"
             /\ c.decl \in Compiled /\ ~c.started
             /\ s \in Activations
             /\ s.type = "call" /\ s.started
             /\ s.decl = c.decl /\ s.handle = c.handle
             /\ f \in VmFrames /\ FrameOK(f)
             /\ DriveVm(SetLast(native, s), f)
             /\ Last(SetLast(native, s)) = s
<1> DEFINE c == Last(native)
           s == [c EXCEPT !.started = TRUE]
           f == VmFrame(IF c.decl \in Functions THEN "entry" ELSE "body",
                        c.decl, NoHandle)
<1>0. native \in Seq(Activations) /\ native # <<>>
  BY DEF Shapes, RunCompiledBody, Running
<1>1. /\ Running /\ c.type = "call" /\ c.decl \in Compiled /\ ~c.started
      /\ DriveVm(SetLast(native, s), f)
  BY DEF RunCompiledBody, Awaiting
<1>2. Len(native) \in 1..Len(native) /\ c \in Activations
  <2> PICK n \in Nat : n = Len(native)
    BY <1>0
  <2>1. n # 0
    BY <1>0, EmptySeq
  <2> QED
    BY <1>0, <2>1, ElementOfSeq DEF Last
<1> HIDE DEF c
<1>3. c \in CallRecords
  BY <1>1, <1>2, ActivationKinds
<1>4. /\ s \in CallRecords
      /\ s.started /\ s.decl = c.decl /\ s.handle = c.handle /\ s.type = "call"
  BY <1>3 DEF CallRecords
<1> HIDE DEF s
<1>5. s \in Activations
  BY <1>4 DEF Activations
<1>6. c.decl \in Decl
  BY <1>3 DEF CallRecords
<1>7. f \in VmFrames /\ FrameOK(f)
  <2>1. CASE c.decl \in Functions
    BY <2>1, <1>6, FrameTypes, FrameKinds
  <2>2. CASE c.decl \notin Functions
    BY <2>2, <1>6, FrameTypes, FrameKinds DEF Decl
  <2> QED
    BY <2>1, <2>2
<1>8. Last(SetLast(native, s)) = s
  BY <1>0, <1>5, LastOfSetLast
<1> QED
  BY <1>1, <1>2, <1>4, <1>5, <1>7, <1>8 DEF c, s

(* Changing the last activation, a call, leaves the others where they are. *)
LEMMA ChangedNative ==
  ASSUME Shapes, native # <<>>, Last(native).type = "call",
         NEW c \in Activations, c.type = "call", native' = SetLast(native, c)
  PROVE  /\ Len(native) \in Nat \ {0, 1}
         /\ Last(native) \in Activations
         /\ native' \in Seq(Activations)
         /\ Len(native') = Len(native)
         /\ native'[Len(native)] = c
         /\ \A i \in 1..(Len(native) - 1) : native'[i] = native[i]
         /\ native' # <<>> /\ native'[1] = Top
         /\ \A i \in 2..Len(native') : native'[i].type # "top"
<1>0. native \in Seq(Activations) /\ native[1] = Top
      /\ \A i \in 2..Len(native) : native[i].type # "top"
  BY DEF Shapes
<1> PICK n \in Nat : n = Len(native)
  BY <1>0
<1>1. n # 0
  BY <1>0, EmptySeq
<1>2. n # 1
  BY <1>0 DEF Last, Top
<1>3. /\ native' \in Seq(Activations)
      /\ Len(native') = n
      /\ native'[n] = c
      /\ \A i \in 1..(n - 1) : native'[i] = native[i]
  <2>0. native \in Seq(Activations) /\ native # <<>> /\ native' = SetLast(native, c)
    BY <1>0
  <2>1. SetLast(native, c) \in Seq(Activations)
    BY <2>0, SetLastFacts
  <2>2. Len(SetLast(native, c)) = Len(native)
    BY <2>0, SetLastFacts
  <2>3. SetLast(native, c)[Len(native)] = c
    BY <2>0, SetLastFacts
  <2>4. ASSUME NEW i \in 1..(Len(native) - 1)
        PROVE  SetLast(native, c)[i] = native[i]
    BY <2>0, SetLastOthers
  <2> QED
    BY <2>0, <2>1, <2>2, <2>3, <2>4
<1>4. native' # <<>>
  BY <1>1, <1>3, EmptySeq
<1>5. Last(native) \in Activations
  BY <1>0, <1>1, ElementOfSeq DEF Last
<1>6. native'[1] = Top
  BY <1>0, <1>1, <1>2, <1>3
<1>7. ASSUME NEW i \in 2..n PROVE native'[i].type # "top"
  <2>1. CASE i = n
    BY <2>1, <1>3
  <2>2. CASE i # n
    <3>1. i \in 1..(n - 1)
      BY <2>2
    <3> QED
      BY <3>1, <1>0, <1>3
  <2> QED
    BY <2>1, <2>2
<1> QED
  BY <1>1, <1>2, <1>3, <1>4, <1>5, <1>6, <1>7

(* The step of a native tail call, in those terms.                         *)
LEMMA NativeHop ==
  ASSUME Shapes, Counted, NEW d \in Decl, NativeHopped(d)
  PROVE  LET c == Last(native)
             h == [c EXCEPT !.decl = d, !.hops = @ + 1]
         IN  /\ Running /\ native # <<>>
             /\ c \in Activations /\ c.type = "call" /\ c.decl \notin Compiled
             /\ h \in Activations /\ h.type = "call"
             /\ h.decl = d /\ h.handle = c.handle /\ h.started = c.started
             /\ native' = SetLast(native, h)
             /\ callStack # <<>>
             /\ Len(native) \in NativeOf("call")
<1> DEFINE c == Last(native)
           h == [c EXCEPT !.decl = d, !.hops = @ + 1]
<1>0. native \in Seq(Activations) /\ native # <<>>
  BY DEF Shapes, NativeHopped, WalksFunction, InWalker, Running
<1>1. /\ Running
      /\ c.type \in {"top", "block", "measure", "call"}
      /\ c.type = "call" => c.decl \notin Compiled
      /\ native' = SetLast(native, h)
      /\ c.hops < TcoIterationCap
      /\ c.type = "call"
  BY DEF NativeHopped, WalksFunction, InWalker
<1>2. Len(native) \in 1..Len(native) /\ c \in Activations
  <2> PICK n \in Nat : n = Len(native)
    BY <1>0
  <2>1. n # 0
    BY <1>0, EmptySeq
  <2> QED
    BY <1>0, <2>1, ElementOfSeq DEF Last
<1>3. Len(native) \in NativeOf("call")
  BY <1>1, <1>2 DEF NativeOf, Last
<1> HIDE DEF c
<1>4. c \in CallRecords
  BY <1>1, <1>2, ActivationKinds
<1>5. c.hops + 1 \in 0..TcoIterationCap
  BY <1>1, <1>4, CallsAssumption DEF CallRecords
<1>6. /\ h \in CallRecords
      /\ h.started = c.started /\ h.decl = d /\ h.handle = c.handle
      /\ h.type = "call"
  BY <1>4, <1>5 DEF CallRecords
<1> HIDE DEF h
<1>7. h \in Activations
  BY <1>6 DEF Activations
<1>8. callStack # <<>>
  BY <1>3, InsideCall
<1> QED
  BY <1>0, <1>1, <1>2, <1>3, <1>6, <1>7, <1>8 DEF c, h

(* So with a tail call of the VM.                                          *)
LEMMA FrameHop ==
  ASSUME Shapes, DrivesNested, Counted, NEW d \in Decl, FrameHopped(d)
  PROVE  LET f == Last(vm)
             h == [f EXCEPT !.decl = d, !.hops = @ + 1]
         IN  /\ vm # <<>> /\ f \in VmFrames /\ FrameOK(f)
             /\ f.type \in {"function", "entry"}
             /\ h \in VmFrames /\ FrameOK(h)
             /\ h.type = f.type /\ h.decl = d /\ h.handle = f.handle
             /\ h.wraps = f.wraps
             /\ vm' = SetLast(vm, h)
             /\ callStack # <<>>
             /\ Last(native).floor < Len(vm)
             /\ Len(native) \in Drives
<1> DEFINE f == Last(vm)
           h == [f EXCEPT !.decl = d, !.hops = @ + 1]
<1>0. Running /\ Last(native).type = "drive" /\ native # <<>>
      /\ vm \in Seq(VmFrames) /\ \A k \in 1..Len(vm) : FrameOK(vm[k])
  BY DEF Shapes, FrameHopped, InVm, Running
<1>1. /\ vm # <<>> /\ f \in VmFrames /\ Len(vm) \in Nat \ {0}
      /\ Last(native).floor < Len(vm) /\ Len(native) \in Drives
  BY <1>0, DriverHasFrame
<1>2. FrameOK(f)
  <2>1. Len(vm) \in 1..Len(vm)
    BY <1>1
  <2> QED
    BY <1>0, <2>1 DEF Last
<1>3. /\ f.type \in {"function", "entry"}
      /\ d \in Functions
      /\ f.hops < TcoIterationCap
      /\ vm' = SetLast(vm, h)
  BY DEF FrameHopped, HopEligible
<1>4. callStack # <<>>
  BY <1>1, HopInsideCall DEF FrameHopped
<1> HIDE DEF f
<1>5. f.hops + 1 \in 0..TcoIterationCap
  <2>1. f.hops \in 0..TcoIterationCap
    BY <1>1 DEF VmFrames
  <2>2. TcoIterationCap \in Nat
    BY CallsAssumption
  <2> QED
    BY <1>3, <2>1, <2>2
<1>6. /\ h \in VmFrames
      /\ h.type = f.type /\ h.decl = d /\ h.handle = f.handle
      /\ h.wraps = f.wraps
  BY <1>1, <1>5 DEF VmFrames
<1> HIDE DEF h
<1>7. FrameOK(h)
  BY <1>2, <1>3, <1>6 DEF FrameOK
<1> QED
  BY <1>1, <1>2, <1>3, <1>4, <1>6, <1>7 DEF f, h

(* The last frame with other brackets.                                     *)
LEMMA Rewrapped ==
  ASSUME Shapes, vm # <<>>, NEW w \in Seq(BOOLEAN),
         vm' = SetLast(vm, [Last(vm) EXCEPT !.wraps = w])
  PROVE  LET f == Last(vm)
             h == [f EXCEPT !.wraps = w]
         IN  /\ f \in VmFrames /\ FrameOK(f)
             /\ h \in VmFrames /\ FrameOK(h)
             /\ h.type = f.type /\ h.decl = f.decl /\ h.handle = f.handle
             /\ h.wraps = w
             /\ vm' = SetLast(vm, h)
<1> DEFINE f == Last(vm)
           h == [f EXCEPT !.wraps = w]
<1>0. vm \in Seq(VmFrames) /\ \A k \in 1..Len(vm) : FrameOK(vm[k])
  BY DEF Shapes
<1>1. f \in VmFrames /\ FrameOK(f)
  <2> PICK m \in Nat : m = Len(vm)
    BY <1>0
  <2>1. m # 0
    BY <1>0, EmptySeq
  <2> QED
    BY <1>0, <2>1, ElementOfSeq DEF Last
<1> HIDE DEF f
<1>2. /\ h \in VmFrames
      /\ h.type = f.type /\ h.decl = f.decl /\ h.handle = f.handle
      /\ h.wraps = w
  BY <1>1 DEF VmFrames
<1>3. vm' = SetLast(vm, h)
  BY DEF f
<1> HIDE DEF h
<1>4. FrameOK(h)
  BY <1>1, <1>2 DEF FrameOK
<1> QED
  BY <1>1, <1>2, <1>3, <1>4 DEF f, h

(* Opening a bracket.                                                      *)
LEMMA WrapPushed ==
  ASSUME Shapes, DrivesNested, NEW measures \in BOOLEAN, PushWrap(measures)
  PROVE  LET f == Last(vm)
             w == Append(f.wraps, measuring)
         IN  /\ vm # <<>> /\ f.wraps \in Seq(BOOLEAN) /\ w \in Seq(BOOLEAN)
             /\ measuring \in BOOLEAN
             /\ vm' = SetLast(vm, [f EXCEPT !.wraps = w])
             /\ Last(native).floor < Len(vm)
             /\ Len(native) \in Drives
<1>1. Running /\ native # <<>> /\ Last(native).type = "drive" /\ measuring \in BOOLEAN
  BY DEF PushWrap, InVm, Running, Shapes
<1>2. vm # <<>> /\ Last(vm) \in VmFrames /\ Last(native).floor < Len(vm)
      /\ Len(native) \in Drives
  BY <1>1, DriverHasFrame
<1>3. Last(vm).wraps \in Seq(BOOLEAN)
  BY <1>2 DEF VmFrames
<1>4. Append(Last(vm).wraps, measuring) \in Seq(BOOLEAN)
  BY <1>1, <1>3, AppendProperties
<1> QED
  BY <1>1, <1>2, <1>3, <1>4 DEF PushWrap

(* Closing one.                                                            *)
LEMMA WrapPopped ==
  ASSUME Shapes, DrivesNested, PopWrap
  PROVE  LET f == Last(vm)
             w == Front(f.wraps)
         IN  /\ vm # <<>> /\ f.wraps \in Seq(BOOLEAN) /\ w \in Seq(BOOLEAN)
             /\ f.wraps # <<>>
             /\ Last(f.wraps) \in BOOLEAN
             /\ vm' = SetLast(vm, [f EXCEPT !.wraps = w])
             /\ Last(native).floor < Len(vm)
             /\ Len(native) \in Drives
<1>1. Running /\ native # <<>> /\ Last(native).type = "drive"
  BY DEF PopWrap, InVm, Running, Shapes
<1>2. vm # <<>> /\ Last(vm) \in VmFrames /\ Last(native).floor < Len(vm)
      /\ Len(native) \in Drives
  BY <1>1, DriverHasFrame
<1>3. Last(vm).wraps \in Seq(BOOLEAN) /\ Last(vm).wraps # <<>>
  BY <1>2 DEF VmFrames, PopWrap
<1> DEFINE w == Last(vm).wraps
<1>4. Front(w) \in Seq(BOOLEAN) /\ Last(w) \in BOOLEAN
  <2> HIDE DEF w
  <2>1. w \in Seq(BOOLEAN) /\ w # <<>>
    BY <1>3 DEF w
  <2>2. Front(w) \in Seq(BOOLEAN) /\ Len(w) \in Nat \ {0}
    BY <2>1, FrontFacts
  <2>3. Len(w) \in 1..Len(w)
    BY <2>2
  <2> QED
    BY <2>1, <2>2, <2>3, ElementOfSeq DEF Last
<1> QED
  BY <1>1, <1>2, <1>3, <1>4 DEF PopWrap

(* A frame that leaves closes its bracket, if it has one.                  *)
LEMMA BracketLeft ==
  ASSUME Shapes, Counted, vm # <<>>, LeaveBracket(Last(vm))
  PROVE  /\ callStack' \in Seq(Decl)
         /\ active' \in [Decl -> Nat]
         /\ moduleDepth' \in Int /\ nativeDepth' \in Int
         /\ crossed' = crossed
         /\ Last(vm).handle # NoHandle =>
              /\ callStack # <<>>
              /\ Last(vm).handle.decl \in Decl
              /\ ExitUserCall(Last(vm).handle)
         /\ Last(vm).handle = NoHandle => UNCHANGED calls
<1>1. CASE Last(vm).handle = NoHandle
  BY <1>1 DEF LeaveBracket, Shapes, calls
<1>2. CASE Last(vm).handle # NoHandle
  <2>0. vm \in Seq(VmFrames)
    BY DEF Shapes
  <2> PICK m \in Nat : m = Len(vm)
    BY <2>0
  <2>1. m # 0
    BY <2>0, EmptySeq
  <2>2. m \in Brackets /\ vm[m] \in VmFrames
    BY <1>2, <2>0, <2>1, ElementOfSeq DEF Brackets, Last
  <2>3. callStack # <<>>
    BY <2>2, InsideCall
  <2>4. vm[m].handle \in [decl : Decl \cup {NoDecl}, counted : {FALSE}]
    BY <2>2 DEF VmFrames
  <2>5. vm[m].handle.decl \in Decl
    BY <1>2, <2>4 DEF Last, NoHandle, Handle
  <2>6. ExitUserCall(Last(vm).handle)
    BY <1>2 DEF LeaveBracket
  <2> QED
    BY <1>2, <2>3, <2>5, <2>6, LeftCall DEF Last
<1> QED
  BY <1>1, <1>2

(* Every step keeps the shapes.                                            *)
LEMMA ShapesKept ==
  ASSUME Shapes, DrivesNested, Counted, Step
  PROVE  Shapes'
<1>0. /\ callStack \in Seq(Decl)
      /\ active \in [Decl -> Nat]
      /\ moduleDepth \in Int /\ nativeDepth \in Int
      /\ driveDepth \in Int /\ tree \in Int
      /\ measuring \in BOOLEAN /\ crossed \in BOOLEAN
      /\ vm \in Seq(VmFrames)
      /\ \A k \in 1..Len(vm) : FrameOK(vm[k])
      /\ native \in Seq(Activations)
      /\ mode \in {"idle", "run", "throw"}
      /\ mode = "idle" <=> native = <<>>
      /\ native # <<>> => native[1] = Top
      /\ \A i \in 2..Len(native) : native[i].type # "top"
  BY DEF Shapes
<1>a. abandoned' \in Seq([decl : Functions, counted : BOOLEAN])
  <2>1. abandoned \in Seq([decl : Functions, counted : BOOLEAN])
    BY DEF Shapes
  <2>2. ASSUME NEW d \in Decl, NEW skip \in BOOLEAN, EntryStopped(d, skip)
        PROVE  abandoned' \in Seq([decl : Functions, counted : BOOLEAN])
    <3>1. Handle(d, ~skip) \in [decl : Functions, counted : BOOLEAN]
      BY <2>2 DEF EntryStopped, Handle
    <3>2. abandoned' = Append(abandoned, Handle(d, ~skip))
      BY <2>2 DEF EntryStopped, StopAtEntry
    <3> QED
      BY <2>1, <3>1, <3>2, AppendProperties
  <2> QED
    BY <2>1, <2>2, StepAbandons
<1>t. tree \in Int /\ measuring \in BOOLEAN
  BY <1>0
<1>1. CASE Evaluate
  <2>1. native' = <<Top>> /\ mode' = "run" /\ tree' = 1
        /\ UNCHANGED <<callStack, active, moduleDepth, nativeDepth, crossed,
                       driveDepth, measuring, vm>>
    BY <1>1 DEF Evaluate, calls
  <2>2. Top \in Activations
    BY ActivationTypes
  <2>3. native' \in Seq(Activations) /\ native'[1] = Top /\ Len(native') = 1
        /\ native' # <<>>
    BY <2>1, <2>2
  <2> QED
    BY <1>0, <1>a, <2>1, <2>3 DEF Shapes
<1>2. CASE PassLeft
  <2>1. native' = <<>> /\ mode' = "idle" /\ tree' \in {tree, tree - 1}
        /\ UNCHANGED <<callStack, active, moduleDepth, nativeDepth, crossed,
                       driveDepth, measuring, vm>>
    BY <1>2 DEF PassLeft, calls
  <2>2. native' \in Seq(Activations) /\ Len(native') = 0
    BY <2>1
  <2> QED
    BY <1>0, <1>a, <2>1, <2>2 DEF Shapes
<1>3. CASE Refused
  <2>1. mode' = "throw" /\ tree' \in Int /\ native # <<>>
        /\ UNCHANGED <<callStack, active, moduleDepth, nativeDepth, crossed,
                       driveDepth, measuring, vm, native>>
    BY <1>0, <1>3 DEF Refused, Running, calls
  <2> QED
    BY <1>0, <1>a, <2>1 DEF Shapes
<1>4. ASSUME NEW d \in Decl, NEW catches \in BOOLEAN, NativeEntered(d, catches)
      PROVE  Shapes'
  <2>0. tree' \in Int
    BY <1>t, <1>4 DEF NativeEntered
  <2>1. /\ native # <<>> /\ EnterUserCall(d, FALSE) /\ tree' \in Int
        /\ native' = Append(native, Call(d, catches))
        /\ UNCHANGED <<driveDepth, measuring, vm, mode>>
    BY <1>0, <1>4, <2>0, Zenon DEF NativeEntered, Running
  <2>2. Call(d, catches) \in Activations /\ Call(d, catches).type = "call"
    BY ActivationTypes DEF Call
  <2> HIDE DEF Call
  <2>3. /\ native' \in Seq(Activations) /\ native' # <<>> /\ native'[1] = Top
        /\ \A i \in 2..Len(native') : native'[i].type # "top"
    BY <2>1, <2>2, PushedNative
  <2>4. /\ callStack' \in Seq(Decl) /\ active' \in [Decl -> Nat]
        /\ moduleDepth' \in Int /\ nativeDepth' \in Int /\ crossed' = crossed
    BY <2>1, EnteredCall DEF EnterUserCall
  <2> QED
    BY <1>0, <2>1, <2>3, <2>4, <1>a, ShapesOf
<1>5. ASSUME NEW d \in Decl, NativeHopped(d) PROVE Shapes'
  <2> DEFINE h == [Last(native) EXCEPT !.decl = d, !.hops = @ + 1]
  <2>1. /\ native # <<>> /\ Last(native).type = "call"
        /\ h \in Activations /\ h.type = "call"
        /\ native' = SetLast(native, h) /\ callStack # <<>>
    BY <1>5, NativeHop
  <2> HIDE DEF h
  <2>2. /\ native' \in Seq(Activations) /\ native' # <<>> /\ native'[1] = Top
        /\ \A i \in 2..Len(native') : native'[i].type # "top"
    BY <2>1, ChangedNative
  <2>3. /\ callStack' \in Seq(Decl) /\ active' \in [Decl -> Nat]
        /\ crossed' \in BOOLEAN
    BY <1>5, <2>1, HoppedCall DEF NativeHopped
  <2>4. UNCHANGED <<moduleDepth, nativeDepth, driveDepth, tree, measuring, vm, mode>>
    BY <1>5 DEF NativeHopped, RecordTailCallHop
  <2> QED
    BY <1>0, <2>1, <2>2, <2>3, <2>4, <1>a, ShapesOf
<1>6. CASE RunCompiledBody
  <2> DEFINE s == [Last(native) EXCEPT !.started = TRUE]
             f == VmFrame(IF Last(native).decl \in Functions THEN "entry" ELSE "body",
                          Last(native).decl, NoHandle)
  <2>1. /\ Running /\ Last(native).type = "call"
        /\ s \in Activations /\ s.type = "call"
        /\ f \in VmFrames /\ FrameOK(f) /\ DriveVm(SetLast(native, s), f)
    BY <1>6, BodyStarted
  <2> HIDE DEF s, f
  <2> QED
    BY <2>1, ShapesDriver
<1>7. CASE ChunkStarted
  <2>1. PICK type \in {"bare", "body"} :
             DriveVm(native, VmFrame(type, NoDecl, NoHandle))
    BY <1>7 DEF ChunkStarted
  <2> DEFINE f == VmFrame(type, NoDecl, NoHandle)
  <2>2. f \in VmFrames /\ FrameOK(f) /\ DriveVm(native, f) /\ Running
    BY <1>7, <2>1, FrameTypes, FrameKinds DEF ChunkStarted
  <2> HIDE DEF f
  <2> QED
    BY <2>2, ShapesDriver
<1>8. ASSUME OpenBlock \/ OpenMeasure PROVE Shapes'
  <2>1. PICK x \in {Block, Measure(measuring)} :
             /\ native # <<>> /\ native' = Append(native, x)
             /\ tree' \in Int /\ measuring' \in BOOLEAN
             /\ UNCHANGED <<callStack, active, moduleDepth, nativeDepth, crossed,
                            driveDepth, vm, mode>>
    <3>1. Running /\ native # <<>>
      BY <1>0, <1>8 DEF OpenBlock, OpenMeasure, WalksStatements, InWalker,
                        VmStatements, InVm, Running
    <3>2. tree' \in Int
      BY <1>t, <1>8 DEF OpenBlock, OpenMeasure
    <3>5. measuring' \in BOOLEAN
      BY <1>t, <1>8, Zenon DEF OpenBlock, OpenMeasure
    <3>3. UNCHANGED <<callStack, active, moduleDepth, nativeDepth, crossed,
                      driveDepth, vm, mode>>
      BY <1>8 DEF OpenBlock, OpenMeasure, calls
    <3>4. native' = Append(native, Block) \/ native' = Append(native, Measure(measuring))
      BY <1>8 DEF OpenBlock, OpenMeasure
    <3> QED
      BY <3>1, <3>2, <3>3, <3>4, <3>5
  <2>2. x \in Activations /\ x.type # "top"
    BY <1>0, ActivationTypes DEF Block, Measure
  <2>3. /\ native' \in Seq(Activations) /\ native' # <<>> /\ native'[1] = Top
        /\ \A i \in 2..Len(native') : native'[i].type # "top"
    BY <2>1, <2>2, PushedNative
  <2> QED
    BY <1>0, <2>1, <2>3, <1>a, ShapesOf
<1>9. ASSUME NEW d \in Decl, NEW type \in {"function", "module"}, FrameEntered(d, type)
      PROVE  Shapes'
  <2> DEFINE f == VmFrame(type, d, Handle(d, FALSE))
  <2>0. tree' \in Int
    BY <1>t, <1>9 DEF FrameEntered
  <2>1. /\ EnterUserCall(d, TRUE) /\ tree' \in Int
        /\ vm' = Append(vm, f)
        /\ UNCHANGED <<driveDepth, measuring, native, mode>>
    BY <1>9, <2>0, Zenon DEF FrameEntered
  <2>2. f \in VmFrames /\ FrameOK(f)
    BY <1>9, FrameTypes, FrameKinds DEF FrameEntered
  <2> HIDE DEF f
  <2>3. vm' \in Seq(VmFrames) /\ \A k \in 1..Len(vm') : FrameOK(vm'[k])
    BY <2>1, <2>2, PushedVm
  <2>4. /\ callStack' \in Seq(Decl) /\ active' \in [Decl -> Nat]
        /\ moduleDepth' \in Int /\ nativeDepth' \in Int /\ crossed' = crossed
    BY <2>1, EnteredCall DEF EnterUserCall
  <2> QED
    BY <1>0, <2>1, <2>3, <2>4, <1>a, ShapesOf
<1>10. CASE ChildrenEntered
  <2> DEFINE f == VmFrame("children", NoDecl, NoHandle)
  <2>1. /\ vm' = Append(vm, f) /\ tree' \in Int
        /\ UNCHANGED <<callStack, active, moduleDepth, nativeDepth, crossed,
                       driveDepth, measuring, native, mode>>
    BY <1>0, <1>10 DEF ChildrenEntered, calls
  <2>2. f \in VmFrames /\ FrameOK(f)
    BY FrameTypes, FrameKinds
  <2> HIDE DEF f
  <2>3. vm' \in Seq(VmFrames) /\ \A k \in 1..Len(vm') : FrameOK(vm'[k])
    BY <2>1, <2>2, PushedVm
  <2> QED
    BY <1>0, <2>1, <2>3, <1>a, ShapesOf
<1>11. ASSUME NEW d \in Decl, FrameHopped(d) PROVE Shapes'
  <2> DEFINE h == [Last(vm) EXCEPT !.decl = d, !.hops = @ + 1]
  <2>1. /\ vm # <<>> /\ h \in VmFrames /\ FrameOK(h)
        /\ vm' = SetLast(vm, h) /\ callStack # <<>>
    BY <1>11, FrameHop
  <2> HIDE DEF h
  <2>2. vm' \in Seq(VmFrames) /\ \A k \in 1..Len(vm') : FrameOK(vm'[k])
    BY <2>1, ChangedVm
  <2>3. /\ callStack' \in Seq(Decl) /\ active' \in [Decl -> Nat]
        /\ crossed' \in BOOLEAN
    BY <1>11, <2>1, HoppedCall DEF FrameHopped
  <2>4. UNCHANGED <<moduleDepth, nativeDepth, driveDepth, tree, measuring, native, mode>>
    BY <1>11 DEF FrameHopped, RecordTailCallHop
  <2> QED
    BY <1>0, <2>2, <2>3, <2>4, <1>a, ShapesOf
<1>12. ASSUME NEW measures \in BOOLEAN, PushWrap(measures) PROVE Shapes'
  <2> DEFINE w == Append(Last(vm).wraps, measuring)
             h == [Last(vm) EXCEPT !.wraps = w]
  <2>1. vm # <<>> /\ w \in Seq(BOOLEAN) /\ vm' = SetLast(vm, h)
    BY <1>12, WrapPushed
  <2> HIDE DEF w
  <2>2. h \in VmFrames /\ FrameOK(h)
    BY <2>1, Rewrapped
  <2> HIDE DEF h
  <2>3. vm' \in Seq(VmFrames) /\ \A k \in 1..Len(vm') : FrameOK(vm'[k])
    BY <2>1, <2>2, ChangedVm
  <2>4. tree' \in Int /\ measuring' \in BOOLEAN
        /\ UNCHANGED <<callStack, active, moduleDepth, nativeDepth, crossed,
                       driveDepth, native, mode>>
    BY <1>0, <1>12 DEF PushWrap, calls
  <2> QED
    BY <1>0, <2>3, <2>4, <1>a, ShapesOf
<1>13. CASE PopWrap
  <2> DEFINE w == Front(Last(vm).wraps)
             h == [Last(vm) EXCEPT !.wraps = w]
  <2>1. vm # <<>> /\ w \in Seq(BOOLEAN) /\ vm' = SetLast(vm, h)
        /\ Last(Last(vm).wraps) \in BOOLEAN
    BY <1>13, WrapPopped
  <2> HIDE DEF w
  <2>2. h \in VmFrames /\ FrameOK(h)
    BY <2>1, Rewrapped
  <2> HIDE DEF h
  <2>3. vm' \in Seq(VmFrames) /\ \A k \in 1..Len(vm') : FrameOK(vm'[k])
    BY <2>1, <2>2, ChangedVm
  <2>4. tree' \in Int /\ measuring' \in BOOLEAN
        /\ UNCHANGED <<callStack, active, moduleDepth, nativeDepth, crossed,
                       driveDepth, native, mode>>
    BY <1>0, <1>13, <2>1 DEF PopWrap, calls
  <2> QED
    BY <1>0, <2>3, <2>4, <1>a, ShapesOf
<1>14. CASE BlockClosed
  <2>1. native # <<>> /\ Last(native).type \in {"block", "measure"}
        /\ native' = Front(native)
    BY <1>0, <1>14 DEF BlockClosed
  <2>2. /\ Last(native) \in Activations
        /\ native' \in Seq(Activations) /\ native' # <<>> /\ native'[1] = Top
        /\ \A i \in 2..Len(native') : native'[i].type # "top"
    BY <2>1, PoppedNative
  <2>3. measuring' \in BOOLEAN /\ tree' \in Int
        /\ UNCHANGED <<callStack, active, moduleDepth, nativeDepth, crossed,
                       driveDepth, vm, mode>>
    BY <1>0, <1>14, <2>2, ActivationKinds DEF BlockClosed, calls
  <2> QED
    BY <1>0, <2>1, <2>2, <2>3, <1>a, ShapesOf
<1>15. CASE CallLeft
  <2>1. native # <<>> /\ Last(native).type = "call" /\ native' = Front(native)
        /\ ExitUserCall(Last(native).handle)
    BY <1>0, <1>15 DEF CallLeft
  <2>2. /\ Last(native) \in Activations /\ Len(native) \in Nat \ {0, 1}
        /\ native' \in Seq(Activations) /\ native' # <<>> /\ native'[1] = Top
        /\ \A i \in 2..Len(native') : native'[i].type # "top"
    BY <2>1, PoppedNative
  <2>3. Len(native) \in NativeOf("call")
    BY <2>1, <2>2 DEF NativeOf, Last
  <2>4. callStack # <<>> /\ Last(native).handle.decl \in Decl
    BY <2>1, <2>2, <2>3, InsideCall, ActivationKinds
  <2>5. /\ callStack' \in Seq(Decl) /\ active' \in [Decl -> Nat]
        /\ moduleDepth' \in Int /\ nativeDepth' \in Int /\ crossed' = crossed
    BY <2>1, <2>4, LeftCall
  <2>6. tree' \in Int /\ UNCHANGED <<driveDepth, measuring, vm, mode>>
    BY <1>0, <1>15 DEF CallLeft
  <2> QED
    BY <1>0, <2>1, <2>2, <2>5, <2>6, <1>a, ShapesOf
<1>16. CASE UnwindDrive
  <2>1. native # <<>> /\ Last(native).type = "drive" /\ native' = Front(native)
    BY <1>0, <1>16 DEF UnwindDrive, Throwing
  <2>2. /\ native' \in Seq(Activations) /\ native' # <<>> /\ native'[1] = Top
        /\ \A i \in 2..Len(native') : native'[i].type # "top"
    BY <2>1, PoppedNative
  <2>3. driveDepth' \in Int
        /\ UNCHANGED <<callStack, active, moduleDepth, nativeDepth, crossed,
                       tree, measuring, vm, mode>>
    BY <1>0, <1>16 DEF UnwindDrive, calls
  <2> QED
    BY <1>0, <2>1, <2>2, <2>3, <1>a, ShapesOf
<1>17. CASE VmReturn
  <2>1. /\ native # <<>> /\ Last(native).type = "drive" /\ Running
    BY <1>0, <1>17 DEF VmReturn, InVm, Running
  <2>2. vm # <<>>
    BY <2>1, DriverHasFrame
  <2>3. LeaveBracket(Last(vm)) /\ vm' = Front(vm) /\ tree' \in Int
        /\ UNCHANGED <<measuring, mode>>
    BY <1>0, <1>17 DEF VmReturn
  <2>4. vm' \in Seq(VmFrames) /\ \A k \in 1..Len(vm') : FrameOK(vm'[k])
    BY <2>2, <2>3, PoppedFrames
  <2>5. /\ callStack' \in Seq(Decl) /\ active' \in [Decl -> Nat]
        /\ moduleDepth' \in Int /\ nativeDepth' \in Int /\ crossed' = crossed
    BY <2>2, <2>3, BracketLeft
  <2>6. \/ native' = Front(native) /\ driveDepth' = driveDepth - 1
        \/ UNCHANGED <<native, driveDepth>>
    BY <1>17 DEF VmReturn
  <2>7. CASE native' = Front(native) /\ driveDepth' = driveDepth - 1
    <3>1. /\ native' \in Seq(Activations) /\ native' # <<>> /\ native'[1] = Top
          /\ \A i \in 2..Len(native') : native'[i].type # "top"
      BY <2>1, <2>7, PoppedNative
    <3>2. driveDepth' \in Int
      BY <1>0, <2>7
    <3> QED
      BY <1>0, <2>1, <2>3, <2>4, <2>5, <3>1, <3>2, <1>a, ShapesOf
  <2>8. CASE UNCHANGED <<native, driveDepth>>
    BY <1>0, <2>3, <2>4, <2>5, <2>8, <1>a, ShapesOf
  <2> QED
    BY <2>6, <2>7, <2>8
<1>18. CASE UnwindFrame
  <2>1. /\ native # <<>> /\ Last(native).type = "drive"
        /\ Len(vm) > Last(native).floor
    BY <1>0, <1>18 DEF UnwindFrame, Throwing
  <2>2. vm # <<>> /\ Last(vm) \in VmFrames
    BY <2>1, DriverHasFrame
  <2>3. LeaveBracket(Last(vm)) /\ vm' = Front(vm)
        /\ UNCHANGED <<driveDepth, native, mode>>
    BY <1>18 DEF UnwindFrame
  <2>4. vm' \in Seq(VmFrames) /\ \A k \in 1..Len(vm') : FrameOK(vm'[k])
    BY <2>2, <2>3, PoppedFrames
  <2>5. /\ callStack' \in Seq(Decl) /\ active' \in [Decl -> Nat]
        /\ moduleDepth' \in Int /\ nativeDepth' \in Int /\ crossed' = crossed
    BY <2>2, <2>3, BracketLeft
  <2>6. Last(vm).wraps \in Seq(BOOLEAN)
    BY <2>2 DEF VmFrames
  <2>7. tree' \in Int /\ measuring' \in BOOLEAN
    <3> DEFINE w == Last(vm).wraps
    <3>1. Len(w) \in Nat /\ (w # <<>> => Head(w) \in BOOLEAN)
      BY <2>6
    <3>2. /\ tree' = tree - Len(w) - (IF OwnsModuleSplice(Last(vm)) THEN 1 ELSE 0)
          /\ measuring' = IF w = <<>> THEN measuring ELSE Head(w)
      BY <1>18 DEF UnwindFrame
    <3> HIDE DEF w
    <3> QED
      BY <1>0, <3>1, <3>2
  <2> QED
    BY <1>0, <2>3, <2>4, <2>5, <2>7, <1>a, ShapesOf
<1>19. CASE UNCHANGED vars
  BY <1>0, <1>a, <1>19 DEF vars, Shapes
<1>20. ASSUME NEW d \in Decl, NEW skip \in BOOLEAN, EntryStopped(d, skip)
       PROVE  Shapes'
  <2>1. /\ CountCall(d, skip) /\ mode' = "throw" /\ native # <<>>
        /\ UNCHANGED <<driveDepth, tree, measuring, vm, native>>
    BY <1>0, <1>20 DEF EntryStopped, StopAtEntry, Running
  <2>2. /\ callStack' \in Seq(Decl) /\ active' \in [Decl -> Nat]
        /\ moduleDepth' \in Int /\ nativeDepth' \in Int /\ crossed' = crossed
    BY <2>1, EnteredCall DEF EnterUserCall
  <2> QED
    BY <1>0, <2>1, <2>2, <1>a, ShapesOf
<1> QED
  BY <1>1, <1>2, <1>3, <1>4, <1>5, <1>6, <1>7, <1>8, <1>9, <1>10, <1>11, <1>12,
     <1>13, <1>14, <1>15, <1>16, <1>17, <1>18, <1>19, <1>20 DEF Step

-----------------------------------------------------------------------------
(* Drivers and their frames.                                               *)

(* The places of one kind when an activation is pushed.                    *)
LEMMA PlacesPushed ==
  ASSUME Shapes, native # <<>>, NEW x \in Activations, x.type # "top",
         native' = Append(native, x), NEW t
  PROVE  /\ NativeOf(t)' = IF x.type = t THEN NativeOf(t) \cup {Len(native) + 1}
                                         ELSE NativeOf(t)
         /\ Len(native) + 1 \notin NativeOf(t)
<1>1. /\ Len(native) \in Nat \ {0}
      /\ Len(native') = Len(native) + 1
      /\ native'[Len(native) + 1] = x
      /\ \A i \in 1..Len(native) : native'[i] = native[i]
  BY PushedNative
<1> QED
  BY <1>1 DEF NativeOf

(* When the last activation goes.                                          *)
LEMMA PlacesPopped ==
  ASSUME Shapes, native # <<>>, Last(native).type # "top",
         native' = Front(native), NEW t
  PROVE  /\ NativeOf(t)' = NativeOf(t) \ {Len(native)}
         /\ Len(native) \in NativeOf(t) <=> Last(native).type = t
<1>1. /\ Len(native) \in Nat \ {0, 1}
      /\ Len(native') = Len(native) - 1
      /\ \A i \in 1..(Len(native) - 1) : native'[i] = native[i]
  BY PoppedNative
<1> PICK n \in Nat : n = Len(native)
  BY <1>1
<1>2. \A i \in 1..(n - 1) : i \in 1..n /\ i # n
  OBVIOUS
<1>3. \A i \in (1..n) \ {n} : i \in 1..(n - 1)
  OBVIOUS
<1>4. n \in 1..n
  BY <1>1
<1>5. NativeOf(t)' = {i \in 1..(n - 1) : native[i].type = t}
  BY <1>1 DEF NativeOf
<1> QED
  BY <1>2, <1>3, <1>4, <1>5 DEF NativeOf, Last

(* When a call changes.                                                    *)
LEMMA PlacesChanged ==
  ASSUME Shapes, native # <<>>, Last(native).type = "call",
         NEW c \in Activations, c.type = "call", native' = SetLast(native, c),
         NEW t
  PROVE  NativeOf(t)' = NativeOf(t)
<1>1. /\ Len(native) \in Nat \ {0, 1}
      /\ Len(native') = Len(native)
      /\ native'[Len(native)] = c
      /\ \A i \in 1..(Len(native) - 1) : native'[i] = native[i]
  BY ChangedNative
<1> PICK n \in Nat : n = Len(native)
  BY <1>1
<1>2. ASSUME NEW i \in 1..n PROVE native'[i].type = native[i].type
  <2>1. CASE i = n
    BY <2>1, <1>1 DEF Last
  <2>2. CASE i # n
    <3>1. i \in 1..(n - 1)
      BY <2>2
    <3> QED
      BY <3>1, <1>1
  <2> QED
    BY <2>1, <2>2
<1>3. NativeOf(t)' = {i \in 1..n : native'[i].type = t}
  BY <1>1 DEF NativeOf
<1> QED
  BY <1>2, <1>3 DEF NativeOf

(* Places are positive, and what stands there is of the kind.              *)
LEMMA PlaceFacts ==
  ASSUME Shapes, NEW t, NEW i \in NativeOf(t)
  PROVE  /\ Len(native) \in Nat
         /\ i \in 1..Len(native) /\ native[i] \in Activations
         /\ native[i].type = t
<1>1. native \in Seq(Activations)
  BY DEF Shapes
<1>2. i \in 1..Len(native) /\ native[i].type = t
  BY DEF NativeOf
<1> QED
  BY <1>1, <1>2, ElementOfSeq

(* Where a driver stands, its floor.                                       *)
LEMMA DriveFacts ==
  ASSUME Shapes, NEW j \in Drives
  PROVE  /\ Len(native) \in Nat
         /\ j \in 1..Len(native)
         /\ native[j].floor \in Nat
BY PlaceFacts, ActivationKinds DEF Drives

(* Drivers that stay where they are, with their frames, stay nested; those *)
(* that go must have no frame left.                                        *)
LEMMA NestedStill ==
  ASSUME Shapes, DrivesNested, vm' \in Seq(VmFrames),
         Drives' \subseteq Drives,
         \A j \in Drives' : /\ native'[j] = native[j]
                            /\ j > 1 => native'[j - 1] = native[j - 1],
         \A j \in Drives' :
           /\ native[j].floor <= Len(vm')
           /\ j < Len(native') \/ Running' => native[j].floor < Len(vm'),
         \A j \in Drives : j \notin Drives' => native[j].floor >= Len(vm'),
         vm' # <<>> => vm # <<>>,
         \A k \in 1..Len(vm') : vm'[k].type = "entry" =>
           k \in 1..Len(vm) /\ vm[k].type = "entry"
  PROVE  DrivesNested'
<1> PICK m \in Nat : m = Len(vm')
  OBVIOUS
<1>1. \A j \in Drives : native[j].floor \in Nat
  BY DriveFacts
<1>2. \A i, j \in Drives' : i < j => native'[i].floor < native'[j].floor
  BY DEF DrivesNested
<1>3. vm' # <<>> => \E j \in Drives' : native'[j].floor = 0
  <2> HAVE vm' # <<>>
  <2>1. PICK j \in Drives : native[j].floor = 0
    BY DEF DrivesNested
  <2>2. m # 0
    BY EmptySeq
  <2>3. j \in Drives'
    BY <2>1, <2>2
  <2> QED
    BY <2>1, <2>3
<1>4. ASSUME NEW k \in 1..m, vm'[k].type = "entry"
      PROVE  \E j \in Drives' :
               /\ j > 1 /\ native'[j].floor = k - 1
               /\ native'[j - 1].type = "call"
               /\ native'[j - 1].started
               /\ native'[j - 1].decl \in Compiled
  <2>1. k \in 1..Len(vm) /\ vm[k].type = "entry"
    BY <1>4
  <2>2. PICK j \in Drives :
               /\ j > 1 /\ native[j].floor = k - 1
               /\ native[j - 1].type = "call"
               /\ native[j - 1].started
               /\ native[j - 1].decl \in Compiled
    BY <2>1 DEF DrivesNested
  <2>3. j \in Drives'
    <3>1. ~(k - 1 >= m)
      OBVIOUS
    <3> QED
      BY <2>2, <3>1
  <2> QED
    BY <2>2, <2>3
<1>5. \A j \in Drives' : /\ native'[j].floor <= Len(vm')
                         /\ j < Len(native') \/ Running' => native'[j].floor < Len(vm')
  OBVIOUS
<1> QED
  BY <1>2, <1>3, <1>4, <1>5 DEF DrivesNested

(* Pushing something else on top of a driver that runs.                    *)
LEMMA DrivesUnderPush ==
  ASSUME Shapes, DrivesNested, Running, NEW x \in Activations,
         x.type \notin {"top", "drive"}, native' = Append(native, x),
         vm' = vm
  PROVE  DrivesNested'
<1>0. native # <<>> /\ vm \in Seq(VmFrames)
  BY DEF Shapes, Running
<1>1. /\ Len(native) \in Nat \ {0}
      /\ Len(native') = Len(native) + 1
      /\ \A i \in 1..Len(native) : native'[i] = native[i]
  BY <1>0, PushedNative
<1>2. Drives' = Drives
  BY <1>0, PlacesPushed DEF Drives
<1>3. \A j \in Drives : j \in 1..Len(native) /\ native[j].floor \in Nat
  BY DriveFacts
<1>4. \A j \in Drives : native[j].floor < Len(vm)
  BY DEF DrivesNested
<1>5. \A j \in Drives : /\ native'[j] = native[j]
                        /\ j > 1 => native'[j - 1] = native[j - 1]
  BY <1>1, <1>3
<1>6. \A j \in Drives : native[j].floor <= Len(vm)
  BY DEF DrivesNested
<1> QED
  BY <1>0, <1>2, <1>4, <1>5, <1>6, NestedStill

(* A native tail call.                                                     *)
LEMMA DrivesUnderHop ==
  ASSUME Shapes, DrivesNested, Running, NEW c \in Activations, c.type = "call",
         Last(native).type = "call", native' = SetLast(native, c),
         vm' = vm, mode' = mode
  PROVE  DrivesNested'
<1>0. native # <<>> /\ vm \in Seq(VmFrames)
  BY DEF Shapes, Running
<1>1. /\ Len(native) \in Nat \ {0, 1}
      /\ Len(native') = Len(native)
      /\ \A i \in 1..(Len(native) - 1) : native'[i] = native[i]
  BY <1>0, ChangedNative
<1>2. Drives' = Drives
  BY <1>0, PlacesChanged DEF Drives
<1> PICK n \in Nat : n = Len(native)
  BY <1>1
<1>3. \A j \in Drives : j \in 1..(n - 1)
  <2> TAKE j \in Drives
  <2>1. j \in 1..n /\ j # n
    BY PlaceFacts DEF Drives, Last
  <2> QED
    BY <2>1
<1>4. \A j \in Drives : /\ native'[j] = native[j]
                        /\ j > 1 => native'[j - 1] = native[j - 1]
  <2> TAKE j \in Drives
  <2>1. j > 1 => j - 1 \in 1..(n - 1)
    BY <1>3
  <2> QED
    BY <2>1, <1>1, <1>3
<1>5. \A j \in Drives : native[j].floor < Len(vm) /\ native[j].floor <= Len(vm)
  BY DEF DrivesNested
<1> QED
  BY <1>0, <1>2, <1>4, <1>5, NestedStill

(* Something else than a driver goes.                                      *)
LEMMA DrivesUnderPop ==
  ASSUME Shapes, DrivesNested, native # <<>>,
         Last(native).type \notin {"top", "drive"}, native' = Front(native),
         vm' = vm
  PROVE  DrivesNested'
<1>0. vm \in Seq(VmFrames)
  BY DEF Shapes
<1>1. /\ Len(native) \in Nat \ {0, 1}
      /\ Len(native') = Len(native) - 1
      /\ \A i \in 1..(Len(native) - 1) : native'[i] = native[i]
  BY PoppedNative
<1>2. Drives' = Drives /\ Len(native) \notin Drives
  BY PlacesPopped DEF Drives
<1> PICK n \in Nat : n = Len(native)
  BY <1>1
<1>3. \A j \in Drives : j \in 1..(n - 1)
  <2> TAKE j \in Drives
  <2>1. j \in 1..n /\ j # n
    BY <1>2, DriveFacts
  <2> QED
    BY <2>1
<1>4. \A j \in Drives : /\ native'[j] = native[j]
                        /\ j > 1 => native'[j - 1] = native[j - 1]
  <2> TAKE j \in Drives
  <2>1. j > 1 => j - 1 \in 1..(n - 1)
    BY <1>3
  <2> QED
    BY <2>1, <1>1, <1>3
<1>5. \A j \in Drives : native[j].floor < Len(vm) /\ native[j].floor <= Len(vm)
  <2> TAKE j \in Drives
  <2>1. j < n
    BY <1>3
  <2> QED
    BY <2>1 DEF DrivesNested
<1> QED
  BY <1>0, <1>2, <1>4, <1>5, NestedStill

(* A driver goes, with its last frame or after it.                         *)
LEMMA DrivesAfterEnd ==
  ASSUME Shapes, DrivesNested, native # <<>>,
         Last(native).type = "drive", native' = Front(native),
         vm' \in Seq(VmFrames), Len(vm') = Last(native).floor,
         \A k \in 1..Len(vm') : k \in 1..Len(vm) /\ vm'[k] = vm[k]
  PROVE  DrivesNested'
<1>1. /\ Len(native) \in Nat \ {0, 1}
      /\ Len(native') = Len(native) - 1
      /\ \A i \in 1..(Len(native) - 1) : native'[i] = native[i]
  BY PoppedNative
<1> PICK n \in Nat : n = Len(native)
  BY <1>1
<1>2. Drives' = Drives \ {n} /\ n \in Drives
  BY PlacesPopped DEF Drives
<1>3. \A j \in Drives' : j \in 1..(n - 1)
  <2> TAKE j \in Drives'
  <2>1. j \in 1..n /\ j # n
    BY <1>2, DriveFacts
  <2> QED
    BY <2>1
<1>4. \A j \in Drives' : /\ native'[j] = native[j]
                         /\ j > 1 => native'[j - 1] = native[j - 1]
  <2> TAKE j \in Drives'
  <2>1. j > 1 => j - 1 \in 1..(n - 1)
    BY <1>3
  <2> QED
    BY <2>1, <1>1, <1>3
<1>5. Len(vm') = native[n].floor
  BY DEF Last
<1>6. \A j \in Drives' : native[j].floor < Len(vm') /\ native[j].floor <= Len(vm')
  <2> TAKE j \in Drives'
  <2>1. j \in Drives /\ j < n
    BY <1>2, <1>3
  <2>2. native[j].floor < native[n].floor
    BY <1>2, <2>1 DEF DrivesNested
  <2>3. native[j].floor \in Nat /\ native[n].floor \in Nat
    BY <1>2, <2>1, DriveFacts
  <2> QED
    BY <1>5, <2>2, <2>3
<1>7. \A j \in Drives : j \notin Drives' => native[j].floor >= Len(vm')
  <2>1. native[n].floor \in Nat
    BY <1>2, DriveFacts
  <2> QED
    BY <1>2, <1>5, <2>1
<1>8. vm' # <<>> => vm # <<>>
  <2> PICK k \in Nat : k = Len(vm')
    OBVIOUS
  <2> PICK m \in Nat : m = Len(vm)
    BY DEF Shapes
  <2> HAVE vm' # <<>>
  <2>1. k # 0
    BY EmptySeq
  <2>2. k \in 1..k
    BY <2>1
  <2>3. k \in 1..m
    BY <2>2
  <2> QED
    BY <2>3
<1> QED
  BY <1>2, <1>4, <1>6, <1>7, <1>8, NestedStill

(* A frame comes or changes on top of a driver that runs.                  *)
LEMMA DrivesUnderFrame ==
  ASSUME Shapes, DrivesNested, vm # <<>>,
         native' = native, mode' = mode,
         vm' \in Seq(VmFrames), Len(vm') >= Len(vm),
         \A k \in 1..Len(vm') : vm'[k].type = "entry" =>
           k \in 1..Len(vm) /\ vm[k].type = "entry"
  PROVE  DrivesNested'
<1>1. Drives' = Drives
  BY DEF Drives, NativeOf
<1> PICK m \in Nat : m = Len(vm)
  BY DEF Shapes
<1> PICK k \in Nat : k = Len(vm')
  OBVIOUS
<1>2. \A j \in Drives : /\ native[j].floor <= k
                        /\ j < Len(native') \/ Running' => native[j].floor < k
  <2> TAKE j \in Drives
  <2>1. native[j].floor \in Nat
    BY DriveFacts
  <2>2. native[j].floor <= m /\ (j < Len(native) \/ Running => native[j].floor < m)
    BY DEF DrivesNested
  <2> QED
    BY <2>1, <2>2 DEF Running
<1> QED
  BY <1>1, <1>2, NestedStill

(* A frame goes, and is not the last of its driver or leaves it throwing.  *)
LEMMA DrivesOverFrame ==
  ASSUME Shapes, DrivesNested, vm # <<>>, native # <<>>,
         Last(native).type = "drive",
         IF Running THEN Last(native).floor < Len(vm) - 1
                    ELSE Last(native).floor <= Len(vm) - 1,
         native' = native, mode' = mode, vm' = Front(vm)
  PROVE  DrivesNested'
<1>1. Drives' = Drives
  BY DEF Drives, NativeOf
<1> PICK m \in Nat : m = Len(vm)
  BY DEF Shapes
<1> PICK n \in Nat : n = Len(native)
  BY DEF Shapes
<1>2. /\ m # 0
      /\ vm' \in Seq(VmFrames)
      /\ Len(vm') = m - 1
      /\ \A k \in 1..(m - 1) : vm'[k] = vm[k]
  BY PoppedFrames
<1>3. n \in Drives
  <2>1. n \in 1..n
    BY EmptySeq DEF Shapes
  <2> QED
    BY <2>1 DEF Drives, NativeOf, Last
<1>4. \A j \in Drives : /\ native[j].floor <= m - 1
                        /\ j < n \/ Running' => native[j].floor < m - 1
  <2> TAKE j \in Drives
  <2>1. native[j].floor \in Nat /\ native[n].floor \in Nat /\ j \in 1..n
    BY <1>3, DriveFacts
  <2>2. j < n => native[j].floor < native[n].floor
    BY <1>3 DEF DrivesNested
  <2>3. native[n].floor <= m - 1 /\ (Running => native[n].floor < m - 1)
    BY <2>1 DEF Last
  <2> QED
    BY <2>1, <2>2, <2>3 DEF Running
<1>5. \A k \in 1..(m - 1) : k \in 1..m
  OBVIOUS
<1> QED
  BY <1>1, <1>2, <1>4, <1>5, NestedStill

(* A driver starts, on top of a call that is at most marked as started.    *)
LEMMA DrivesAfterStart ==
  ASSUME Shapes, DrivesNested, Running,
         NEW f \in VmFrames, FrameOK(f), NEW below,
         \/ below = native
         \/ \E c \in Activations : c.type = "call" /\ below = SetLast(native, c),
         Last(native).type = "top" => below = native,
         Last(native).type = "drive" => below = native,
         f.type = "entry" => /\ Last(below).type = "call"
                             /\ Last(below).started
                             /\ Last(below).decl \in Compiled,
         DriveVm(below, f)
  PROVE  DrivesNested'
<1> PICK n \in Nat : n = Len(native)
  BY DEF Shapes
<1> PICK m \in Nat : m = Len(vm)
  BY DEF Shapes
<1>1. /\ n # 0
      /\ Shapes'
      /\ Len(native') = n + 1
      /\ native'[n + 1] = Drive(m)
      /\ native'[n] = Last(below)
      /\ \A i \in 1..(n - 1) : native'[i] = native[i]
  BY ShapesDriver
<1>2. /\ Len(vm') = m + 1
      /\ vm'[m + 1] = f
      /\ \A k \in 1..m : vm'[k] = vm[k]
  BY PushedVm DEF DriveVm
<1>2a. \A j \in Drives : j \in 1..n /\ native[j].floor \in Nat
  BY DriveFacts
<1>3. \A j \in Drives : native'[j] = native[j]
  <2> TAKE j \in Drives
  <2>1. j \in 1..n
    BY DriveFacts
  <2>2. CASE j = n
    <3>1. Last(native).type = "drive"
      BY <2>2 DEF Drives, NativeOf, Last
    <3> QED
      BY <3>1, <2>2, <1>1 DEF Last
  <2>3. CASE j # n
    <3>1. j \in 1..(n - 1)
      BY <2>1, <2>3
    <3> QED
      BY <3>1, <1>1
  <2> QED
    BY <2>2, <2>3
<1>4. \A j \in Drives : j > 1 => native'[j - 1] = native[j - 1]
  <2> TAKE j \in Drives
  <2>1. j > 1 => j - 1 \in 1..(n - 1)
    BY <1>2a
  <2> QED
    BY <2>1, <1>1
<1>5. Drives' = Drives \cup {n + 1}
  <2>1. ASSUME NEW i \in Drives' PROVE i \in Drives \cup {n + 1}
    <3>1. i \in 1..(n + 1) /\ native'[i].type = "drive"
      BY <2>1, <1>1 DEF Drives, NativeOf
    <3>2. CASE i \in 1..(n - 1)
      BY <3>1, <3>2, <1>1 DEF Drives, NativeOf
    <3>3. CASE i = n
      <4>1. Last(below).type = "drive"
        BY <3>1, <3>3, <1>1
      <4>2. CASE below = native
        <5>1. n \in 1..n
          BY <1>1
        <5> QED
          BY <3>3, <4>1, <4>2, <5>1 DEF Drives, NativeOf, Last
      <4>3. ASSUME NEW c \in Activations, c.type = "call", below = SetLast(native, c)
            PROVE  FALSE
        <5>1. native \in Seq(Activations) /\ native # <<>>
          BY DEF Shapes, Running
        <5>2. Last(SetLast(native, c)) = c
          BY <5>1, LastOfSetLast, Zenon
        <5> QED
          BY <4>1, <4>3, <5>2
      <4> QED
        BY <4>2, <4>3
    <3>4. CASE i = n + 1
      BY <3>4
    <3> QED
      BY <3>1, <3>2, <3>3, <3>4
  <2>2. n + 1 \in Drives'
    BY <1>1 DEF Drives, NativeOf, Drive
  <2>3. ASSUME NEW i \in Drives PROVE i \in Drives'
    <3>1. i \in 1..(n + 1) /\ native[i].type = "drive"
      BY <1>2a DEF Drives, NativeOf
    <3> QED
      BY <3>1, <1>1, <1>3 DEF Drives, NativeOf
  <2> QED
    BY <2>1, <2>2, <2>3
<1>6. \A j \in Drives : native[j].floor < m
  BY DEF DrivesNested
<1>7. native'[n + 1].floor = m
  BY <1>1 DEF Drive
<1> USE DEF DrivesNested
<1>8. \A i, j \in Drives' : i < j => native'[i].floor < native'[j].floor
  <2> TAKE i, j \in Drives'
  <2>1. CASE i = n + 1
    <3>1. j \notin Drives => j = n + 1
      BY <1>5
    <3> QED
      BY <2>1, <3>1, <1>2a
  <2>2. CASE i \in Drives /\ j = n + 1
    BY <2>2, <1>3, <1>6, <1>7
  <2>3. CASE i \in Drives /\ j \in Drives
    BY <2>3, <1>3
  <2> QED
    BY <2>1, <2>2, <2>3, <1>5
<1>9. \A j \in Drives' : native'[j].floor < m + 1
  <2> TAKE j \in Drives'
  <2>1. CASE j = n + 1
    BY <2>1, <1>7
  <2>2. CASE j \in Drives
    <3>1. native[j].floor \in Nat /\ native[j].floor < m
      BY <2>2, <1>2a, <1>6
    <3> QED
      BY <2>2, <3>1, <1>3
  <2> QED
    BY <2>1, <2>2, <1>5
<1>9a. \A j \in Drives' : native'[j].floor \in Nat
  BY <1>5, <1>7, <1>3, <1>2a
<1>10. \E j \in Drives' : native'[j].floor = 0
  <2>1. CASE m = 0
    BY <2>1, <1>5, <1>7
  <2>2. CASE m # 0
    <3>1. vm # <<>>
      BY <2>2
    <3> QED
      BY <3>1, <1>3, <1>5
  <2> QED
    BY <2>1, <2>2
<1>11. ASSUME NEW k \in 1..(m + 1), vm'[k].type = "entry"
       PROVE  \E j \in Drives' :
                /\ j > 1 /\ native'[j].floor = k - 1
                /\ native'[j - 1].type = "call"
                /\ native'[j - 1].started
                /\ native'[j - 1].decl \in Compiled
  <2>1. CASE k = m + 1
    <3>1. n + 1 > 1 /\ n + 1 - 1 = n /\ k - 1 = m
      BY <2>1, <1>1
    <3>2. native'[n].type = "call" /\ native'[n].started /\ native'[n].decl \in Compiled
      BY <1>1, <1>2, <1>11, <2>1
    <3> QED
      BY <3>1, <3>2, <1>5, <1>7
  <2>2. CASE k \in 1..m
    <3>1. vm[k].type = "entry"
      BY <1>2, <1>11, <2>2
    <3>2. PICK j \in Drives :
                /\ j > 1 /\ native[j].floor = k - 1
                /\ native[j - 1].type = "call"
                /\ native[j - 1].started
                /\ native[j - 1].decl \in Compiled
      BY <2>2, <3>1
    <3> QED
      BY <3>2, <1>3, <1>4, <1>5
  <2> QED
    BY <2>1, <2>2
<1>12. \A j \in Drives' : /\ native'[j].floor <= Len(vm')
                          /\ j < Len(native') \/ Running' => native'[j].floor < Len(vm')
  BY <1>2, <1>9, <1>9a
<1> QED
  BY <1>2, <1>8, <1>10, <1>11, <1>12

(* Outside the pass no driver and no frame is left.                        *)
LEMMA NothingOutside ==
  ASSUME Shapes, DrivesNested, native = <<>> \/ Last(native).type = "top"
  PROVE  /\ \A t : t # "top" => NativeOf(t) = {}
         /\ vm = <<>>
         /\ native = <<>> \/ Len(native) = 1
<1>0. /\ native \in Seq(Activations) /\ vm \in Seq(VmFrames)
      /\ native # <<>> => native[1] = Top
      /\ \A i \in 2..Len(native) : native[i].type # "top"
  BY DEF Shapes
<1> PICK n \in Nat : n = Len(native)
  BY <1>0
<1>1. n = 0 \/ n = 1
  <2>1. CASE native = <<>>
    BY <2>1
  <2>2. CASE native # <<>>
    <3>1. n # 0 /\ native[n].type = "top"
      BY <1>0, <2>2, EmptySeq DEF Last
    <3>2. n \notin 2..n
      BY <1>0, <3>1
    <3> QED
      BY <3>1, <3>2
  <2> QED
    BY <2>1, <2>2
<1>2. n = 0 => native = <<>>
  BY <1>0, EmptySeq
<1>3. ASSUME NEW t, t # "top" PROVE NativeOf(t) = {}
  <2> SUFFICES ASSUME NEW i \in NativeOf(t) PROVE FALSE
    OBVIOUS
  <2>1. i \in 1..n /\ native[i].type = t
    BY DEF NativeOf
  <2>2. i = 1 /\ native # <<>>
    BY <1>1, <2>1
  <2> QED
    BY <1>0, <1>3, <2>1, <2>2 DEF Top
<1>4. vm = <<>>
  BY <1>3 DEF DrivesNested, Drives
<1> QED
  BY <1>1, <1>2, <1>3, <1>4

(* Every step keeps drivers and frames nested.                             *)
LEMMA DrivesKept ==
  ASSUME Shapes, DrivesNested, Counted, Step
  PROVE  DrivesNested'
<1>0. /\ native # <<>> <=> mode # "idle"
      /\ vm \in Seq(VmFrames)
      /\ Running => native # <<>>
  BY DEF Shapes, Running
<1>1. ASSUME vm = <<>>, vm' = vm, native' = <<>> \/ native' = <<Top>>
      PROVE  DrivesNested'
  <2>1. Drives' = {}
    <3>1. CASE native' = <<>>
      BY <3>1 DEF Drives, NativeOf
    <3>2. CASE native' = <<Top>>
      <4>1. Len(native') = 1 /\ native'[1] = Top
        BY <3>2
      <4>2. \A i \in 1..1 : i = 1
        OBVIOUS
      <4> QED
        BY <4>1, <4>2 DEF Drives, NativeOf, Top
    <3> QED
      BY <1>1, <3>1, <3>2
  <2>2. vm' = <<>> /\ Len(vm') = 0
    BY <1>1
  <2> QED
    BY <2>1, <2>2 DEF DrivesNested
<1>2. CASE Evaluate
  BY <1>0, <1>1, <1>2, NothingOutside DEF Evaluate
<1>3. CASE PassLeft
  BY <1>1, <1>3, NothingOutside DEF PassLeft
<1>4. ASSUME UNCHANGED <<native, vm>>, Running' => Running
      PROVE  DrivesNested'
  BY <1>4 DEF DrivesNested, Drives, NativeOf
<1>5. CASE Refused
  <2>1. UNCHANGED <<native, vm>> /\ (Running' => Running)
    BY <1>5 DEF Refused, Running
  <2> QED
    BY <1>4, <2>1
<1>6. ASSUME NEW d \in Decl, NEW catches \in BOOLEAN, NativeEntered(d, catches)
      PROVE  DrivesNested'
  <2>1. Running /\ native' = Append(native, Call(d, catches)) /\ vm' = vm
    BY <1>6 DEF NativeEntered
  <2>2. Call(d, catches) \in Activations /\ Call(d, catches).type = "call"
    BY ActivationTypes DEF Call
  <2> QED
    BY <2>1, <2>2, DrivesUnderPush
<1>7. ASSUME NEW d \in Decl, NativeHopped(d) PROVE DrivesNested'
  <2> DEFINE h == [Last(native) EXCEPT !.decl = d, !.hops = @ + 1]
  <2>1. /\ Running /\ Last(native).type = "call"
        /\ h \in Activations /\ h.type = "call"
        /\ native' = SetLast(native, h)
    BY <1>7, NativeHop
  <2> HIDE DEF h
  <2>2. vm' = vm /\ mode' = mode
    BY <1>7 DEF NativeHopped
  <2> QED
    BY <2>1, <2>2, DrivesUnderHop
<1>8. CASE RunCompiledBody
  <2> DEFINE s == [Last(native) EXCEPT !.started = TRUE]
             f == VmFrame(IF Last(native).decl \in Functions THEN "entry" ELSE "body",
                          Last(native).decl, NoHandle)
  <2>1. /\ Running /\ Last(native).type = "call"
        /\ s \in Activations /\ s.type = "call" /\ s.started /\ s.decl \in Compiled
        /\ f \in VmFrames /\ FrameOK(f) /\ DriveVm(SetLast(native, s), f)
        /\ Last(SetLast(native, s)) = s
    BY <1>8, BodyStarted
  <2> HIDE DEF s, f
  <2> QED
    BY <2>1, DrivesAfterStart
<1>9. CASE ChunkStarted
  <2>1. PICK type \in {"bare", "body"} :
             DriveVm(native, VmFrame(type, NoDecl, NoHandle))
    BY <1>9 DEF ChunkStarted
  <2> DEFINE f == VmFrame(type, NoDecl, NoHandle)
  <2>2. /\ f \in VmFrames /\ FrameOK(f) /\ DriveVm(native, f) /\ Running
        /\ f.type # "entry"
    BY <1>9, <2>1, FrameTypes, FrameKinds DEF ChunkStarted, VmFrame
  <2> HIDE DEF f
  <2> QED
    BY <2>2, DrivesAfterStart
<1>10. ASSUME OpenBlock \/ OpenMeasure PROVE DrivesNested'
  <2>1. Running /\ vm' = vm
    BY <1>10 DEF OpenBlock, OpenMeasure, WalksStatements, InWalker,
                 VmStatements, InVm
  <2>2. native' = Append(native, Block) \/ native' = Append(native, Measure(measuring))
    BY <1>10 DEF OpenBlock, OpenMeasure
  <2>3. /\ Block \in Activations /\ Block.type = "block"
        /\ Measure(measuring) \in Activations /\ Measure(measuring).type = "measure"
    BY ActivationTypes DEF Block, Measure, Shapes
  <2> QED
    BY <2>1, <2>2, <2>3, DrivesUnderPush
<1>11. ASSUME vm # <<>>, UNCHANGED <<native, mode>>,
              NEW f \in VmFrames, FrameOK(f), f.type # "entry", vm' = Append(vm, f)
       PROVE  DrivesNested'
  <2>1. /\ Len(vm) \in Nat
        /\ vm' \in Seq(VmFrames)
        /\ Len(vm') = Len(vm) + 1
        /\ vm'[Len(vm) + 1] = f
        /\ \A k \in 1..Len(vm) : vm'[k] = vm[k]
    BY <1>11, PushedVm
  <2>2. ASSUME NEW k \in 1..Len(vm'), vm'[k].type = "entry"
        PROVE  k \in 1..Len(vm) /\ vm[k].type = "entry"
    <3>1. k # Len(vm) + 1
      BY <1>11, <2>1, <2>2
    <3>2. k \in 1..Len(vm)
      BY <2>1, <3>1
    <3> QED
      BY <2>1, <2>2, <3>2
  <2>3. Len(vm') >= Len(vm)
    BY <2>1
  <2> QED
    BY <1>11, <2>1, <2>2, <2>3, DrivesUnderFrame
<1>12. ASSUME NEW d \in Decl, NEW type \in {"function", "module"}, FrameEntered(d, type)
       PROVE  DrivesNested'
  <2> DEFINE f == VmFrame(type, d, Handle(d, FALSE))
  <2>1. f \in VmFrames /\ FrameOK(f) /\ f.type # "entry"
    BY <1>12, FrameTypes, FrameKinds DEF FrameEntered, VmFrame
  <2>2. vm' = Append(vm, f) /\ UNCHANGED <<native, mode>> /\ InVm
    BY <1>12 DEF FrameEntered
  <2> HIDE DEF f
  <2>3. vm # <<>>
    BY <1>0, <2>2, DriverHasFrame DEF InVm
  <2> QED
    BY <1>11, <2>1, <2>2, <2>3
<1>13. CASE ChildrenEntered
  <2> DEFINE f == VmFrame("children", NoDecl, NoHandle)
  <2>1. f \in VmFrames /\ FrameOK(f) /\ f.type # "entry"
    BY FrameTypes, FrameKinds DEF VmFrame
  <2>2. vm' = Append(vm, f) /\ UNCHANGED <<native, mode>> /\ InVm
    BY <1>13 DEF ChildrenEntered
  <2> HIDE DEF f
  <2>3. vm # <<>>
    BY <1>0, <2>2, DriverHasFrame DEF InVm
  <2> QED
    BY <1>11, <2>1, <2>2, <2>3
<1>14. ASSUME vm # <<>>, UNCHANGED <<native, mode>>,
              NEW f \in VmFrames, FrameOK(f), f.type = Last(vm).type,
              vm' = SetLast(vm, f)
       PROVE  DrivesNested'
  <2> PICK m \in Nat : m = Len(vm)
    BY <1>0
  <2>1. /\ vm' \in Seq(VmFrames)
        /\ Len(vm') = m
        /\ vm'[m] = f
        /\ \A k \in 1..(m - 1) : vm'[k] = vm[k]
    BY <1>14, ChangedVm
  <2>2. ASSUME NEW k \in 1..m PROVE vm'[k].type = vm[k].type
    <3>1. CASE k = m
      BY <3>1, <1>14, <2>1 DEF Last
    <3>2. CASE k # m
      <4>1. k \in 1..(m - 1)
        BY <3>2
      <4> QED
        BY <4>1, <2>1
    <3> QED
      BY <3>1, <3>2
  <2>3. Len(vm') >= Len(vm)
    BY <2>1
  <2> QED
    BY <1>14, <2>1, <2>2, <2>3, DrivesUnderFrame
<1>15. ASSUME NEW d \in Decl, FrameHopped(d) PROVE DrivesNested'
  <2> DEFINE h == [Last(vm) EXCEPT !.decl = d, !.hops = @ + 1]
  <2>1. /\ vm # <<>> /\ h \in VmFrames /\ FrameOK(h) /\ h.type = Last(vm).type
        /\ vm' = SetLast(vm, h)
    BY <1>15, FrameHop
  <2> HIDE DEF h
  <2>2. UNCHANGED <<native, mode>>
    BY <1>15 DEF FrameHopped
  <2> QED
    BY <1>14, <2>1, <2>2
<1>16. ASSUME UNCHANGED <<native, mode>>, vm # <<>>, NEW w \in Seq(BOOLEAN),
              vm' = SetLast(vm, [Last(vm) EXCEPT !.wraps = w])
       PROVE  DrivesNested'
  <2> DEFINE h == [Last(vm) EXCEPT !.wraps = w]
  <2>1. h \in VmFrames /\ FrameOK(h) /\ h.type = Last(vm).type /\ vm' = SetLast(vm, h)
    BY <1>16, Rewrapped
  <2> HIDE DEF h
  <2> QED
    BY <1>14, <1>16, <2>1
<1>17. ASSUME NEW measures \in BOOLEAN, PushWrap(measures) PROVE DrivesNested'
  <2> DEFINE w == Append(Last(vm).wraps, measuring)
  <2>1. vm # <<>> /\ w \in Seq(BOOLEAN)
        /\ vm' = SetLast(vm, [Last(vm) EXCEPT !.wraps = w])
    BY <1>17, WrapPushed
  <2> HIDE DEF w
  <2>2. UNCHANGED <<native, mode>>
    BY <1>17 DEF PushWrap
  <2> QED
    BY <1>16, <2>1, <2>2
<1>18. CASE PopWrap
  <2> DEFINE w == Front(Last(vm).wraps)
  <2>1. vm # <<>> /\ w \in Seq(BOOLEAN)
        /\ vm' = SetLast(vm, [Last(vm) EXCEPT !.wraps = w])
    BY <1>18, WrapPopped
  <2> HIDE DEF w
  <2>2. UNCHANGED <<native, mode>>
    BY <1>18 DEF PopWrap
  <2> QED
    BY <1>16, <2>1, <2>2
<1>19. CASE BlockClosed
  BY <1>0, <1>19, DrivesUnderPop DEF BlockClosed
<1>20. CASE CallLeft
  BY <1>0, <1>20, DrivesUnderPop DEF CallLeft
<1>21. CASE UnwindDrive
  <2>1. native # <<>> /\ Last(native).type = "drive" /\ native' = Front(native)
        /\ Len(vm) = Last(native).floor /\ vm' = vm
    BY <1>0, <1>21 DEF UnwindDrive, Throwing
  <2> QED
    BY <1>0, <2>1, DrivesAfterEnd
<1>22. CASE VmReturn
  <2>1. /\ native # <<>> /\ Last(native).type = "drive" /\ Running
        /\ vm' = Front(vm) /\ mode' = mode
        /\ IF Len(vm) = Last(native).floor + 1 THEN native' = Front(native)
                                               ELSE native' = native
    BY <1>0, <1>22 DEF VmReturn, InVm
  <2>2. vm # <<>> /\ Last(native).floor < Len(vm) /\ Last(native).floor \in Nat
    BY <2>1, DriverHasFrame
  <2>3. /\ Len(vm) \in Nat \ {0}
        /\ vm' \in Seq(VmFrames)
        /\ Len(vm') = Len(vm) - 1
        /\ \A k \in 1..(Len(vm) - 1) : vm'[k] = vm[k]
    BY <2>1, <2>2, PoppedFrames
  <2>4. CASE Len(vm) = Last(native).floor + 1
    <3>1. Len(vm') = Last(native).floor /\ native' = Front(native)
      BY <2>1, <2>2, <2>3, <2>4
    <3>2. \A k \in 1..Len(vm') : k \in 1..Len(vm) /\ vm'[k] = vm[k]
      BY <2>3
    <3> QED
      BY <2>1, <2>3, <3>1, <3>2, DrivesAfterEnd
  <2>5. CASE Len(vm) # Last(native).floor + 1
    <3>1. Last(native).floor < Len(vm) - 1
      BY <2>2, <2>3, <2>5
    <3> QED
      BY <2>1, <2>2, <2>5, <3>1, DrivesOverFrame
  <2> QED
    BY <2>4, <2>5
<1>23. CASE UnwindFrame
  <2>1. /\ native # <<>> /\ Last(native).type = "drive" /\ ~Running
        /\ vm' = Front(vm) /\ UNCHANGED <<native, mode>>
        /\ Len(vm) > Last(native).floor
    BY <1>0, <1>23 DEF UnwindFrame, Throwing, Running
  <2>2. vm # <<>> /\ Last(native).floor < Len(vm) /\ Last(native).floor \in Nat
        /\ Len(vm) \in Nat
    BY <2>1, DriverHasFrame
  <2>3. Last(native).floor <= Len(vm) - 1
    BY <2>2
  <2> QED
    BY <2>1, <2>2, <2>3, DrivesOverFrame
<1>24. CASE UNCHANGED vars
  BY <1>4, <1>24 DEF vars, Running
<1>25. ASSUME NEW d \in Decl, NEW skip \in BOOLEAN, EntryStopped(d, skip)
       PROVE  DrivesNested'
  <2>1. UNCHANGED <<native, vm>> /\ (Running' => Running)
    BY <1>25 DEF EntryStopped
  <2> QED
    BY <1>4, <2>1
<1> QED
  BY <1>2, <1>3, <1>5, <1>6, <1>7, <1>8, <1>9, <1>10, <1>12, <1>13, <1>15,
     <1>17, <1>18, <1>19, <1>20, <1>21, <1>22, <1>23, <1>24, <1>25 DEF Step

-----------------------------------------------------------------------------
(* The places of the open calls.                                           *)

(* Brackets when a frame is pushed.                                        *)
LEMMA BracketsPushed ==
  ASSUME Shapes, NEW f \in VmFrames, FrameOK(f), vm' = Append(vm, f)
  PROVE  /\ Brackets' = IF f.handle # NoHandle THEN Brackets \cup {Len(vm) + 1}
                                               ELSE Brackets
         /\ Len(vm) + 1 \notin Brackets
         /\ \A k \in Brackets : vm'[k] = vm[k]
<1>1. /\ Len(vm) \in Nat
      /\ Len(vm') = Len(vm) + 1
      /\ vm'[Len(vm) + 1] = f
      /\ \A k \in 1..Len(vm) : vm'[k] = vm[k]
  BY PushedVm
<1> QED
  BY <1>1 DEF Brackets

(* When the last frame goes.                                               *)
LEMMA BracketsPopped ==
  ASSUME Shapes, vm # <<>>, vm' = Front(vm)
  PROVE  /\ Brackets' = Brackets \ {Len(vm)}
         /\ Len(vm) \in Brackets <=> Last(vm).handle # NoHandle
         /\ \A k \in Brackets' : vm'[k] = vm[k]
<1>1. /\ Len(vm) \in Nat \ {0}
      /\ Len(vm') = Len(vm) - 1
      /\ \A k \in 1..(Len(vm) - 1) : vm'[k] = vm[k]
  BY PoppedFrames
<1> PICK m \in Nat : m = Len(vm)
  BY <1>1
<1>2. \A k \in 1..(m - 1) : k \in 1..m /\ k # m
  OBVIOUS
<1>3. \A k \in (1..m) \ {m} : k \in 1..(m - 1)
  OBVIOUS
<1>4. m \in 1..m
  BY <1>1
<1>5. Brackets' = {k \in 1..(m - 1) : vm[k].handle # NoHandle}
  BY <1>1 DEF Brackets
<1> QED
  BY <1>1, <1>2, <1>3, <1>4, <1>5 DEF Brackets, Last

(* When the last frame changes and keeps its handle.                       *)
LEMMA BracketsChanged ==
  ASSUME Shapes, vm # <<>>, NEW f \in VmFrames, FrameOK(f),
         f.handle = Last(vm).handle, vm' = SetLast(vm, f)
  PROVE  /\ Brackets' = Brackets
         /\ \A k \in 1..Len(vm) : k # Len(vm) => vm'[k] = vm[k]
         /\ vm'[Len(vm)] = f
         /\ Len(vm') = Len(vm) /\ Len(vm) \in Nat \ {0}
<1>1. /\ Len(vm) \in Nat \ {0}
      /\ Len(vm') = Len(vm)
      /\ vm'[Len(vm)] = f
      /\ \A k \in 1..(Len(vm) - 1) : vm'[k] = vm[k]
  BY ChangedVm
<1> PICK m \in Nat : m = Len(vm)
  BY <1>1
<1>2. \A k \in 1..m : k # m => k \in 1..(m - 1)
  OBVIOUS
<1>3. \A k \in 1..m : k # m => vm'[k] = vm[k]
  BY <1>1, <1>2
<1>4. \A k \in 1..m : vm'[k].handle = vm[k].handle
  BY <1>1, <1>3 DEF Last
<1>5. Brackets' = {k \in 1..m : vm'[k].handle # NoHandle}
  BY <1>1 DEF Brackets
<1> QED
  BY <1>1, <1>3, <1>4, <1>5 DEF Brackets

(* A frame stays above a call as long as the driver between them does.     *)
LEMMA AboveStill ==
  ASSUME NEW i, NEW k,
         \A j \in Drives : \/ j \in Drives' /\ native'[j].floor = native[j].floor
                           \/ ~(k > native[j].floor),
         \A j \in Drives' : \/ j \in Drives /\ native'[j].floor = native[j].floor
                            \/ ~(k > native'[j].floor)
  PROVE  Above(i, k)' <=> Above(i, k)
BY DEF Above

(* The innermost call is the last on the call stack: a native one.         *)
LEMMA TopNative ==
  ASSUME Shapes,
         NEW at \in [NativeOf("call") -> 1..Len(callStack)],
         NEW vat \in [Brackets -> 1..Len(callStack)],
         InCallOrder(at, vat),
         NEW i \in NativeOf("call"),
         \A h \in NativeOf("call") : h <= i,
         \A k \in Brackets : ~Above(i, k)
  PROVE  at[i] = Len(callStack)
<1> PICK c \in Nat : c = Len(callStack)
  BY DEF Shapes
<1> PICK a \in Nat : a = Len(abandoned)
  BY DEF Shapes
<1>1. at[i] \in 1..c /\ at[i] > a
  BY DEF InCallOrder
<1>2. c \in 1..c /\ c > a
  BY <1>1
<1>3. CASE \E h \in NativeOf("call") : at[h] = c
  <2>1. PICK h \in NativeOf("call") : at[h] = c
    BY <1>3
  <2>2. h < i => at[h] < at[i]
    BY DEF InCallOrder
  <2>3. h \in Int /\ i \in Int
    BY DEF NativeOf
  <2> QED
    BY <1>1, <2>1, <2>2, <2>3
<1>4. CASE \E k \in Brackets : vat[k] = c
  <2>1. PICK k \in Brackets : vat[k] = c
    BY <1>4
  <2>2. vat[k] < at[i]
    BY DEF InCallOrder
  <2> QED
    BY <1>1, <2>1, <2>2
<1> QED
  BY <1>2, <1>3, <1>4 DEF InCallOrder

(* Or one of the VM.                                                       *)
LEMMA TopBracket ==
  ASSUME Shapes,
         NEW at \in [NativeOf("call") -> 1..Len(callStack)],
         NEW vat \in [Brackets -> 1..Len(callStack)],
         InCallOrder(at, vat),
         NEW k \in Brackets,
         \A l \in Brackets : l <= k,
         \A i \in NativeOf("call") : Above(i, k)
  PROVE  vat[k] = Len(callStack)
<1> PICK c \in Nat : c = Len(callStack)
  BY DEF Shapes
<1> PICK a \in Nat : a = Len(abandoned)
  BY DEF Shapes
<1>1. vat[k] \in 1..c /\ vat[k] > a
  BY DEF InCallOrder
<1>2. c \in 1..c /\ c > a
  BY <1>1
<1>3. CASE \E l \in Brackets : vat[l] = c
  <2>1. PICK l \in Brackets : vat[l] = c
    BY <1>3
  <2>2. l < k => vat[l] < vat[k]
    BY DEF InCallOrder
  <2>3. l \in Int /\ k \in Int
    BY DEF Brackets
  <2> QED
    BY <1>1, <2>1, <2>2, <2>3
<1>4. CASE \E i \in NativeOf("call") : at[i] = c
  <2>1. PICK i \in NativeOf("call") : at[i] = c
    BY <1>4
  <2>2. at[i] < vat[k]
    BY DEF InCallOrder
  <2> QED
    BY <1>1, <2>1, <2>2
<1> QED
  BY <1>2, <1>3, <1>4 DEF InCallOrder

(* The order of the calls depends on nothing but their places.             *)
LEMMA OrderStill ==
  ASSUME NEW at, NEW vat, InCallOrder(at, vat),
         Len(callStack') = Len(callStack), abandoned' = abandoned,
         NativeOf("call")' = NativeOf("call"), Brackets' = Brackets,
         \A i \in NativeOf("call"), k \in Brackets : Above(i, k)' <=> Above(i, k)
  PROVE  InCallOrder(at, vat)'
BY DEF InCallOrder

(* Steps that open and close no call and make no tail call.                *)
LEMMA PlacedStill ==
  ASSUME Shapes, Placed, callStack' = callStack, crossed' = crossed,
         abandoned' = abandoned,
         NativeOf("call")' = NativeOf("call"), Brackets' = Brackets,
         \A i \in NativeOf("call"), k \in Brackets : Above(i, k)' <=> Above(i, k),
         \A i \in NativeOf("call") :
           /\ native'[i].handle = native[i].handle
           /\ native'[i].decl = native[i].decl
           /\ native[i].started => native'[i].started,
         \A k \in Brackets :
           vm'[k].decl = vm[k].decl /\ vm'[k].handle = vm[k].handle,
         \A i \in NativeOf("call"), j \in Drives' :
           LET e == vm'[native'[j].floor + 1] IN
           j = i + 1 /\ native'[j].floor < Len(vm') /\ e.type = "entry" =>
             \/ ~native[i].started /\ e.decl = native[i].decl
             \/ /\ j \in Drives /\ native[j].floor < Len(vm)
                /\ vm[native[j].floor + 1].type = "entry"
                /\ e.decl = vm[native[j].floor + 1].decl
  PROVE  Placed'
<1>1. PICK at \in [NativeOf("call") -> 1..Len(callStack)],
           vat \in [Brackets -> 1..Len(callStack)] :
           InCallOrder(at, vat) /\ NamesRunning(at, vat)
  BY DEF Placed
<1>2. InCallOrder(at, vat)'
  BY <1>1, OrderStill
<1>3. ASSUME NEW i \in NativeOf("call")
      PROVE  LET c == native'[i]
                 d == callStack[at[i]]
             IN  /\ d \in Modules <=> c.handle.decl \in Modules
                 /\ ~crossed => d = c.handle.decl
                 /\ ~c.started \/ c.decl \notin Compiled => d = c.decl
                 /\ \A j \in Drives' :
                      j = i + 1 /\ native'[j].floor < Len(vm')
                        /\ vm'[native'[j].floor + 1].type = "entry"
                      => d = vm'[native'[j].floor + 1].decl
  <2>1. LET c == native[i]
            d == callStack[at[i]]
        IN  /\ d \in Modules <=> c.handle.decl \in Modules
            /\ ~crossed => d = c.handle.decl
            /\ ~c.started \/ c.decl \notin Compiled => d = c.decl
            /\ \A j \in Drives :
                 j = i + 1 /\ native[j].floor < Len(vm)
                   /\ vm[native[j].floor + 1].type = "entry"
                 => d = vm[native[j].floor + 1].decl
    BY <1>1 DEF NamesRunning
  <2> QED
    BY <2>1
<1>4. ASSUME NEW k \in Brackets
      PROVE  /\ callStack[vat[k]] = vm'[k].decl
             /\ ~crossed => callStack[vat[k]] = vm'[k].handle.decl
  BY <1>1 DEF NamesRunning
<1>5. NamesRunning(at, vat)'
  BY <1>3, <1>4 DEF NamesRunning
<1> QED
  BY <1>2, <1>5 DEF Placed

(* In particular those that leave every driver with its frames or end it.  *)
LEMMA PlacedTrimmed ==
  ASSUME Shapes, Placed, callStack' = callStack, crossed' = crossed,
         abandoned' = abandoned,
         NativeOf("call")' = NativeOf("call"), Brackets' = Brackets,
         \A i \in NativeOf("call") : native'[i] = native[i],
         vm' \in Seq(VmFrames),
         Drives' \subseteq Drives,
         \A j \in Drives' : native'[j] = native[j],
         \A j \in Drives : j \notin Drives' => native[j].floor >= Len(vm'),
         \A k \in Brackets :
           vm'[k].decl = vm[k].decl /\ vm'[k].handle = vm[k].handle,
         \A k \in 1..Len(vm') : vm'[k].type = "entry" =>
           k \in 1..Len(vm) /\ vm[k].type = "entry" /\ vm'[k].decl = vm[k].decl
  PROVE  Placed'
<1> PICK m \in Nat : m = Len(vm)
  BY DEF Shapes
<1> PICK l \in Nat : l = Len(vm')
  OBVIOUS
<1>1. \A j \in Drives : native[j].floor \in Nat
  BY DriveFacts
<1>2. \A k \in Brackets : k \in 1..l
  BY DEF Brackets
<1>3. ASSUME NEW i \in NativeOf("call"), NEW k \in Brackets
      PROVE  Above(i, k)' <=> Above(i, k)
  <2>1. \A j \in Drives : j \notin Drives' => ~(k > native[j].floor)
    BY <1>1, <1>2
  <2> QED
    BY <2>1, AboveStill
<1>4. ASSUME NEW i \in NativeOf("call"), NEW j \in Drives',
             native'[j].floor < l, vm'[native'[j].floor + 1].type = "entry"
      PROVE  /\ j \in Drives /\ native[j].floor < m
             /\ vm[native[j].floor + 1].type = "entry"
             /\ vm'[native'[j].floor + 1].decl = vm[native[j].floor + 1].decl
  <2>1. native'[j].floor \in Nat /\ native[j].floor = native'[j].floor
    BY <1>1
  <2>2. native'[j].floor + 1 \in 1..l
    BY <1>4, <2>1
  <2>3. native'[j].floor + 1 \in 1..m
    BY <1>4, <2>2
  <2>4. native[j].floor < m
    BY <2>1, <2>3
  <2> QED
    BY <1>4, <2>1, <2>2, <2>4
<1> QED
  BY <1>3, <1>4, PlacedStill

(* A call made as C++ recursion.                                           *)
LEMMA PlacedEntered ==
  ASSUME Shapes, Placed, Counted, native # <<>>, NEW d \in Decl, NEW catches \in BOOLEAN,
         EnterUserCall(d, FALSE), native' = Append(native, Call(d, catches)),
         vm' = vm
  PROVE  Placed'
<1> DEFINE x == Call(d, catches)
<1>0. /\ x \in Activations /\ x.type = "call"
      /\ x.decl = d /\ x.handle.decl = d /\ ~x.started
  BY ActivationTypes DEF Call, Handle
<1>00. native' = Append(native, x)
  OBVIOUS
<1> HIDE DEF x
<1>n. native \in Seq(Activations) /\ callStack \in Seq(Decl)
  BY DEF Shapes
<1> PICK n \in Nat : n = Len(native)
  BY <1>n
<1> PICK c \in Nat : c = Len(callStack)
  BY <1>n
<1>1. /\ Len(native') = n + 1
      /\ native'[n + 1] = x
      /\ \A i \in 1..n : native'[i] = native[i]
  BY <1>0, <1>00, PushedNative
<1>2. /\ NativeOf("call")' = NativeOf("call") \cup {n + 1}
      /\ Drives' = Drives
      /\ n + 1 \notin NativeOf("call")
  BY <1>0, <1>00, PlacesPushed DEF Drives
<1>3. /\ Len(callStack') = c + 1
      /\ callStack'[c + 1] = d
      /\ \A p \in 1..c : callStack'[p] = callStack[p]
      /\ crossed' = crossed
  BY EnteredCall DEF EnterUserCall
<1>f. abandoned' = abandoned /\ Len(abandoned) \in Nat /\ Len(abandoned) <= c
  BY AbandonedFit DEF EnterUserCall
<1> PICK b \in Nat : b = Len(abandoned)
  BY <1>f
<1>4. Brackets' = Brackets
  BY DEF Brackets
<1>5. \A i \in NativeOf("call") : i \in 1..n
  BY PlaceFacts
<1>6. \A j \in Drives : j \in 1..n /\ native'[j] = native[j]
  BY <1>1, DriveFacts
<1> PICK at \in [NativeOf("call") -> 1..c], vat \in [Brackets -> 1..c] :
         InCallOrder(at, vat) /\ NamesRunning(at, vat)
  BY DEF Placed
<1>a. PICK at2 : at2 = [i \in NativeOf("call")' |-> IF i = n + 1 THEN c + 1 ELSE at[i]]
  OBVIOUS
<1>7. at2[n + 1] = c + 1 /\ \A i \in NativeOf("call") : at2[i] = at[i]
  BY <1>2, <1>a
<1>8. at2 \in [NativeOf("call")' -> 1..(c + 1)] /\ vat \in [Brackets' -> 1..(c + 1)]
  <2>1. \A p \in 1..c : p \in 1..(c + 1)
    OBVIOUS
  <2>2. c + 1 \in 1..(c + 1)
    OBVIOUS
  <2>3. \A i \in NativeOf("call")' : at2[i] \in 1..(c + 1)
    BY <1>2, <1>7, <2>1, <2>2
  <2> QED
    BY <1>4, <1>a, <2>1, <2>3
<1>9. \A i \in NativeOf("call"), k \in Brackets : Above(i, k)' <=> Above(i, k)
  BY <1>2, <1>6, AboveStill
<1>10. \A k \in Brackets : ~Above(n + 1, k)'
  BY <1>2, <1>6 DEF Above
<1>11. InCallOrder(at2, vat)'
  <2>1. \A p \in 1..(c + 1) : p > b =>
          \/ \E i \in NativeOf("call")' : at2[i] = p
          \/ \E k \in Brackets' : vat[k] = p
    <3> TAKE p \in 1..(c + 1)
    <3> HAVE p > b
    <3>1. CASE p = c + 1
      BY <3>1, <1>2, <1>7
    <3>2. CASE p \in 1..c
      BY <3>2, <1>2, <1>4, <1>7 DEF InCallOrder
    <3> QED
      BY <3>1, <3>2
  <2>2. \A i, j \in NativeOf("call")' : i < j => at2[i] < at2[j]
    <3> TAKE i, j \in NativeOf("call")'
    <3>1. CASE i = n + 1
      BY <3>1, <1>2, <1>5
    <3>2. CASE i \in NativeOf("call") /\ j = n + 1
      BY <3>2, <1>7
    <3>3. CASE i \in NativeOf("call") /\ j \in NativeOf("call")
      BY <3>3, <1>7 DEF InCallOrder
    <3> QED
      BY <3>1, <3>2, <3>3, <1>2
  <2>3. \A k, l \in Brackets' : k < l => vat[k] < vat[l]
    BY <1>4 DEF InCallOrder
  <2>4. \A i \in NativeOf("call")', k \in Brackets' :
          IF Above(i, k)' THEN at2[i] < vat[k] ELSE vat[k] < at2[i]
    <3> TAKE i \in NativeOf("call")', k \in Brackets'
    <3>1. CASE i = n + 1
      BY <3>1, <1>4, <1>7, <1>10
    <3>2. CASE i \in NativeOf("call")
      BY <3>2, <1>4, <1>7, <1>9 DEF InCallOrder
    <3> QED
      BY <3>1, <3>2, <1>2
  <2>5. \A i \in NativeOf("call")' : at2[i] > b
    BY <1>f, <1>2, <1>7 DEF InCallOrder
  <2>6. \A k \in Brackets' : vat[k] > b
    BY <1>f, <1>4 DEF InCallOrder
  <2>7. Len(abandoned') = b
    BY <1>f
  <2> QED
    BY <1>3, <2>1, <2>2, <2>3, <2>4, <2>5, <2>6, <2>7 DEF InCallOrder
<1>12. ASSUME NEW i \in NativeOf("call")'
       PROVE  LET a == native'[i]
                  e == callStack'[at2[i]]
              IN  /\ e \in Modules <=> a.handle.decl \in Modules
                  /\ ~crossed' => e = a.handle.decl
                  /\ ~a.started \/ a.decl \notin Compiled => e = a.decl
                  /\ \A j \in Drives' :
                       j = i + 1 /\ native'[j].floor < Len(vm')
                         /\ vm'[native'[j].floor + 1].type = "entry"
                       => e = vm'[native'[j].floor + 1].decl
  <2>1. CASE i = n + 1
    <3>1. \A j \in Drives' : j # i + 1
      BY <2>1, <1>2, <1>6
    <3> QED
      BY <2>1, <3>1, <1>0, <1>1, <1>3, <1>7
  <2>2. CASE i \in NativeOf("call")
    <3>1. LET a == native[i]
              e == callStack[at[i]]
          IN  /\ e \in Modules <=> a.handle.decl \in Modules
              /\ ~crossed => e = a.handle.decl
              /\ ~a.started \/ a.decl \notin Compiled => e = a.decl
              /\ \A j \in Drives :
                   j = i + 1 /\ native[j].floor < Len(vm)
                     /\ vm[native[j].floor + 1].type = "entry"
                   => e = vm[native[j].floor + 1].decl
      BY <2>2 DEF NamesRunning
    <3>2. native'[i] = native[i] /\ callStack'[at2[i]] = callStack[at[i]]
      BY <2>2, <1>1, <1>3, <1>5, <1>7
    <3> QED
      BY <3>1, <3>2, <1>2, <1>3, <1>6
  <2> QED
    BY <2>1, <2>2, <1>2
<1>13. ASSUME NEW k \in Brackets'
       PROVE  /\ callStack'[vat[k]] = vm'[k].decl
              /\ ~crossed' => callStack'[vat[k]] = vm'[k].handle.decl
  <2>1. callStack'[vat[k]] = callStack[vat[k]]
    BY <1>3, <1>4
  <2> QED
    BY <2>1, <1>3, <1>4 DEF NamesRunning
<1>14. NamesRunning(at2, vat)'
  BY <1>12, <1>13 DEF NamesRunning
<1>15. Len(callStack') = c + 1
  BY <1>3
<1> QED
  BY <1>8, <1>11, <1>14, <1>15 DEF Placed

(* Its end.                                                                *)
LEMMA PlacedLeft ==
  ASSUME Shapes, DrivesNested, Placed, Counted,
         native # <<>>, Last(native).type = "call",
         ExitUserCall(Last(native).handle), native' = Front(native),
         vm' = vm
  PROVE  Placed'
<1> PICK n \in Nat : n = Len(native)
  BY DEF Shapes
<1> PICK c \in Nat : c = Len(callStack)
  BY DEF Shapes
<1>1. /\ Last(native) \in Activations
      /\ Len(native') = n - 1
      /\ n # 0
      /\ \A i \in 1..(n - 1) : native'[i] = native[i]
  BY PoppedNative
<1>2. /\ NativeOf("call")' = NativeOf("call") \ {n}
      /\ Drives' = Drives
      /\ n \in NativeOf("call")
      /\ n \notin Drives
  <2>1. /\ NativeOf("call")' = NativeOf("call") \ {Len(native)}
        /\ Len(native) \in NativeOf("call") <=> Last(native).type = "call"
    BY PlacesPopped
  <2>2. /\ NativeOf("drive")' = NativeOf("drive") \ {Len(native)}
        /\ Len(native) \in NativeOf("drive") <=> Last(native).type = "drive"
    BY PlacesPopped
  <2> QED
    BY <2>1, <2>2 DEF Drives
<1>3. callStack # <<>> /\ Last(native).handle.decl \in Decl
  BY <1>1, <1>2, InsideCall, ActivationKinds
<1>4. /\ Len(callStack') = c - 1 /\ c # 0
      /\ \A p \in 1..(c - 1) : callStack'[p] = callStack[p]
      /\ crossed' = crossed
  BY <1>3, LeftCall
<1>f. abandoned' = abandoned /\ Len(abandoned) \in Nat
  BY AbandonedFit DEF ExitUserCall
<1> PICK b \in Nat : b = Len(abandoned)
  BY <1>f
<1>5. Brackets' = Brackets
  BY DEF Brackets
<1>6. \A i \in NativeOf("call") : i \in 1..n
  BY PlaceFacts
<1>7. \A j \in Drives : j \in 1..(n - 1)
  <2> TAKE j \in Drives
  <2>1. j \in 1..n /\ j # n
    BY <1>2, DriveFacts
  <2> QED
    BY <2>1
<1>8. \A j \in Drives : native'[j] = native[j]
  BY <1>1, <1>7
<1>9. \A i \in NativeOf("call")' : i \in NativeOf("call") /\ i \in 1..(n - 1)
  <2> TAKE i \in NativeOf("call")'
  <2>1. i \in 1..n /\ i # n /\ i \in NativeOf("call")
    BY <1>2, <1>6
  <2> QED
    BY <2>1
<1> PICK at \in [NativeOf("call") -> 1..c], vat \in [Brackets -> 1..c] :
         InCallOrder(at, vat) /\ NamesRunning(at, vat)
  BY DEF Placed
<1>10. at[n] = c
  <2>1. \A k \in Brackets : ~Above(n, k)
    BY <1>7 DEF Above
  <2>2. \A h \in NativeOf("call") : h <= n
    BY <1>6
  <2> QED
    BY <1>2, <2>1, <2>2, TopNative
<1>11. \A i \in NativeOf("call")' : at[i] \in 1..(c - 1)
  <2> TAKE i \in NativeOf("call")'
  <2>1. i < n
    BY <1>9
  <2>2. at[i] \in 1..c /\ at[i] < c
    BY <1>2, <1>9, <1>10, <2>1 DEF InCallOrder
  <2> QED
    BY <2>2
<1>12. \A k \in Brackets : vat[k] \in 1..(c - 1)
  <2> TAKE k \in Brackets
  <2>1. ~Above(n, k)
    BY <1>7 DEF Above
  <2>2. vat[k] \in 1..c /\ vat[k] < c
    BY <1>2, <1>10, <2>1 DEF InCallOrder
  <2> QED
    BY <2>2
<1>a. PICK at2 : at2 = [i \in NativeOf("call")' |-> at[i]]
  OBVIOUS
<1>13. at2 \in [NativeOf("call")' -> 1..(c - 1)] /\ vat \in [Brackets' -> 1..(c - 1)]
  BY <1>a, <1>5, <1>11, <1>12
<1>14. \A i \in NativeOf("call")' : at2[i] = at[i]
  BY <1>a
<1>15. \A i \in NativeOf("call")', k \in Brackets : Above(i, k)' <=> Above(i, k)
  BY <1>2, <1>8, AboveStill
<1>16. InCallOrder(at2, vat)'
  <2>1. \A p \in 1..(c - 1) : p > b =>
          \/ \E i \in NativeOf("call")' : at2[i] = p
          \/ \E k \in Brackets' : vat[k] = p
    <3> TAKE p \in 1..(c - 1)
    <3> HAVE p > b
    <3>1. p \in 1..c /\ p # c
      OBVIOUS
    <3>2. \/ \E i \in NativeOf("call") : at[i] = p
          \/ \E k \in Brackets : vat[k] = p
      BY <3>1 DEF InCallOrder
    <3> QED
      BY <3>1, <3>2, <1>2, <1>5, <1>10, <1>14
  <2>2. \A i, j \in NativeOf("call")' : i < j => at2[i] < at2[j]
    BY <1>9, <1>14 DEF InCallOrder
  <2>3. \A k, l \in Brackets' : k < l => vat[k] < vat[l]
    BY <1>5 DEF InCallOrder
  <2>4. \A i \in NativeOf("call")', k \in Brackets' :
          IF Above(i, k)' THEN at2[i] < vat[k] ELSE vat[k] < at2[i]
    BY <1>5, <1>9, <1>14, <1>15 DEF InCallOrder
  <2>5. \A i \in NativeOf("call")' : at2[i] > b
    BY <1>9, <1>14 DEF InCallOrder
  <2>6. \A k \in Brackets' : vat[k] > b
    BY <1>5 DEF InCallOrder
  <2>7. Len(abandoned') = b
    BY <1>f
  <2> QED
    BY <1>4, <2>1, <2>2, <2>3, <2>4, <2>5, <2>6, <2>7 DEF InCallOrder
<1>17. ASSUME NEW i \in NativeOf("call")'
       PROVE  LET a == native'[i]
                  e == callStack'[at2[i]]
              IN  /\ e \in Modules <=> a.handle.decl \in Modules
                  /\ ~crossed' => e = a.handle.decl
                  /\ ~a.started \/ a.decl \notin Compiled => e = a.decl
                  /\ \A j \in Drives' :
                       j = i + 1 /\ native'[j].floor < Len(vm')
                         /\ vm'[native'[j].floor + 1].type = "entry"
                       => e = vm'[native'[j].floor + 1].decl
  <2>1. LET a == native[i]
            e == callStack[at[i]]
        IN  /\ e \in Modules <=> a.handle.decl \in Modules
            /\ ~crossed => e = a.handle.decl
            /\ ~a.started \/ a.decl \notin Compiled => e = a.decl
            /\ \A j \in Drives :
                 j = i + 1 /\ native[j].floor < Len(vm)
                   /\ vm[native[j].floor + 1].type = "entry"
                 => e = vm[native[j].floor + 1].decl
    BY <1>9 DEF NamesRunning
  <2>2. native'[i] = native[i] /\ callStack'[at2[i]] = callStack[at[i]]
    BY <1>1, <1>4, <1>9, <1>11, <1>14
  <2> QED
    BY <2>1, <2>2, <1>2, <1>4, <1>8
<1>18. ASSUME NEW k \in Brackets'
       PROVE  /\ callStack'[vat[k]] = vm'[k].decl
              /\ ~crossed' => callStack'[vat[k]] = vm'[k].handle.decl
  <2>1. callStack'[vat[k]] = callStack[vat[k]]
    BY <1>4, <1>5, <1>12
  <2> QED
    BY <2>1, <1>4, <1>5 DEF NamesRunning
<1>19. NamesRunning(at2, vat)'
  BY <1>17, <1>18 DEF NamesRunning
<1>20. Len(callStack') = c - 1
  BY <1>4
<1> QED
  BY <1>13, <1>16, <1>19, <1>20 DEF Placed

(* A call inside the VM.                                                   *)
LEMMA PlacedBracket ==
  ASSUME Shapes, Placed, Counted, NEW d \in Decl, EnterUserCall(d, TRUE),
         NEW f \in VmFrames, FrameOK(f), f.handle # NoHandle, f.type # "entry",
         f.decl = d, f.handle.decl = d,
         vm' = Append(vm, f), native' = native,
         Len(native) \in Drives, Last(native).floor < Len(vm)
  PROVE  Placed'
<1>0. native \in Seq(Activations) /\ vm \in Seq(VmFrames) /\ callStack \in Seq(Decl)
  BY DEF Shapes
<1> PICK n \in Nat : n = Len(native)
  BY <1>0
<1> PICK m \in Nat : m = Len(vm)
  BY <1>0
<1> PICK c \in Nat : c = Len(callStack)
  BY <1>0
<1>1. /\ Len(vm') = m + 1
      /\ vm'[m + 1] = f
      /\ \A k \in 1..m : vm'[k] = vm[k]
  BY PushedVm
<1>2. /\ Brackets' = Brackets \cup {m + 1}
      /\ m + 1 \notin Brackets
      /\ \A k \in Brackets : vm'[k] = vm[k]
  BY BracketsPushed
<1>3. /\ Len(callStack') = c + 1
      /\ callStack'[c + 1] = d
      /\ \A p \in 1..c : callStack'[p] = callStack[p]
      /\ crossed' = crossed
  BY EnteredCall DEF EnterUserCall
<1>f. abandoned' = abandoned /\ Len(abandoned) \in Nat /\ Len(abandoned) <= c
  BY AbandonedFit DEF EnterUserCall
<1> PICK b \in Nat : b = Len(abandoned)
  BY <1>f
<1>4. NativeOf("call")' = NativeOf("call") /\ Drives' = Drives
  BY DEF NativeOf, Drives
<1>5. \A k \in Brackets : k \in 1..m
  BY DEF Brackets
<1>6. \A i \in NativeOf("call") : i < n
  <2> TAKE i \in NativeOf("call")
  <2>1. i \in 1..n /\ native[i].type = "call"
    BY DEF NativeOf
  <2>2. native[n].type = "drive"
    BY DEF Drives, NativeOf
  <2>3. i # n
    BY <2>1, <2>2
  <2> QED
    BY <2>1, <2>3
<1>7. \A j \in Drives : native[j].floor \in Nat
  BY DriveFacts
<1> PICK at \in [NativeOf("call") -> 1..c], vat \in [Brackets -> 1..c] :
         InCallOrder(at, vat) /\ NamesRunning(at, vat)
  BY DEF Placed
<1>a. PICK vat2 : vat2 = [k \in Brackets' |-> IF k = m + 1 THEN c + 1 ELSE vat[k]]
  OBVIOUS
<1>8. vat2[m + 1] = c + 1 /\ \A k \in Brackets : vat2[k] = vat[k]
  BY <1>2, <1>a
<1>9. at \in [NativeOf("call")' -> 1..(c + 1)] /\ vat2 \in [Brackets' -> 1..(c + 1)]
  <2>1. \A p \in 1..c : p \in 1..(c + 1)
    OBVIOUS
  <2>2. c + 1 \in 1..(c + 1)
    OBVIOUS
  <2>3. \A k \in Brackets' : vat2[k] \in 1..(c + 1)
    BY <1>2, <1>8, <2>1, <2>2
  <2> QED
    BY <1>4, <1>a, <2>1, <2>3
<1>10. \A i \in NativeOf("call"), k \in Brackets : Above(i, k)' <=> Above(i, k)
  BY <1>4, AboveStill
<1>11. \A i \in NativeOf("call") : Above(i, m + 1)'
  <2> TAKE i \in NativeOf("call")
  <2>1. n \in Drives /\ n > i /\ m + 1 > native[n].floor
    BY <1>6, <1>7 DEF Last
  <2> QED
    BY <2>1, <1>4 DEF Above
<1>12. InCallOrder(at, vat2)'
  <2>1. \A p \in 1..(c + 1) : p > b =>
          \/ \E i \in NativeOf("call")' : at[i] = p
          \/ \E k \in Brackets' : vat2[k] = p
    <3> TAKE p \in 1..(c + 1)
    <3> HAVE p > b
    <3>1. CASE p = c + 1
      BY <3>1, <1>2, <1>8
    <3>2. CASE p \in 1..c
      <4>1. \/ \E i \in NativeOf("call") : at[i] = p
            \/ \E k \in Brackets : vat[k] = p
        BY <3>2 DEF InCallOrder
      <4> QED
        BY <4>1, <1>2, <1>4, <1>8
    <3>3. p = c + 1 \/ p \in 1..c
      OBVIOUS
    <3> QED
      BY <3>1, <3>2, <3>3
  <2>2. \A i, j \in NativeOf("call")' : i < j => at[i] < at[j]
    BY <1>4 DEF InCallOrder
  <2>3. \A k, l \in Brackets' : k < l => vat2[k] < vat2[l]
    <3> TAKE k, l \in Brackets'
    <3>1. CASE k = m + 1
      <4>1. \A q \in 1..m : ~(m + 1 < q)
        OBVIOUS
      <4>2. ~(m + 1 < m + 1)
        OBVIOUS
      <4>3. ~(m + 1 < l)
        BY <1>2, <1>5, <4>1, <4>2
      <4> QED
        BY <3>1, <4>3
    <3>2. CASE k \in Brackets /\ l = m + 1
      <4>1. vat[k] \in 1..c
        BY <3>2
      <4>2. vat[k] < c + 1
        BY <4>1
      <4> QED
        BY <3>2, <4>2, <1>8
    <3>3. CASE k \in Brackets /\ l \in Brackets
      BY <3>3, <1>8 DEF InCallOrder
    <3> QED
      BY <3>1, <3>2, <3>3, <1>2
  <2>4. \A i \in NativeOf("call")', k \in Brackets' :
          IF Above(i, k)' THEN at[i] < vat2[k] ELSE vat2[k] < at[i]
    <3> TAKE i \in NativeOf("call")', k \in Brackets'
    <3>1. CASE k = m + 1
      BY <3>1, <1>4, <1>8, <1>11
    <3>2. CASE k \in Brackets
      BY <3>2, <1>4, <1>8, <1>10 DEF InCallOrder
    <3> QED
      BY <3>1, <3>2, <1>2
  <2>5. \A i \in NativeOf("call")' : at[i] > b
    BY <1>f, <1>4 DEF InCallOrder
  <2>6. \A k \in Brackets' : vat2[k] > b
    BY <1>f, <1>2, <1>8 DEF InCallOrder
  <2>7. Len(abandoned') = b
    BY <1>f
  <2> QED
    BY <1>3, <2>1, <2>2, <2>3, <2>4, <2>5, <2>6, <2>7 DEF InCallOrder
<1>13. ASSUME NEW j \in Drives, native[j].floor < Len(vm'),
              vm'[native[j].floor + 1].type = "entry"
       PROVE  /\ native[j].floor < m
              /\ vm'[native[j].floor + 1] = vm[native[j].floor + 1]
  <2>1. native[j].floor \in Nat
    BY <1>7
  <2>2. native[j].floor # m
    BY <1>1, <1>13
  <2>3. native[j].floor + 1 \in 1..m
    BY <1>1, <1>13, <2>1, <2>2
  <2>4. native[j].floor < m
    BY <2>1, <2>3
  <2>5. vm'[native[j].floor + 1] = vm[native[j].floor + 1]
    BY <1>1, <2>3
  <2> QED
    BY <2>4, <2>5
<1>14. ASSUME NEW i \in NativeOf("call")'
       PROVE  LET a == native'[i]
                  e == callStack'[at[i]]
              IN  /\ e \in Modules <=> a.handle.decl \in Modules
                  /\ ~crossed' => e = a.handle.decl
                  /\ ~a.started \/ a.decl \notin Compiled => e = a.decl
                  /\ \A j \in Drives' :
                       j = i + 1 /\ native'[j].floor < Len(vm')
                         /\ vm'[native'[j].floor + 1].type = "entry"
                       => e = vm'[native'[j].floor + 1].decl
  <2>1. LET a == native[i]
            e == callStack[at[i]]
        IN  /\ e \in Modules <=> a.handle.decl \in Modules
            /\ ~crossed => e = a.handle.decl
            /\ ~a.started \/ a.decl \notin Compiled => e = a.decl
            /\ \A j \in Drives :
                 j = i + 1 /\ native[j].floor < Len(vm)
                   /\ vm[native[j].floor + 1].type = "entry"
                 => e = vm[native[j].floor + 1].decl
    BY <1>4 DEF NamesRunning
  <2>2. callStack'[at[i]] = callStack[at[i]]
    BY <1>3, <1>4
  <2> QED
    BY <2>1, <2>2, <1>3, <1>4, <1>13
<1>15. ASSUME NEW k \in Brackets'
       PROVE  /\ callStack'[vat2[k]] = vm'[k].decl
              /\ ~crossed' => callStack'[vat2[k]] = vm'[k].handle.decl
  <2>1. CASE k = m + 1
    BY <2>1, <1>1, <1>3, <1>8
  <2>2. CASE k \in Brackets
    <3>1. callStack'[vat2[k]] = callStack[vat[k]]
      BY <2>2, <1>3, <1>8
    <3> QED
      BY <2>2, <3>1, <1>2, <1>3 DEF NamesRunning
  <2> QED
    BY <2>1, <2>2, <1>2
<1>16. NamesRunning(at, vat2)'
  BY <1>14, <1>15 DEF NamesRunning
<1>17. Len(callStack') = c + 1
  BY <1>3
<1> QED
  BY <1>9, <1>12, <1>16, <1>17 DEF Placed

(* Its end, with or without that of its driver.                            *)
LEMMA PlacedUnbracket ==
  ASSUME Shapes, DrivesNested, Placed, Counted,
         vm # <<>>, Last(vm).handle # NoHandle,
         ExitUserCall(Last(vm).handle), vm' = Front(vm),
         Len(native) \in Drives, Last(native).floor < Len(vm),
         NativeOf("call")' = NativeOf("call"),
         \A i \in NativeOf("call") : native'[i] = native[i],
         Drives' \subseteq Drives,
         \A j \in Drives' : native'[j] = native[j],
         \A j \in Drives : j \notin Drives' => native[j].floor >= Len(vm')
  PROVE  Placed'
<1>0. native \in Seq(Activations) /\ vm \in Seq(VmFrames) /\ callStack \in Seq(Decl)
  BY DEF Shapes
<1> PICK n \in Nat : n = Len(native)
  BY <1>0
<1> PICK m \in Nat : m = Len(vm)
  BY <1>0
<1> PICK c \in Nat : c = Len(callStack)
  BY <1>0
<1>1. /\ m # 0
      /\ Last(vm) \in VmFrames
      /\ Len(vm') = m - 1
      /\ \A k \in 1..(m - 1) : vm'[k] = vm[k]
  BY PoppedFrames
<1>2. /\ Brackets' = Brackets \ {m}
      /\ m \in Brackets
      /\ \A k \in Brackets' : vm'[k] = vm[k]
  BY BracketsPopped
<1>3. callStack # <<>> /\ Last(vm).handle.decl \in Decl
  <2>1. Last(vm).handle \in [decl : Decl \cup {NoDecl}, counted : {FALSE}]
    BY <1>1 DEF VmFrames
  <2>2. Last(vm).handle.decl \in Decl
    BY <2>1 DEF NoHandle, Handle
  <2> QED
    BY <1>2, <2>2, InsideCall
<1>4. /\ Len(callStack') = c - 1 /\ c # 0
      /\ \A p \in 1..(c - 1) : callStack'[p] = callStack[p]
      /\ crossed' = crossed
  BY <1>3, LeftCall
<1>f. abandoned' = abandoned /\ Len(abandoned) \in Nat
  BY AbandonedFit DEF ExitUserCall
<1> PICK b \in Nat : b = Len(abandoned)
  BY <1>f
<1>5. \A k \in Brackets : k \in 1..m
  BY DEF Brackets
<1>6. \A i \in NativeOf("call") : i < n
  <2> TAKE i \in NativeOf("call")
  <2>1. i \in 1..n /\ native[i].type = "call"
    BY DEF NativeOf
  <2>2. native[n].type = "drive"
    BY DEF Drives, NativeOf
  <2>3. i # n
    BY <2>1, <2>2
  <2> QED
    BY <2>1, <2>3
<1>7. \A j \in Drives : native[j].floor \in Nat
  BY DriveFacts
<1>8. \A k \in Brackets' : k \in Brackets /\ k \in 1..(m - 1)
  <2> TAKE k \in Brackets'
  <2>1. k \in 1..m /\ k # m /\ k \in Brackets
    BY <1>2, <1>5
  <2> QED
    BY <2>1
<1> PICK at \in [NativeOf("call") -> 1..c], vat \in [Brackets -> 1..c] :
         InCallOrder(at, vat) /\ NamesRunning(at, vat)
  BY DEF Placed
<1>9. \A i \in NativeOf("call") : Above(i, m)
  <2> TAKE i \in NativeOf("call")
  <2>1. n \in Drives /\ n > i /\ m > native[n].floor
    BY <1>6, <1>7 DEF Last
  <2> QED
    BY <2>1 DEF Above
<1>10. vat[m] = c
  <2>1. \A l \in Brackets : l <= m
    BY <1>5
  <2> QED
    BY <1>2, <1>9, <2>1, TopBracket
<1>11. \A i \in NativeOf("call") : at[i] \in 1..(c - 1)
  <2> TAKE i \in NativeOf("call")
  <2>1. at[i] \in 1..c /\ at[i] < c
    BY <1>2, <1>9, <1>10 DEF InCallOrder
  <2> QED
    BY <2>1
<1>12. \A k \in Brackets' : vat[k] \in 1..(c - 1)
  <2> TAKE k \in Brackets'
  <2>1. k < m
    BY <1>8
  <2>2. vat[k] \in 1..c /\ vat[k] < c
    BY <1>2, <1>8, <1>10, <2>1 DEF InCallOrder
  <2> QED
    BY <2>2
<1>a. PICK vat2 : vat2 = [k \in Brackets' |-> vat[k]]
  OBVIOUS
<1>13. at \in [NativeOf("call")' -> 1..(c - 1)] /\ vat2 \in [Brackets' -> 1..(c - 1)]
  BY <1>a, <1>11, <1>12
<1>14. \A k \in Brackets' : vat2[k] = vat[k]
  BY <1>a
<1>15. \A i \in NativeOf("call"), k \in Brackets' : Above(i, k)' <=> Above(i, k)
  <2> TAKE i \in NativeOf("call"), k \in Brackets'
  <2>1. \A j \in Drives : j \notin Drives' => ~(k > native[j].floor)
    BY <1>1, <1>7, <1>8
  <2> QED
    BY <2>1, AboveStill
<1>16. InCallOrder(at, vat2)'
  <2>1. \A p \in 1..(c - 1) : p > b =>
          \/ \E i \in NativeOf("call")' : at[i] = p
          \/ \E k \in Brackets' : vat2[k] = p
    <3> TAKE p \in 1..(c - 1)
    <3> HAVE p > b
    <3>1. p \in 1..c /\ p # c
      OBVIOUS
    <3>2. \/ \E i \in NativeOf("call") : at[i] = p
          \/ \E k \in Brackets : vat[k] = p
      BY <3>1 DEF InCallOrder
    <3> QED
      BY <3>1, <3>2, <1>2, <1>10, <1>14
  <2>2. \A i, j \in NativeOf("call")' : i < j => at[i] < at[j]
    BY DEF InCallOrder
  <2>3. \A k, l \in Brackets' : k < l => vat2[k] < vat2[l]
    BY <1>8, <1>14 DEF InCallOrder
  <2>4. \A i \in NativeOf("call")', k \in Brackets' :
          IF Above(i, k)' THEN at[i] < vat2[k] ELSE vat2[k] < at[i]
    BY <1>8, <1>14, <1>15 DEF InCallOrder
  <2>5. \A i \in NativeOf("call")' : at[i] > b
    BY <1>4 DEF InCallOrder
  <2>6. \A k \in Brackets' : vat2[k] > b
    BY <1>8, <1>14 DEF InCallOrder
  <2>7. Len(abandoned') = b
    BY <1>f
  <2> QED
    BY <1>4, <2>1, <2>2, <2>3, <2>4, <2>5, <2>6, <2>7 DEF InCallOrder
<1>17. ASSUME NEW j \in Drives', native'[j].floor < Len(vm'),
              vm'[native'[j].floor + 1].type = "entry"
       PROVE  /\ j \in Drives /\ native[j].floor < m
              /\ native'[j].floor = native[j].floor
              /\ vm'[native'[j].floor + 1] = vm[native[j].floor + 1]
  <2>1. native[j].floor \in Nat /\ native'[j].floor = native[j].floor
    BY <1>7
  <2>2. native[j].floor + 1 \in 1..(m - 1)
    BY <1>1, <1>17, <2>1
  <2>3. native[j].floor < m
    BY <2>1, <2>2
  <2> QED
    BY <1>1, <2>1, <2>2, <2>3
<1>18. ASSUME NEW i \in NativeOf("call")'
       PROVE  LET a == native'[i]
                  e == callStack'[at[i]]
              IN  /\ e \in Modules <=> a.handle.decl \in Modules
                  /\ ~crossed' => e = a.handle.decl
                  /\ ~a.started \/ a.decl \notin Compiled => e = a.decl
                  /\ \A j \in Drives' :
                       j = i + 1 /\ native'[j].floor < Len(vm')
                         /\ vm'[native'[j].floor + 1].type = "entry"
                       => e = vm'[native'[j].floor + 1].decl
  <2>1. LET a == native[i]
            e == callStack[at[i]]
        IN  /\ e \in Modules <=> a.handle.decl \in Modules
            /\ ~crossed => e = a.handle.decl
            /\ ~a.started \/ a.decl \notin Compiled => e = a.decl
            /\ \A j \in Drives :
                 j = i + 1 /\ native[j].floor < Len(vm)
                   /\ vm[native[j].floor + 1].type = "entry"
                 => e = vm[native[j].floor + 1].decl
    BY DEF NamesRunning
  <2>2. callStack'[at[i]] = callStack[at[i]] /\ native'[i] = native[i]
    BY <1>4, <1>11
  <2>3. ASSUME NEW j \in Drives', j = i + 1, native'[j].floor < Len(vm'),
               vm'[native'[j].floor + 1].type = "entry"
        PROVE  callStack[at[i]] = vm'[native'[j].floor + 1].decl
    <3>1. /\ j \in Drives /\ native[j].floor < Len(vm)
          /\ native'[j].floor = native[j].floor
          /\ vm'[native'[j].floor + 1] = vm[native[j].floor + 1]
      BY <2>3, <1>17
    <3> QED
      BY <2>1, <2>3, <3>1
  <2>4. LET a == native'[i]
            e == callStack'[at[i]]
        IN  /\ e \in Modules <=> a.handle.decl \in Modules
            /\ ~crossed' => e = a.handle.decl
            /\ ~a.started \/ a.decl \notin Compiled => e = a.decl
    BY <1>4, <2>1, <2>2
  <2>5. \A j \in Drives' :
          j = i + 1 /\ native'[j].floor < Len(vm')
            /\ vm'[native'[j].floor + 1].type = "entry"
          => callStack'[at[i]] = vm'[native'[j].floor + 1].decl
    BY <2>2, <2>3
  <2> QED
    BY <2>4, <2>5
<1>19. ASSUME NEW k \in Brackets'
       PROVE  /\ callStack'[vat2[k]] = vm'[k].decl
              /\ ~crossed' => callStack'[vat2[k]] = vm'[k].handle.decl
  <2>1. callStack'[vat2[k]] = callStack[vat[k]]
    BY <1>4, <1>12, <1>14
  <2> QED
    BY <2>1, <1>2, <1>4, <1>8 DEF NamesRunning
<1>20. NamesRunning(at, vat2)'
  BY <1>18, <1>19 DEF NamesRunning
<1>21. Len(callStack') = c - 1
  BY <1>4
<1> QED
  BY <1>13, <1>16, <1>20, <1>21 DEF Placed

(* The places when a driver starts.                                        *)
LEMMA StartedPlaces ==
  ASSUME Shapes, Running, NEW f \in VmFrames, FrameOK(f), NEW below,
         \/ below = native
         \/ /\ Last(native).type = "call"
            /\ \E c \in Activations : c.type = "call" /\ below = SetLast(native, c),
         DriveVm(below, f), NEW t
  PROVE  /\ NativeOf(t)' = IF t = "drive" THEN NativeOf(t) \cup {Len(native) + 1}
                                          ELSE NativeOf(t)
         /\ Len(native) + 1 \notin NativeOf(t)
         /\ native'[Len(native) + 1] = Drive(Len(vm))
         /\ \A i \in NativeOf(t) : i # Len(native) => native'[i] = native[i]
         /\ native'[Len(native)] = Last(below)
<1>0. native \in Seq(Activations) /\ native # <<>>
  BY DEF Shapes, Running
<1> PICK n \in Nat : n = Len(native)
  BY <1>0
<1>1. /\ n # 0
      /\ Len(native') = n + 1
      /\ native'[n + 1] = Drive(Len(vm))
      /\ native'[n] = Last(below)
      /\ \A i \in 1..(n - 1) : native'[i] = native[i]
  BY ShapesDriver DEF Top
<1>2. Last(below).type = Last(native).type
  <2>1. ASSUME NEW c \in Activations, c.type = "call", below = SetLast(native, c)
        PROVE  Last(below).type = "call"
    <3>1. Last(SetLast(native, c)) = c
      BY <1>0, LastOfSetLast, Zenon
    <3> QED
      BY <2>1, <3>1
  <2> QED
    BY <2>1
<1>3. ASSUME NEW i \in 1..n
      PROVE  /\ native'[i].type = native[i].type
             /\ i # n => native'[i] = native[i]
  <2>1. CASE i = n
    BY <2>1, <1>1, <1>2 DEF Last
  <2>2. CASE i # n
    <3>1. i \in 1..(n - 1)
      BY <2>2
    <3> QED
      BY <3>1, <2>2, <1>1
  <2> QED
    BY <2>1, <2>2
<1>4. native'[n + 1].type = "drive"
  BY <1>1 DEF Drive
<1>5. \A i \in 1..(n + 1) : i \in 1..n \/ i = n + 1
  OBVIOUS
<1>6. \A i \in 1..n : i \in 1..(n + 1) /\ i # n + 1
  OBVIOUS
<1>7. n + 1 \in 1..(n + 1)
  OBVIOUS
<1>8. NativeOf(t)' = {i \in 1..(n + 1) : native'[i].type = t}
  BY <1>1 DEF NativeOf
<1>9. NativeOf(t)' = IF t = "drive" THEN NativeOf(t) \cup {n + 1} ELSE NativeOf(t)
  BY <1>3, <1>4, <1>5, <1>6, <1>7, <1>8 DEF NativeOf
<1>10. n + 1 \notin NativeOf(t)
  BY <1>6 DEF NativeOf
<1> QED
  BY <1>1, <1>3, <1>9, <1>10 DEF NativeOf

(* The frame a driver starts with is no call of its own.                   *)
LEMMA PlacedStart ==
  ASSUME Shapes, DrivesNested, Placed, Running,
         NEW f \in VmFrames, FrameOK(f), f.handle = NoHandle, NEW below,
         \/ below = native
         \/ /\ Last(native).type = "call"
            /\ \E c \in Activations :
                 /\ c.type = "call" /\ below = SetLast(native, c)
                 /\ c.decl = Last(native).decl /\ c.handle = Last(native).handle
                 /\ c.started,
         f.type = "entry" => /\ Last(native).type = "call"
                             /\ ~Last(native).started
                             /\ f.decl = Last(native).decl,
         DriveVm(below, f)
  PROVE  Placed'
<1>0. native \in Seq(Activations) /\ vm \in Seq(VmFrames) /\ native # <<>>
  BY DEF Shapes, Running
<1> PICK n \in Nat : n = Len(native)
  BY <1>0
<1> PICK m \in Nat : m = Len(vm)
  BY <1>0
<1>c. /\ NativeOf("call")' = NativeOf("call")
      /\ \A i \in NativeOf("call") : i # n => native'[i] = native[i]
      /\ native'[n + 1].floor = m
      /\ native'[n] = Last(below)
  BY StartedPlaces DEF Drive
<1>d. /\ Drives' = Drives \cup {n + 1}
      /\ \A i \in Drives : i # n => native'[i] = native[i]
      /\ n + 1 \notin Drives
  BY StartedPlaces DEF Drives
<1>l. \/ Last(below) = Last(native)
      \/ /\ Last(native).type = "call"
         /\ Last(below).decl = Last(native).decl
         /\ Last(below).handle = Last(native).handle
         /\ Last(below).started
  <2>1. ASSUME NEW c \in Activations, below = SetLast(native, c)
        PROVE  Last(below) = c
    <3>1. Last(SetLast(native, c)) = c
      BY <1>0, LastOfSetLast, Zenon
    <3> QED
      BY <2>1, <3>1
  <2> QED
    BY <2>1
<1>1. \A i \in NativeOf("call") :
        /\ native'[i].handle = native[i].handle
        /\ native'[i].decl = native[i].decl
        /\ native[i].started => native'[i].started
  <2> TAKE i \in NativeOf("call")
  <2>1. CASE i = n
    BY <2>1, <1>c, <1>l DEF Last
  <2>2. CASE i # n
    BY <2>2, <1>c
  <2> QED
    BY <2>1, <2>2
<1>2. /\ Len(vm') = m + 1
      /\ vm'[m + 1] = f
      /\ \A k \in 1..m : vm'[k] = vm[k]
  BY PushedVm DEF DriveVm
<1>3. /\ Brackets' = Brackets
      /\ \A k \in Brackets : vm'[k] = vm[k]
  BY BracketsPushed DEF DriveVm
<1>4. \A j \in Drives : native'[j] = native[j]
  <2> TAKE j \in Drives
  <2>1. CASE j = n
    <3>1. Last(native).type = "drive"
      BY <2>1 DEF Drives, NativeOf, Last
    <3> QED
      BY <3>1, <2>1, <1>c, <1>l DEF Last
  <2> QED
    BY <2>1, <1>d
<1>5. \A j \in Drives : native[j].floor \in Nat
  BY DriveFacts
<1>6. ASSUME NEW i \in NativeOf("call"), NEW k \in Brackets
      PROVE  Above(i, k)' <=> Above(i, k)
  <2>1. ~(k > native'[n + 1].floor)
    BY <1>c DEF Brackets
  <2> QED
    BY <2>1, <1>d, <1>4, AboveStill
<1>7. ASSUME NEW i \in NativeOf("call"), NEW j \in Drives', j = i + 1,
             native'[j].floor < Len(vm'), vm'[native'[j].floor + 1].type = "entry"
      PROVE  LET e == vm'[native'[j].floor + 1] IN
             \/ ~native[i].started /\ e.decl = native[i].decl
             \/ /\ j \in Drives /\ native[j].floor < Len(vm)
                /\ vm[native[j].floor + 1].type = "entry"
                /\ e.decl = vm[native[j].floor + 1].decl
  <2>0. i \in 1..n
    BY PlaceFacts
  <2>1. CASE j = n + 1
    <3>1. i = n /\ native'[j].floor + 1 = m + 1
      BY <2>0, <2>1, <1>7, <1>c
    <3> QED
      BY <3>1, <1>2, <1>7 DEF Last
  <2>2. CASE j \in Drives
    <3>1. native'[j] = native[j] /\ native[j].floor \in Nat
      BY <2>2, <1>4, <1>5
    <3>2. native[j].floor < m
      BY <2>2 DEF DrivesNested
    <3>3. native[j].floor + 1 \in 1..m
      BY <3>1, <3>2
    <3>4. vm'[native[j].floor + 1] = vm[native[j].floor + 1]
      BY <3>3, <1>2
    <3> QED
      BY <2>2, <3>1, <3>2, <3>4, <1>7
  <2> QED
    BY <2>1, <2>2, <1>d
<1>8. UNCHANGED <<callStack, crossed, abandoned>>
  BY DEF DriveVm, calls
<1> QED
  BY <1>c, <1>1, <1>3, <1>6, <1>7, <1>8, PlacedStill

(* A native tail call takes the last place over.                           *)
LEMMA PlacedNativeHop ==
  ASSUME Shapes, DrivesNested, Placed, Counted, NEW d \in Decl, NativeHopped(d)
  PROVE  Placed'
<1> DEFINE old == Last(native)
           h == [old EXCEPT !.decl = d, !.hops = @ + 1]
<1>0. native \in Seq(Activations) /\ callStack \in Seq(Decl)
  BY DEF Shapes
<1> PICK n \in Nat : n = Len(native)
  BY <1>0
<1> PICK c \in Nat : c = Len(callStack)
  BY <1>0
<1>1. /\ Running /\ native # <<>>
      /\ old \in Activations /\ old.type = "call" /\ old.decl \notin Compiled
      /\ h \in Activations /\ h.type = "call"
      /\ h.decl = d /\ h.handle = old.handle /\ h.started = old.started
      /\ native' = SetLast(native, h)
      /\ callStack # <<>>
      /\ n \in NativeOf("call")
  BY NativeHop
<1> HIDE DEF h
<1>2. /\ old.decl \in Functions /\ d \in Functions
      /\ vm' = vm /\ RecordTailCallHop(d)
  BY DEF NativeHopped, WalksFunction
<1> HIDE DEF old
<1>3. /\ Len(native') = n /\ n # 0
      /\ native'[n] = h
      /\ \A i \in 1..(n - 1) : native'[i] = native[i]
  BY <1>1, ChangedNative DEF old
<1>4. NativeOf("call")' = NativeOf("call") /\ Drives' = Drives
  BY <1>1, PlacesChanged DEF old, Drives
<1>5. /\ Len(callStack') = c /\ c # 0
      /\ callStack'[c] = d
      /\ \A p \in 1..(c - 1) : callStack'[p] = callStack[p]
      /\ ~crossed' => ~crossed /\ d = callStack[c]
  BY <1>1, <1>2, HoppedCall DEF Last
<1>6. Brackets' = Brackets
  BY <1>2 DEF Brackets
<1>7. \A i \in NativeOf("call") : i \in 1..n
  BY PlaceFacts
<1>8. \A j \in Drives : j \in 1..(n - 1)
  <2> TAKE j \in Drives
  <2>1. j \in 1..n /\ native[j].type = "drive"
    BY PlaceFacts DEF Drives
  <2>2. native[n].type = "call"
    BY <1>1 DEF NativeOf
  <2>3. j # n
    BY <2>1, <2>2
  <2> QED
    BY <2>1, <2>3
<1>9. \A j \in Drives : native'[j] = native[j]
  BY <1>3, <1>8
<1> PICK at \in [NativeOf("call") -> 1..c], vat \in [Brackets -> 1..c] :
         InCallOrder(at, vat) /\ NamesRunning(at, vat)
  BY DEF Placed
<1>10. \A k \in Brackets : ~Above(n, k)
  BY <1>8 DEF Above
<1>11. at[n] = c
  <2>1. \A i \in NativeOf("call") : i <= n
    BY <1>7
  <2> QED
    BY <1>1, <1>10, <2>1, TopNative
<1>12. \A i \in NativeOf("call") : i # n => i \in 1..(n - 1) /\ at[i] \in 1..(c - 1)
  <2> TAKE i \in NativeOf("call")
  <2> HAVE i # n
  <2>1. i \in 1..(n - 1) /\ i < n
    BY <1>7
  <2>2. at[i] \in 1..c /\ at[i] < c
    BY <1>1, <1>11, <2>1 DEF InCallOrder
  <2> QED
    BY <2>1, <2>2
<1>13. \A k \in Brackets : vat[k] \in 1..(c - 1)
  <2> TAKE k \in Brackets
  <2>1. vat[k] \in 1..c /\ vat[k] < c
    BY <1>1, <1>10, <1>11 DEF InCallOrder
  <2> QED
    BY <2>1
<1>14. \A i \in NativeOf("call"), k \in Brackets : Above(i, k)' <=> Above(i, k)
  BY <1>4, <1>9, AboveStill
<1>15. InCallOrder(at, vat)'
  <2>1. abandoned' = abandoned
    BY <1>2 DEF RecordTailCallHop
  <2> QED
    BY <1>4, <1>5, <1>6, <1>14, <2>1, OrderStill
<1>16. ASSUME NEW i \in NativeOf("call")'
       PROVE  LET a == native'[i]
                  e == callStack'[at[i]]
              IN  /\ e \in Modules <=> a.handle.decl \in Modules
                  /\ ~crossed' => e = a.handle.decl
                  /\ ~a.started \/ a.decl \notin Compiled => e = a.decl
                  /\ \A j \in Drives' :
                       j = i + 1 /\ native'[j].floor < Len(vm')
                         /\ vm'[native'[j].floor + 1].type = "entry"
                       => e = vm'[native'[j].floor + 1].decl
  <2>1. LET a == native[i]
            e == callStack[at[i]]
        IN  /\ e \in Modules <=> a.handle.decl \in Modules
            /\ ~crossed => e = a.handle.decl
            /\ ~a.started \/ a.decl \notin Compiled => e = a.decl
            /\ \A j \in Drives :
                 j = i + 1 /\ native[j].floor < Len(vm)
                   /\ vm[native[j].floor + 1].type = "entry"
                 => e = vm[native[j].floor + 1].decl
    BY <1>4 DEF NamesRunning
  <2>2. CASE i = n
    <3>1. native[n] = old
      BY DEF old, Last
    <3>2. callStack[c] = old.decl /\ (old.handle.decl \in Modules <=> old.decl \in Modules)
      BY <2>1, <2>2, <3>1, <1>1, <1>11
    <3>3. d \notin Modules /\ old.decl \notin Modules
      BY <1>2, CallsAssumption
    <3>4. ~crossed' => d = old.handle.decl
      BY <2>1, <2>2, <3>1, <1>5, <1>11
    <3>5. \A j \in Drives' : j # i + 1
      BY <2>2, <1>4, <1>8
    <3> QED
      BY <2>2, <3>2, <3>3, <3>4, <3>5, <1>1, <1>3, <1>5, <1>11
  <2>3. CASE i # n
    <3>1. native'[i] = native[i] /\ callStack'[at[i]] = callStack[at[i]]
      BY <2>3, <1>3, <1>4, <1>5, <1>12
    <3> QED
      BY <2>1, <3>1, <1>2, <1>4, <1>5, <1>9
  <2> QED
    BY <2>2, <2>3
<1>17. ASSUME NEW k \in Brackets'
       PROVE  /\ callStack'[vat[k]] = vm'[k].decl
              /\ ~crossed' => callStack'[vat[k]] = vm'[k].handle.decl
  <2>1. callStack'[vat[k]] = callStack[vat[k]]
    BY <1>5, <1>6, <1>13
  <2> QED
    BY <2>1, <1>2, <1>5, <1>6 DEF NamesRunning
<1>18. NamesRunning(at, vat)'
  BY <1>16, <1>17 DEF NamesRunning
<1>19. Len(callStack') = c
  BY <1>5
<1> QED
  BY <1>4, <1>6, <1>15, <1>18, <1>19 DEF Placed

(* So does one of the VM, from a frame of its own or from the frame its    *)
(* native call started with.                                               *)
LEMMA PlacedFrameHop ==
  ASSUME Shapes, DrivesNested, Placed, Counted, NEW d \in Decl, FrameHopped(d)
  PROVE  Placed'
<1> DEFINE old == Last(vm)
           h == [old EXCEPT !.decl = d, !.hops = @ + 1]
<1>0. native \in Seq(Activations) /\ vm \in Seq(VmFrames) /\ callStack \in Seq(Decl)
  BY DEF Shapes
<1> PICK n \in Nat : n = Len(native)
  BY <1>0
<1> PICK m \in Nat : m = Len(vm)
  BY <1>0
<1> PICK c \in Nat : c = Len(callStack)
  BY <1>0
<1>1. /\ vm # <<>> /\ FrameOK(old)
      /\ old.type \in {"function", "entry"}
      /\ h \in VmFrames /\ FrameOK(h)
      /\ h.type = old.type /\ h.decl = d /\ h.handle = old.handle
      /\ vm' = SetLast(vm, h)
      /\ callStack # <<>>
      /\ Last(native).floor < m
      /\ n \in Drives
  BY FrameHop
<1> HIDE DEF h
<1>2. native' = native /\ RecordTailCallHop(d) /\ d \in Functions
  BY DEF FrameHopped
<1>e. old = vm[m]
  BY DEF Last
<1>3. /\ Brackets' = Brackets
      /\ \A k \in 1..m : k # m => vm'[k] = vm[k]
      /\ vm'[m] = h
      /\ Len(vm') = m /\ m # 0
  BY <1>1, BracketsChanged
<1> HIDE DEF old
<1>4. NativeOf("call")' = NativeOf("call") /\ Drives' = Drives
  BY <1>2 DEF NativeOf, Drives
<1>5. /\ Len(callStack') = c /\ c # 0
      /\ callStack'[c] = d
      /\ \A p \in 1..(c - 1) : callStack'[p] = callStack[p]
      /\ ~crossed' => ~crossed /\ d = callStack[c]
  BY <1>1, <1>2, HoppedCall DEF Last
<1>6. \A i \in NativeOf("call") : i \in 1..n /\ i < n
  <2> TAKE i \in NativeOf("call")
  <2>1. i \in 1..n /\ native[i].type = "call"
    BY DEF NativeOf
  <2>2. native[n].type = "drive"
    BY <1>1 DEF Drives, NativeOf
  <2>3. i # n
    BY <2>1, <2>2
  <2> QED
    BY <2>1, <2>3
<1>7. \A j \in Drives : j \in 1..n /\ native[j].floor \in Nat
  BY DriveFacts
<1>8. \A k \in Brackets : k \in 1..m
  BY DEF Brackets
<1>9. native[n].floor < m
  BY <1>1 DEF Last
<1>10. \A j \in Drives : j # n => native[j].floor < native[n].floor
  <2> TAKE j \in Drives
  <2>1. j # n => j < n
    BY <1>7
  <2> QED
    BY <2>1, <1>1 DEF DrivesNested
<1> PICK at \in [NativeOf("call") -> 1..c], vat \in [Brackets -> 1..c] :
         InCallOrder(at, vat) /\ NamesRunning(at, vat)
  BY DEF Placed
<1>11. \A i \in NativeOf("call"), k \in Brackets : Above(i, k)' <=> Above(i, k)
  BY <1>2, <1>4, AboveStill
<1>12. InCallOrder(at, vat)'
  <2>1. abandoned' = abandoned
    BY <1>2 DEF RecordTailCallHop
  <2> QED
    BY <1>3, <1>4, <1>5, <1>11, <2>1, OrderStill
<1>13. ASSUME NEW i \in NativeOf("call")
       PROVE  LET a == native[i]
                  e == callStack[at[i]]
              IN  /\ e \in Modules <=> a.handle.decl \in Modules
                  /\ ~crossed => e = a.handle.decl
                  /\ ~a.started \/ a.decl \notin Compiled => e = a.decl
                  /\ \A j \in Drives :
                       j = i + 1 /\ native[j].floor < m
                         /\ vm[native[j].floor + 1].type = "entry"
                       => e = vm[native[j].floor + 1].decl
  BY DEF NamesRunning
<1>14. \A k \in Brackets : /\ callStack[vat[k]] = vm[k].decl
                           /\ ~crossed => callStack[vat[k]] = vm[k].handle.decl
  BY DEF NamesRunning
<1>15. ASSUME NEW j \in Drives, native[j].floor # m - 1
       PROVE  native[j].floor < m - 1 /\ vm'[native[j].floor + 1] = vm[native[j].floor + 1]
  <2>1. native[j].floor < m
    <3>1. native[j].floor \in Nat /\ native[n].floor \in Nat
      BY <1>1, <1>7
    <3> QED
      BY <3>1, <1>9, <1>10
  <2>2. native[j].floor \in Nat
    BY <1>7
  <2>3. native[j].floor + 1 \in 1..m /\ native[j].floor + 1 # m
    BY <2>1, <2>2, <1>15
  <2> QED
    BY <2>1, <2>2, <2>3, <1>3, <1>15
<1>16. CASE old.type = "function"
  <2>1. m \in Brackets /\ old.handle # NoHandle
    BY <1>1, <1>3, <1>16, <1>e DEF FrameOK, Brackets
  <2>2. \A i \in NativeOf("call") : Above(i, m)
    <3> TAKE i \in NativeOf("call")
    <3>1. n \in Drives /\ n > i /\ m > native[n].floor
      BY <1>1, <1>6, <1>7, <1>9
    <3> QED
      BY <3>1 DEF Above
  <2>3. vat[m] = c
    <3>1. \A l \in Brackets : l <= m
      BY <1>8
    <3> QED
      BY <2>1, <2>2, <3>1, TopBracket
  <2>4. \A i \in NativeOf("call") : at[i] \in 1..(c - 1)
    <3> TAKE i \in NativeOf("call")
    <3>1. at[i] \in 1..c /\ at[i] < c
      BY <2>1, <2>2, <2>3 DEF InCallOrder
    <3> QED
      BY <3>1
  <2>5. \A k \in Brackets : k # m => vat[k] \in 1..(c - 1)
    <3> TAKE k \in Brackets
    <3> HAVE k # m
    <3>1. k < m
      BY <1>8
    <3>2. vat[k] \in 1..c /\ vat[k] < c
      BY <2>1, <2>3, <3>1 DEF InCallOrder
    <3> QED
      BY <3>2
  <2>6. ASSUME NEW i \in NativeOf("call")'
        PROVE  LET a == native'[i]
                   e == callStack'[at[i]]
               IN  /\ e \in Modules <=> a.handle.decl \in Modules
                   /\ ~crossed' => e = a.handle.decl
                   /\ ~a.started \/ a.decl \notin Compiled => e = a.decl
                   /\ \A j \in Drives' :
                        j = i + 1 /\ native'[j].floor < Len(vm')
                          /\ vm'[native'[j].floor + 1].type = "entry"
                        => e = vm'[native'[j].floor + 1].decl
    <3>0. i \in NativeOf("call")
      BY <1>4
    <3>1. callStack'[at[i]] = callStack[at[i]]
      BY <3>0, <1>5, <2>4
    <3>2. ASSUME NEW j \in Drives, vm'[native[j].floor + 1].type = "entry"
          PROVE  vm'[native[j].floor + 1] = vm[native[j].floor + 1]
      <4>1. native[j].floor # m - 1
        <5>1. native[j].floor = m - 1 => native[j].floor + 1 = m
          BY <1>7
        <5> QED
          BY <5>1, <3>2, <1>1, <1>3, <1>16
      <4> QED
        BY <4>1, <1>15
    <3> QED
      BY <3>0, <3>1, <3>2, <1>2, <1>3, <1>4, <1>5, <1>13
  <2>7. ASSUME NEW k \in Brackets'
        PROVE  /\ callStack'[vat[k]] = vm'[k].decl
               /\ ~crossed' => callStack'[vat[k]] = vm'[k].handle.decl
    <3>1. CASE k = m
      <4>1. ~crossed => callStack[c] = old.handle.decl
        BY <1>14, <2>1, <2>3, <1>e
      <4> QED
        BY <3>1, <4>1, <2>3, <1>1, <1>3, <1>5
    <3>2. CASE k # m
      <4>1. callStack'[vat[k]] = callStack[vat[k]]
        BY <3>2, <1>3, <1>5, <2>5
      <4>2. vm'[k] = vm[k]
        BY <3>2, <1>3, <1>8
      <4> QED
        BY <4>1, <4>2, <1>3, <1>5, <1>14
    <3> QED
      BY <3>1, <3>2
  <2>8. NamesRunning(at, vat)'
    BY <2>6, <2>7 DEF NamesRunning
  <2> QED
    BY <1>3, <1>4, <1>5, <1>12, <2>8 DEF Placed
<1>17. CASE old.type = "entry"
  <2>1. /\ m \notin Brackets
        /\ old.decl \in Functions
    BY <1>1, <1>17, <1>e DEF FrameOK, Brackets
  <2>2. /\ n > 1 /\ native[n].floor = m - 1
        /\ native[n - 1].type = "call"
        /\ native[n - 1].started
        /\ native[n - 1].decl \in Compiled
    <3>1. m \in 1..m
      BY <1>3
    <3>2. PICK j \in Drives :
            /\ j > 1 /\ native[j].floor = m - 1
            /\ native[j - 1].type = "call"
            /\ native[j - 1].started
            /\ native[j - 1].decl \in Compiled
      BY <3>1, <1>17, <1>e DEF DrivesNested
    <3>3. j = n
      <4>1. native[n].floor \in Nat
        BY <1>1, <1>7
      <4> QED
        BY <3>2, <4>1, <1>9, <1>10
    <3> QED
      BY <3>2, <3>3
  <2>3. n - 1 \in NativeOf("call") /\ n - 1 + 1 = n
    BY <2>2 DEF NativeOf
  <2>4. \A k \in Brackets : ~Above(n - 1, k)
    <3> TAKE k \in Brackets
    <3>1. ASSUME NEW j \in Drives, j > n - 1, k > native[j].floor PROVE FALSE
      <4>1. j = n
        BY <3>1, <1>7
      <4>2. k \in 1..m /\ k # m
        BY <2>1, <1>8
      <4> QED
        BY <3>1, <4>1, <4>2, <2>2
    <3> QED
      BY <3>1 DEF Above
  <2>5. at[n - 1] = c
    <3>1. \A i \in NativeOf("call") : i <= n - 1
      BY <1>6
    <3> QED
      BY <2>3, <2>4, <3>1, TopNative
  <2>6. \A i \in NativeOf("call") : i # n - 1 => at[i] \in 1..(c - 1)
    <3> TAKE i \in NativeOf("call")
    <3> HAVE i # n - 1
    <3>1. i < n - 1
      BY <1>6
    <3>2. at[i] \in 1..c /\ at[i] < c
      BY <2>3, <2>5, <3>1 DEF InCallOrder
    <3> QED
      BY <3>2
  <2>7. \A k \in Brackets : vat[k] \in 1..(c - 1)
    <3> TAKE k \in Brackets
    <3>1. vat[k] \in 1..c /\ vat[k] < c
      BY <2>3, <2>4, <2>5 DEF InCallOrder
    <3> QED
      BY <3>1
  <2>8. ASSUME NEW i \in NativeOf("call")'
        PROVE  LET a == native'[i]
                   e == callStack'[at[i]]
               IN  /\ e \in Modules <=> a.handle.decl \in Modules
                   /\ ~crossed' => e = a.handle.decl
                   /\ ~a.started \/ a.decl \notin Compiled => e = a.decl
                   /\ \A j \in Drives' :
                        j = i + 1 /\ native'[j].floor < Len(vm')
                          /\ vm'[native'[j].floor + 1].type = "entry"
                        => e = vm'[native'[j].floor + 1].decl
    <3>0. i \in NativeOf("call")
      BY <1>4
    <3>1. CASE i = n - 1
      <4>1. /\ callStack[c] \in Modules <=> native[i].handle.decl \in Modules
            /\ ~crossed => callStack[c] = native[i].handle.decl
            /\ callStack[c] = old.decl
        <5>1. n \in Drives /\ n = i + 1 /\ native[n].floor < m /\ native[n].floor + 1 = m
          BY <1>1, <1>3, <2>2, <2>3, <3>1
        <5>2. vm[native[n].floor + 1].type = "entry" /\ vm[native[n].floor + 1].decl = old.decl
          BY <5>1, <1>17, <1>e
        <5> QED
          BY <3>0, <3>1, <5>1, <5>2, <2>5, <1>13
      <4>2. d \notin Modules /\ old.decl \notin Modules
        BY <1>2, <2>1, CallsAssumption
      <4>3. ~(~native[i].started \/ native[i].decl \notin Compiled)
        BY <2>2, <3>1
      <4>4. ASSUME NEW j \in Drives, j = i + 1
            PROVE  vm'[native[j].floor + 1].decl = d
        <5>1. j = n /\ native[n].floor + 1 = m
          BY <1>3, <2>2, <2>3, <3>1, <4>4
        <5> QED
          BY <5>1, <1>1, <1>3
      <4> QED
        BY <3>1, <4>1, <4>2, <4>3, <4>4, <1>2, <1>4, <1>5, <2>5
    <3>2. CASE i # n - 1
      <4>1. callStack'[at[i]] = callStack[at[i]]
        BY <3>0, <3>2, <1>5, <2>6
      <4>2. ASSUME NEW j \in Drives, j = i + 1
            PROVE  vm'[native[j].floor + 1] = vm[native[j].floor + 1]
        <5>1. j # n
          BY <3>0, <3>2, <4>2, <1>6
        <5>2. native[j].floor < m - 1
          BY <5>1, <1>10, <2>2
        <5>3. native[j].floor # m - 1
          BY <5>2, <1>7
        <5> QED
          BY <5>3, <1>15
      <4> QED
        BY <3>0, <4>1, <4>2, <1>2, <1>3, <1>4, <1>5, <1>13
    <3> QED
      BY <3>1, <3>2
  <2>9. ASSUME NEW k \in Brackets'
        PROVE  /\ callStack'[vat[k]] = vm'[k].decl
               /\ ~crossed' => callStack'[vat[k]] = vm'[k].handle.decl
    <3>1. k \in Brackets /\ k # m /\ k \in 1..m
      BY <1>3, <1>8, <2>1
    <3>2. callStack'[vat[k]] = callStack[vat[k]]
      BY <3>1, <1>5, <2>7
    <3>3. vm'[k] = vm[k]
      BY <3>1, <1>3
    <3> QED
      BY <3>1, <3>2, <3>3, <1>5, <1>14
  <2>10. NamesRunning(at, vat)'
    BY <2>8, <2>9 DEF NamesRunning
  <2> QED
    BY <1>3, <1>4, <1>5, <1>12, <2>10 DEF Placed
<1> QED
  BY <1>1, <1>16, <1>17

(* Every step that abandons no call keeps the others in their places.      *)
LEMMA PlacedOnward ==
  ASSUME Shapes, DrivesNested, Placed, Counted, Step, abandoned' = abandoned
  PROVE  Placed'
<1>0. /\ native # <<>> <=> mode # "idle"
      /\ Running => native # <<>>
      /\ vm \in Seq(VmFrames)
  BY DEF Shapes, Running
<1>1. ASSUME vm' = vm, callStack' = callStack, crossed' = crossed,
             NativeOf("call")' = NativeOf("call"),
             \A i \in NativeOf("call") : native'[i] = native[i],
             Drives' = Drives, \A j \in Drives : native'[j] = native[j]
      PROVE  Placed'
  BY <1>0, <1>1, PlacedTrimmed DEF Brackets
<1>2. ASSUME vm = <<>>, vm' = vm, native' = <<>> \/ native' = <<Top>>,
             callStack' = callStack, crossed' = crossed,
             NativeOf("call") = {}, NativeOf("drive") = {}
      PROVE  Placed'
  <2>1. ASSUME NEW t, t # "top" PROVE NativeOf(t)' = {}
    <3>1. CASE native' = <<>>
      BY <3>1 DEF NativeOf
    <3>2. CASE native' = <<Top>>
      <4>1. Len(native') = 1 /\ native'[1] = Top
        BY <3>2
      <4>2. \A i \in 1..1 : i = 1
        OBVIOUS
      <4> QED
        BY <4>1, <4>2, <2>1 DEF NativeOf, Top
    <3> QED
      BY <1>2, <3>1, <3>2
  <2> QED
    BY <1>1, <1>2, <2>1 DEF Drives
<1>3. CASE Evaluate
  BY <1>0, <1>2, <1>3, NothingOutside DEF Evaluate, calls
<1>4. CASE PassLeft
  BY <1>2, <1>4, NothingOutside DEF PassLeft, calls
<1>5. ASSUME UNCHANGED <<native, vm, callStack, crossed>> PROVE Placed'
  BY <1>1, <1>5 DEF NativeOf, Drives
<1>6. CASE Refused
  BY <1>5, <1>6 DEF Refused, calls
<1>7. ASSUME NEW d \in Decl, NEW catches \in BOOLEAN, NativeEntered(d, catches)
      PROVE  Placed'
  BY <1>0, <1>7, PlacedEntered DEF NativeEntered
<1>8. ASSUME NEW d \in Decl, NativeHopped(d) PROVE Placed'
  BY <1>8, PlacedNativeHop
<1>9. CASE RunCompiledBody
  <2> DEFINE s == [Last(native) EXCEPT !.started = TRUE]
             f == VmFrame(IF Last(native).decl \in Functions THEN "entry" ELSE "body",
                          Last(native).decl, NoHandle)
  <2>1. /\ Running /\ Last(native).type = "call" /\ ~Last(native).started
        /\ s \in Activations /\ s.type = "call" /\ s.started
        /\ s.decl = Last(native).decl /\ s.handle = Last(native).handle
        /\ f \in VmFrames /\ FrameOK(f) /\ DriveVm(SetLast(native, s), f)
    BY <1>9, BodyStarted
  <2>2. f.handle = NoHandle /\ f.decl = Last(native).decl
    BY DEF VmFrame
  <2> HIDE DEF s, f
  <2> QED
    BY <2>1, <2>2, PlacedStart
<1>10. CASE ChunkStarted
  <2>1. PICK type \in {"bare", "body"} :
             DriveVm(native, VmFrame(type, NoDecl, NoHandle))
    BY <1>10 DEF ChunkStarted
  <2> DEFINE f == VmFrame(type, NoDecl, NoHandle)
  <2>2. /\ f \in VmFrames /\ FrameOK(f) /\ DriveVm(native, f) /\ Running
        /\ f.type # "entry" /\ f.handle = NoHandle
    BY <1>10, <2>1, FrameTypes, FrameKinds DEF ChunkStarted, VmFrame
  <2> HIDE DEF f
  <2> QED
    BY <2>2, PlacedStart
<1>11. ASSUME OpenBlock \/ OpenMeasure PROVE Placed'
  <2>1. Running /\ vm' = vm /\ callStack' = callStack /\ crossed' = crossed
    BY <1>11 DEF OpenBlock, OpenMeasure, WalksStatements, InWalker,
                 VmStatements, InVm, calls
  <2>2. PICK x \in {Block, Measure(measuring)} : native' = Append(native, x)
    BY <1>11 DEF OpenBlock, OpenMeasure
  <2>3. x \in Activations /\ x.type \in {"block", "measure"}
    BY ActivationTypes DEF Block, Measure, Shapes
  <2>4. NativeOf("call")' = NativeOf("call") /\ NativeOf("drive")' = NativeOf("drive")
    BY <1>0, <2>1, <2>2, <2>3, PlacesPushed
  <2>5. \A i \in 1..Len(native) : native'[i] = native[i]
    BY <1>0, <2>1, <2>2, <2>3, PushedNative
  <2> QED
    BY <1>1, <2>1, <2>4, <2>5 DEF Drives, NativeOf
<1>12. ASSUME NEW d \in Decl, NEW type \in {"function", "module"}, FrameEntered(d, type)
       PROVE  Placed'
  <2> DEFINE f == VmFrame(type, d, Handle(d, FALSE))
  <2>1. f \in VmFrames /\ FrameOK(f) /\ f.type # "entry"
        /\ f.decl = d /\ f.handle.decl = d
    BY <1>12, FrameTypes, FrameKinds DEF FrameEntered, VmFrame, Handle
  <2>2. f.handle # NoHandle
    BY CallsAssumption DEF VmFrame, Handle, NoHandle
  <2>3. vm' = Append(vm, f) /\ native' = native /\ InVm /\ EnterUserCall(d, TRUE)
    BY <1>12 DEF FrameEntered
  <2> HIDE DEF f
  <2>4. Len(native) \in Drives /\ Last(native).floor < Len(vm)
    BY <1>0, <2>3, DriverHasFrame DEF InVm
  <2> QED
    BY <2>1, <2>2, <2>3, <2>4, PlacedBracket
<1>13. CASE ChildrenEntered
  <2> DEFINE f == VmFrame("children", NoDecl, NoHandle)
  <2>1. f \in VmFrames /\ FrameOK(f) /\ f.type # "entry" /\ f.handle = NoHandle
    BY FrameTypes, FrameKinds DEF VmFrame
  <2>2. vm' = Append(vm, f) /\ native' = native /\ callStack' = callStack
        /\ crossed' = crossed
    BY <1>13 DEF ChildrenEntered, calls
  <2> HIDE DEF f
  <2>3. Brackets' = Brackets /\ \A k \in Brackets : vm'[k] = vm[k]
    BY <2>1, <2>2, BracketsPushed
  <2>4. /\ Len(vm) \in Nat
        /\ vm' \in Seq(VmFrames)
        /\ Len(vm') = Len(vm) + 1
        /\ vm'[Len(vm) + 1] = f
        /\ \A k \in 1..Len(vm) : vm'[k] = vm[k]
    BY <2>1, <2>2, PushedVm
  <2>5. ASSUME NEW k \in 1..Len(vm'), vm'[k].type = "entry"
        PROVE  k \in 1..Len(vm) /\ vm[k].type = "entry" /\ vm'[k].decl = vm[k].decl
    <3>1. k # Len(vm) + 1
      BY <2>1, <2>4, <2>5
    <3>2. k \in 1..Len(vm)
      BY <2>4, <3>1
    <3> QED
      BY <2>4, <2>5, <3>2
  <2>6. NativeOf("call")' = NativeOf("call") /\ Drives' = Drives
    BY <2>2 DEF NativeOf, Drives
  <2> QED
    BY <2>2, <2>3, <2>4, <2>5, <2>6, PlacedTrimmed
<1>14. ASSUME NEW d \in Decl, FrameHopped(d) PROVE Placed'
  BY <1>14, PlacedFrameHop
<1>15. ASSUME UNCHANGED <<native, callStack, crossed>>, vm # <<>>,
              NEW w \in Seq(BOOLEAN),
              vm' = SetLast(vm, [Last(vm) EXCEPT !.wraps = w])
       PROVE  Placed'
  <2> DEFINE h == [Last(vm) EXCEPT !.wraps = w]
  <2>1. /\ h \in VmFrames /\ FrameOK(h) /\ h.type = Last(vm).type
        /\ h.decl = Last(vm).decl /\ h.handle = Last(vm).handle
        /\ vm' = SetLast(vm, h)
    BY <1>15, Rewrapped
  <2> HIDE DEF h
  <2>2. /\ Brackets' = Brackets
        /\ \A k \in 1..Len(vm) : k # Len(vm) => vm'[k] = vm[k]
        /\ vm'[Len(vm)] = h
        /\ Len(vm') = Len(vm)
    BY <1>15, <2>1, BracketsChanged
  <2>3. vm' \in Seq(VmFrames)
    BY <1>15, <2>1, ChangedVm
  <2>4. \A k \in 1..Len(vm) : /\ vm'[k].decl = vm[k].decl
                              /\ vm'[k].handle = vm[k].handle
                              /\ vm'[k].type = vm[k].type
    BY <2>1, <2>2 DEF Last
  <2>5. NativeOf("call")' = NativeOf("call") /\ Drives' = Drives
    BY <1>15 DEF NativeOf, Drives
  <2>6. \A k \in Brackets : vm'[k].decl = vm[k].decl /\ vm'[k].handle = vm[k].handle
    BY <2>4 DEF Brackets
  <2> QED
    BY <1>15, <2>2, <2>3, <2>4, <2>5, <2>6, PlacedTrimmed
<1>16. ASSUME NEW measures \in BOOLEAN, PushWrap(measures) PROVE Placed'
  <2> DEFINE w == Append(Last(vm).wraps, measuring)
  <2>1. vm # <<>> /\ w \in Seq(BOOLEAN)
        /\ vm' = SetLast(vm, [Last(vm) EXCEPT !.wraps = w])
    BY <1>16, WrapPushed
  <2> HIDE DEF w
  <2>2. UNCHANGED <<native, callStack, crossed>>
    BY <1>16 DEF PushWrap, calls
  <2> QED
    BY <1>15, <2>1, <2>2
<1>17. CASE PopWrap
  <2> DEFINE w == Front(Last(vm).wraps)
  <2>1. vm # <<>> /\ w \in Seq(BOOLEAN)
        /\ vm' = SetLast(vm, [Last(vm) EXCEPT !.wraps = w])
    BY <1>17, WrapPopped
  <2> HIDE DEF w
  <2>2. UNCHANGED <<native, callStack, crossed>>
    BY <1>17 DEF PopWrap, calls
  <2> QED
    BY <1>15, <2>1, <2>2
<1>18. CASE BlockClosed
  <2>1. /\ native # <<>> /\ Last(native).type \in {"block", "measure"}
        /\ native' = Front(native)
        /\ UNCHANGED <<vm, callStack, crossed>>
    BY <1>0, <1>18 DEF BlockClosed, calls
  <2>2. /\ NativeOf("call")' = NativeOf("call") \ {Len(native)}
        /\ Len(native) \in NativeOf("call") <=> Last(native).type = "call"
    BY <2>1, PlacesPopped
  <2>3. /\ NativeOf("drive")' = NativeOf("drive") \ {Len(native)}
        /\ Len(native) \in NativeOf("drive") <=> Last(native).type = "drive"
    BY <2>1, PlacesPopped
  <2>4. NativeOf("call")' = NativeOf("call") /\ NativeOf("drive")' = NativeOf("drive")
    BY <2>1, <2>2, <2>3
  <2>5. \A i \in 1..(Len(native) - 1) : native'[i] = native[i]
    BY <2>1, PoppedNative
  <2>6. ASSUME NEW t, NEW i \in NativeOf(t), i # Len(native)
        PROVE  i \in 1..(Len(native) - 1)
    BY <2>6, PlaceFacts
  <2>7. \A i \in NativeOf("call") \cup NativeOf("drive") : native'[i] = native[i]
    BY <2>1, <2>2, <2>3, <2>5, <2>6
  <2> QED
    BY <1>1, <2>1, <2>4, <2>7 DEF Drives
<1>19. CASE CallLeft
  BY <1>0, <1>19, PlacedLeft DEF CallLeft
<1>20. ASSUME native # <<>>, Last(native).type = "drive", native' = Front(native),
              Last(native).floor >= Len(vm')
       PROVE  /\ NativeOf("call")' = NativeOf("call")
              /\ \A i \in NativeOf("call") : native'[i] = native[i]
              /\ Drives' \subseteq Drives
              /\ \A j \in Drives' : native'[j] = native[j]
              /\ \A j \in Drives : j \notin Drives' => native[j].floor >= Len(vm')
  <2>2. /\ NativeOf("call")' = NativeOf("call") \ {Len(native)}
        /\ Len(native) \in NativeOf("call") <=> Last(native).type = "call"
    BY <1>20, PlacesPopped
  <2>3. /\ NativeOf("drive")' = NativeOf("drive") \ {Len(native)}
        /\ Len(native) \in NativeOf("drive") <=> Last(native).type = "drive"
    BY <1>20, PlacesPopped
  <2>5. \A i \in 1..(Len(native) - 1) : native'[i] = native[i]
    BY <1>20, PoppedNative
  <2>6. ASSUME NEW t, NEW i \in NativeOf(t), i # Len(native)
        PROVE  i \in 1..(Len(native) - 1)
    BY <2>6, PlaceFacts
  <2>7. \A i \in NativeOf("call") : native'[i] = native[i]
    BY <1>20, <2>2, <2>5, <2>6
  <2>8. \A j \in Drives' : native'[j] = native[j]
    BY <2>3, <2>5, <2>6 DEF Drives
  <2> QED
    BY <1>20, <2>2, <2>3, <2>7, <2>8 DEF Drives, Last
<1>21. CASE UnwindDrive
  <2>1. /\ native # <<>> /\ Last(native).type = "drive" /\ native' = Front(native)
        /\ Len(vm) = Last(native).floor
        /\ UNCHANGED <<vm, callStack, crossed>>
    BY <1>0, <1>21 DEF UnwindDrive, Throwing, calls
  <2>2. Last(native).floor >= Len(vm')
    <3> PICK m \in Nat : m = Len(vm)
      BY <1>0
    <3> QED
      BY <2>1
  <2>3. Brackets' = Brackets
    BY <2>1 DEF Brackets
  <2> QED
    BY <1>0, <1>20, <2>1, <2>2, <2>3, PlacedTrimmed
<1>22. ASSUME vm # <<>>, vm' = Front(vm), LeaveBracket(Last(vm)),
              Len(native) \in Drives, Last(native).floor < Len(vm),
              NativeOf("call")' = NativeOf("call"),
              \A i \in NativeOf("call") : native'[i] = native[i],
              Drives' \subseteq Drives,
              \A j \in Drives' : native'[j] = native[j],
              \A j \in Drives : j \notin Drives' => native[j].floor >= Len(vm')
       PROVE  Placed'
  <2>1. CASE Last(vm).handle # NoHandle
    <3>1. ExitUserCall(Last(vm).handle)
      BY <1>22, <2>1 DEF LeaveBracket
    <3> QED
      BY <1>22, <2>1, <3>1, PlacedUnbracket
  <2>2. CASE Last(vm).handle = NoHandle
    <3>1. callStack' = callStack /\ crossed' = crossed
      BY <1>22, <2>2 DEF LeaveBracket, calls
    <3>2. Brackets' = Brackets /\ \A k \in Brackets : vm'[k] = vm[k]
      BY <1>22, <2>2, BracketsPopped
    <3>3. /\ Len(vm) \in Nat \ {0} /\ vm' \in Seq(VmFrames)
          /\ Len(vm') = Len(vm) - 1
          /\ \A k \in 1..(Len(vm) - 1) : vm'[k] = vm[k]
      BY <1>22, PoppedFrames
    <3>4. \A k \in 1..Len(vm') : k \in 1..Len(vm) /\ vm'[k] = vm[k]
      BY <3>3
    <3> QED
      BY <1>22, <3>1, <3>2, <3>3, <3>4, PlacedTrimmed
  <2> QED
    BY <2>1, <2>2
<1>23. CASE VmReturn
  <2>1. /\ native # <<>> /\ Last(native).type = "drive" /\ Running
        /\ vm' = Front(vm) /\ LeaveBracket(Last(vm))
        /\ IF Len(vm) = Last(native).floor + 1 THEN native' = Front(native)
                                               ELSE native' = native
    BY <1>0, <1>23 DEF VmReturn, InVm
  <2>2. vm # <<>> /\ Last(native).floor < Len(vm) /\ Last(native).floor \in Nat
        /\ Len(native) \in Drives
    BY <2>1, DriverHasFrame
  <2>3. Len(vm) \in Nat \ {0} /\ Len(vm') = Len(vm) - 1
    BY <2>1, <2>2, PoppedFrames
  <2>4. CASE Len(vm) = Last(native).floor + 1
    <3>1. Last(native).floor >= Len(vm') /\ native' = Front(native)
      BY <2>1, <2>2, <2>3, <2>4
    <3> QED
      BY <1>20, <1>22, <2>1, <2>2, <3>1
  <2>5. CASE Len(vm) # Last(native).floor + 1
    <3>1. native' = native
      BY <2>1, <2>5
    <3>2. NativeOf("call")' = NativeOf("call") /\ Drives' = Drives
      BY <3>1 DEF NativeOf, Drives
    <3> QED
      BY <1>22, <2>1, <2>2, <3>1, <3>2
  <2> QED
    BY <2>4, <2>5
<1>24. CASE UnwindFrame
  <2>1. /\ native # <<>> /\ Last(native).type = "drive"
        /\ vm' = Front(vm) /\ LeaveBracket(Last(vm)) /\ native' = native
        /\ Len(vm) > Last(native).floor
    BY <1>0, <1>24 DEF UnwindFrame, Throwing
  <2>2. vm # <<>> /\ Last(native).floor < Len(vm) /\ Len(native) \in Drives
    BY <2>1, DriverHasFrame
  <2>3. NativeOf("call")' = NativeOf("call") /\ Drives' = Drives
    BY <2>1 DEF NativeOf, Drives
  <2> QED
    BY <1>22, <2>1, <2>2, <2>3
<1>25. CASE UNCHANGED vars
  BY <1>5, <1>25 DEF vars
<1>26. ASSUME NEW d \in Decl, NEW skip \in BOOLEAN, EntryStopped(d, skip)
       PROVE  FALSE
  BY <1>26, Abandoning
<1> QED
  BY <1>3, <1>4, <1>6, <1>7, <1>8, <1>9, <1>10, <1>11, <1>12, <1>13, <1>14,
     <1>16, <1>17, <1>18, <1>19, <1>21, <1>23, <1>24, <1>25, <1>26 DEF Step

(* A pass starts with nothing to be placed.                                *)
LEMMA PlacedAnew ==
  ASSUME Shapes, DrivesNested, Counted, Evaluate
  PROVE  Placed'
<1> PICK a \in Nat : a = Len(abandoned)
  BY DEF Shapes
<1>1. /\ native = <<>> /\ native' = <<Top>>
      /\ UNCHANGED <<callStack, crossed, abandoned, vm>>
  BY DEF Evaluate, Shapes, calls
<1>2. NativeOf("call") = {} /\ vm = <<>>
  BY <1>1, NothingOutside
<1>3. Brackets = {} /\ Brackets' = {}
  BY <1>1, <1>2 DEF Brackets
<1>4. NativeOf("call")' = {}
  <2>1. Len(native') = 1 /\ native'[1].type = "top"
    BY <1>1 DEF Top
  <2>2. \A i \in 1..1 : i = 1
    OBVIOUS
  <2> QED
    BY <2>1, <2>2 DEF NativeOf
<1>5. Len(callStack') = a /\ Len(abandoned') = a
  <2>1. Len(callStack) = Cardinality({}) + Cardinality({}) + a
    BY <1>2, <1>3 DEF Counted
  <2> QED
    BY <1>1, <2>1, FS_EmptySet
<1> PICK at : at = [i \in NativeOf("call")' |-> 0]
  OBVIOUS
<1> PICK vat : vat = [k \in Brackets' |-> 0]
  OBVIOUS
<1>6. /\ at \in [NativeOf("call")' -> 1..Len(callStack')]
      /\ vat \in [Brackets' -> 1..Len(callStack')]
  BY <1>3, <1>4
<1>7. InCallOrder(at, vat)'
  <2>1. \A p \in 1..a : ~(p > a)
    OBVIOUS
  <2> QED
    BY <1>3, <1>4, <1>5, <2>1 DEF InCallOrder
<1>8. NamesRunning(at, vat)'
  BY <1>3, <1>4 DEF NamesRunning
<1> QED
  BY <1>6, <1>7, <1>8 DEF Placed

(* An exception is on its way until the next pass.                         *)
LEMMA StillThrowing ==
  ASSUME Step, ~Running, ~Evaluate
  PROVE  ~Running'
<1>1. CASE PassLeft \/ CallLeft \/ BlockClosed \/ UnwindDrive \/ UnwindFrame
  BY <1>1 DEF PassLeft, CallLeft, BlockClosed, UnwindDrive, UnwindFrame, Running
<1>2. CASE UNCHANGED vars
  BY <1>2 DEF vars, Running
<1>3. CASE VmReturn \/ PopWrap \/ ChildrenEntered
           \/ \E measures \in BOOLEAN : PushWrap(measures)
  BY <1>3 DEF VmReturn, PopWrap, ChildrenEntered, PushWrap, InVm
<1>4. CASE \/ Refused \/ RunCompiledBody \/ ChunkStarted
           \/ \E d \in Decl, catches \in BOOLEAN : NativeEntered(d, catches)
           \/ \E d \in Decl, skip \in BOOLEAN : EntryStopped(d, skip)
  BY <1>4 DEF Refused, RunCompiledBody, ChunkStarted, NativeEntered, EntryStopped
<1>5. CASE \/ OpenBlock \/ OpenMeasure
           \/ \E d \in Decl : NativeHopped(d) \/ FrameHopped(d)
           \/ \E d \in Decl, type \in {"function", "module"} : FrameEntered(d, type)
  BY <1>5 DEF OpenBlock, OpenMeasure, NativeHopped, FrameHopped, FrameEntered,
              WalksStatements, WalksFunction, InWalker, VmStatements, InVm
<1> QED
  BY <1>1, <1>2, <1>3, <1>4, <1>5 DEF Step

(* So every step keeps the places whenever there is an order to keep.      *)
LEMMA PlacedKept ==
  ASSUME Shapes, DrivesNested, CallsPlaced, Counted, Step
  PROVE  CallsPlaced'
<1>1. ASSUME NEW d \in Decl, NEW skip \in BOOLEAN, EntryStopped(d, skip)
      PROVE  CallsPlaced'
  <2>1. ~Running' /\ abandoned' # <<>>
    BY <1>1, Abandoning DEF EntryStopped, StopAtEntry, Running
  <2> QED
    BY <2>1 DEF CallsPlaced
<1>2. ASSUME abandoned' = abandoned PROVE CallsPlaced'
  <2>1. CASE Running \/ abandoned = <<>>
    BY <1>2, <2>1, PlacedOnward DEF CallsPlaced
  <2>2. CASE Evaluate
    BY <2>2, PlacedAnew DEF CallsPlaced
  <2>3. CASE ~Running /\ abandoned # <<>> /\ ~Evaluate
    BY <1>2, <2>3, StillThrowing DEF CallsPlaced
  <2> QED
    BY <2>1, <2>2, <2>3
<1> QED
  BY <1>1, <1>2, StepAbandons

-----------------------------------------------------------------------------
(* The last call on the call stack is the innermost one.                   *)

(* A native call at the top of the C++ stack.                              *)
LEMMA TopIsNative ==
  ASSUME Shapes, Placed, Counted, native # <<>>, Last(native).type = "call"
  PROVE  LET c == Last(native)
             d == callStack[Len(callStack)]
         IN  /\ callStack # <<>> /\ d = Last(callStack)
             /\ d \in Modules <=> c.handle.decl \in Modules
             /\ ~crossed => d = c.handle.decl
             /\ ~c.started \/ c.decl \notin Compiled => d = c.decl
<1>0. native \in Seq(Activations) /\ callStack \in Seq(Decl)
  BY DEF Shapes
<1> PICK n \in Nat : n = Len(native)
  BY <1>0
<1>1. n \in NativeOf("call")
  <2>1. n # 0
    BY <1>0, EmptySeq
  <2> QED
    BY <2>1 DEF NativeOf, Last
<1>2. PICK at \in [NativeOf("call") -> 1..Len(callStack)],
           vat \in [Brackets -> 1..Len(callStack)] :
           InCallOrder(at, vat) /\ NamesRunning(at, vat)
  BY DEF Placed
<1>3. \A i \in NativeOf("call") \cup Drives : i <= n
  BY PlaceFacts DEF Drives
<1>4. \A k \in Brackets : ~Above(n, k)
  <2>1. \A j \in Drives : ~(j > n)
    BY <1>3, DriveFacts
  <2> QED
    BY <2>1 DEF Above
<1>5. at[n] = Len(callStack)
  BY <1>1, <1>2, <1>3, <1>4, TopNative
<1>6. callStack # <<>>
  BY <1>1, InsideCall
<1>7. LET c == native[n]
          d == callStack[at[n]]
      IN  /\ d \in Modules <=> c.handle.decl \in Modules
          /\ ~crossed => d = c.handle.decl
          /\ ~c.started \/ c.decl \notin Compiled => d = c.decl
  BY <1>1, <1>2 DEF NamesRunning
<1> QED
  BY <1>5, <1>6, <1>7 DEF Last

(* A frame with a bracket at the top of the VM's stack.                    *)
LEMMA TopIsBracket ==
  ASSUME Shapes, Placed, Counted, vm # <<>>, Last(vm).handle # NoHandle,
         Len(native) \in Drives, Last(native).floor < Len(vm)
  PROVE  LET d == callStack[Len(callStack)]
         IN  /\ callStack # <<>> /\ d = Last(callStack)
             /\ d = Last(vm).decl
             /\ d \in Modules <=> Last(vm).handle.decl \in Modules
             /\ ~crossed => d = Last(vm).handle.decl
<1>0. native \in Seq(Activations) /\ vm \in Seq(VmFrames)
      /\ \A k \in 1..Len(vm) : FrameOK(vm[k])
  BY DEF Shapes
<1> PICK n \in Nat : n = Len(native)
  BY <1>0
<1> PICK m \in Nat : m = Len(vm)
  BY <1>0
<1>1. m \in 1..m /\ m \in Brackets
  <2>1. m # 0
    BY <1>0, EmptySeq
  <2> QED
    BY <2>1 DEF Brackets, Last
<1>2. PICK at \in [NativeOf("call") -> 1..Len(callStack)],
           vat \in [Brackets -> 1..Len(callStack)] :
           InCallOrder(at, vat) /\ NamesRunning(at, vat)
  BY DEF Placed
<1>3. \A k \in Brackets : k <= m
  BY DEF Brackets
<1>4. \A i \in NativeOf("call") : Above(i, m)
  <2> TAKE i \in NativeOf("call")
  <2>1. i \in 1..n /\ native[i].type = "call"
    BY DEF NativeOf
  <2>2. native[n].type = "drive"
    BY DEF Drives, NativeOf
  <2>3. n > i
    BY <2>1, <2>2
  <2>4. m > native[n].floor
    <3>1. native[n].floor \in Nat
      BY DriveFacts
    <3> QED
      BY <3>1 DEF Last
  <2> QED
    BY <2>3, <2>4 DEF Above
<1>5. vat[m] = Len(callStack)
  BY <1>1, <1>2, <1>3, <1>4, TopBracket
<1>6. callStack # <<>>
  BY <1>1, InsideCall
<1>7. /\ callStack[vat[m]] = vm[m].decl
      /\ ~crossed => callStack[vat[m]] = vm[m].handle.decl
  BY <1>1, <1>2 DEF NamesRunning
<1>8. vm[m].decl \in Modules <=> vm[m].handle.decl \in Modules
  <2>1. FrameOK(vm[m]) /\ vm[m].handle # NoHandle
    BY <1>0, <1>1 DEF Last
  <2> QED
    BY <2>1, CallsAssumption DEF FrameOK
<1> QED
  BY <1>5, <1>6, <1>7, <1>8 DEF Last

(* The frame a native call of a compiled function started with.            *)
LEMMA TopIsEntry ==
  ASSUME Shapes, DrivesNested, Placed, Counted, vm # <<>>, Last(vm).type = "entry",
         Len(native) \in Drives, Last(native).floor < Len(vm)
  PROVE  /\ callStack # <<>>
         /\ callStack[Len(callStack)] = Last(vm).decl
         /\ Last(callStack) = Last(vm).decl
         /\ ~crossed => \E i \in NativeOf("call") :
                          native[i].handle.decl = callStack[Len(callStack)]
<1>0. native \in Seq(Activations) /\ vm \in Seq(VmFrames)
      /\ \A k \in 1..Len(vm) : FrameOK(vm[k])
  BY DEF Shapes
<1> PICK n \in Nat : n = Len(native)
  BY <1>0
<1> PICK m \in Nat : m = Len(vm)
  BY <1>0
<1>1. m \in 1..m /\ m \notin Brackets /\ vm[m].type = "entry"
  <2>1. m # 0
    BY <1>0, EmptySeq
  <2>2. FrameOK(vm[m]) /\ vm[m].type = "entry"
    BY <1>0, <2>1 DEF Last
  <2> QED
    BY <2>1, <2>2 DEF Brackets, FrameOK
<1>2. \A j \in Drives : j \in 1..n /\ native[j].floor \in Nat
  BY DriveFacts
<1>3. PICK j \in Drives : j > 1 /\ native[j].floor = m - 1 /\ native[j - 1].type = "call"
  BY <1>1 DEF DrivesNested
<1>4. j = n
  <2>1. native[n].floor < m /\ native[n].floor \in Nat
    BY <1>2 DEF Last
  <2>2. j < n => native[j].floor < native[n].floor
    BY DEF DrivesNested
  <2> QED
    BY <2>1, <2>2, <1>2, <1>3
<1>5. n - 1 \in NativeOf("call") /\ n - 1 + 1 = n
  BY <1>3, <1>4 DEF NativeOf
<1>6. PICK at \in [NativeOf("call") -> 1..Len(callStack)],
           vat \in [Brackets -> 1..Len(callStack)] :
           InCallOrder(at, vat) /\ NamesRunning(at, vat)
  BY DEF Placed
<1>7. \A i \in NativeOf("call") : i <= n - 1
  <2> TAKE i \in NativeOf("call")
  <2>1. i \in 1..n /\ native[i].type = "call"
    BY DEF NativeOf
  <2>2. native[n].type = "drive"
    BY DEF Drives, NativeOf
  <2> QED
    BY <2>1, <2>2
<1>8. \A k \in Brackets : ~Above(n - 1, k)
  <2> TAKE k \in Brackets
  <2>1. k \in 1..m /\ k # m
    BY <1>1 DEF Brackets
  <2>2. \A h \in Drives : h > n - 1 => h = n
    BY <1>2
  <2>3. ~(k > native[n].floor)
    BY <1>3, <1>4, <2>1
  <2> QED
    BY <2>2, <2>3 DEF Above
<1>9. at[n - 1] = Len(callStack)
  BY <1>5, <1>6, <1>7, <1>8, TopNative
<1>10. callStack[at[n - 1]] = vm[m].decl
  <2>1. native[n].floor < m /\ native[n].floor + 1 = m
    BY <1>1, <1>3, <1>4
  <2>2. \A h \in Drives :
          h = n - 1 + 1 /\ native[h].floor < Len(vm)
            /\ vm[native[h].floor + 1].type = "entry"
          => callStack[at[n - 1]] = vm[native[h].floor + 1].decl
    BY <1>5, <1>6 DEF NamesRunning
  <2> QED
    BY <1>1, <1>5, <2>1, <2>2
<1>11. callStack # <<>>
  BY <1>5, InsideCall
<1>12. ~crossed => callStack[at[n - 1]] = native[n - 1].handle.decl
  BY <1>5, <1>6 DEF NamesRunning
<1> QED
  BY <1>5, <1>9, <1>10, <1>11, <1>12 DEF Last

-----------------------------------------------------------------------------
(* The counters.                                                           *)

(* One more.                                                               *)
LEMMA OneMore ==
  ASSUME NEW S, IsFiniteSet(S), NEW x, x \notin S
  PROVE  Cardinality(S \cup {x}) = Cardinality(S) + 1 /\ Cardinality(S) \in Nat
BY FS_AddElement, FS_CardinalityType

(* One less.                                                               *)
LEMMA OneLess ==
  ASSUME NEW S, IsFiniteSet(S), NEW x \in S
  PROVE  Cardinality(S \ {x}) = Cardinality(S) - 1 /\ Cardinality(S) \in Nat \ {0}
BY FS_RemoveElement, FS_CardinalityType, FS_EmptySet

(* Where the calls entered with certain declarations are after a step.     *)
LEMMA EnteredNext ==
  ASSUME NEW D
  PROVE  Entered(D)' = Cardinality(CallsIn(D)') + Cardinality(FramesIn(D)')
                         + Cardinality(LeftIn(D)')
BY DEF Entered, CallsIn, FramesIn, LeftIn

(* Calls that stay where they are, with their handles, count as before.    *)
LEMMA CallsInStill ==
  ASSUME NativeOf("call")' = NativeOf("call"),
         \A i \in NativeOf("call") : native'[i].handle = native[i].handle, NEW D
  PROVE  CallsIn(D)' = CallsIn(D)
BY DEF CallsIn

LEMMA FramesInStill ==
  ASSUME Brackets' = Brackets,
         \A k \in Brackets : vm'[k].handle = vm[k].handle, NEW D
  PROVE  FramesIn(D)' = FramesIn(D)
BY DEF FramesIn

LEMMA LeftInStill ==
  ASSUME abandoned' = abandoned, NEW D
  PROVE  LeftIn(D)' = LeftIn(D) /\ CountedAbandoned' = CountedAbandoned
BY DEF LeftIn, CountedAbandoned

(* One call more among those entered.                                      *)
LEMMA EnteredMore ==
  ASSUME Shapes, NEW D, NEW d, NEW x,
         \/ /\ CallsIn(D)' = (IF d \in D THEN CallsIn(D) \cup {x} ELSE CallsIn(D))
            /\ x \notin CallsIn(D)
            /\ FramesIn(D)' = FramesIn(D) /\ LeftIn(D)' = LeftIn(D)
         \/ /\ FramesIn(D)' = (IF d \in D THEN FramesIn(D) \cup {x} ELSE FramesIn(D))
            /\ x \notin FramesIn(D)
            /\ CallsIn(D)' = CallsIn(D) /\ LeftIn(D)' = LeftIn(D)
         \/ /\ LeftIn(D)' = (IF d \in D THEN LeftIn(D) \cup {x} ELSE LeftIn(D))
            /\ x \notin LeftIn(D)
            /\ CallsIn(D)' = CallsIn(D) /\ FramesIn(D)' = FramesIn(D)
  PROVE  Entered(D)' = Entered(D) + (IF d \in D THEN 1 ELSE 0)
<1>1. Entered(D)' = Cardinality(CallsIn(D)') + Cardinality(FramesIn(D)')
                      + Cardinality(LeftIn(D)')
  BY EnteredNext
<1>2. /\ Entered(D) = Cardinality(CallsIn(D)) + Cardinality(FramesIn(D))
                        + Cardinality(LeftIn(D))
      /\ IsFiniteSet(CallsIn(D)) /\ Cardinality(CallsIn(D)) \in Nat
      /\ IsFiniteSet(FramesIn(D)) /\ Cardinality(FramesIn(D)) \in Nat
      /\ IsFiniteSet(LeftIn(D)) /\ Cardinality(LeftIn(D)) \in Nat
  BY EnteredMeans
<1>3. ASSUME NEW S, IsFiniteSet(S), x \notin S
      PROVE  Cardinality(IF d \in D THEN S \cup {x} ELSE S)
               = Cardinality(S) + (IF d \in D THEN 1 ELSE 0)
  <2>1. Cardinality(S) \in Nat
    BY <1>3, FS_CardinalityType
  <2>2. CASE d \in D
    BY <1>3, <2>2, OneMore
  <2> QED
    BY <2>1, <2>2
<1> QED
  BY <1>1, <1>2, <1>3

(* One call less.                                                          *)
LEMMA EnteredLess ==
  ASSUME Shapes, NEW D, NEW d, NEW x,
         \/ /\ CallsIn(D)' = CallsIn(D) \ {x} /\ (d \in D <=> x \in CallsIn(D))
            /\ FramesIn(D)' = FramesIn(D) /\ LeftIn(D)' = LeftIn(D)
         \/ /\ FramesIn(D)' = FramesIn(D) \ {x} /\ (d \in D <=> x \in FramesIn(D))
            /\ CallsIn(D)' = CallsIn(D) /\ LeftIn(D)' = LeftIn(D)
  PROVE  /\ Entered(D)' = Entered(D) - (IF d \in D THEN 1 ELSE 0)
         /\ d \in D => Entered(D) # 0
<1>1. Entered(D)' = Cardinality(CallsIn(D)') + Cardinality(FramesIn(D)')
                      + Cardinality(LeftIn(D)')
  BY EnteredNext
<1>2. /\ Entered(D) = Cardinality(CallsIn(D)) + Cardinality(FramesIn(D))
                        + Cardinality(LeftIn(D))
      /\ IsFiniteSet(CallsIn(D)) /\ Cardinality(CallsIn(D)) \in Nat
      /\ IsFiniteSet(FramesIn(D)) /\ Cardinality(FramesIn(D)) \in Nat
      /\ IsFiniteSet(LeftIn(D)) /\ Cardinality(LeftIn(D)) \in Nat
  BY EnteredMeans
<1>3. ASSUME NEW S, IsFiniteSet(S), (d \in D <=> x \in S)
      PROVE  /\ Cardinality(S \ {x}) = Cardinality(S) - (IF d \in D THEN 1 ELSE 0)
             /\ d \in D => Cardinality(S) # 0
  <2>1. Cardinality(S) \in Nat
    BY <1>3, FS_CardinalityType
  <2>2. CASE x \in S
    BY <1>3, <2>2, OneLess
  <2>3. CASE x \notin S
    <3>1. S \ {x} = S
      BY <2>3
    <3>2. ~(d \in D)
      BY <1>3, <2>3
    <3>3. Cardinality(S) - 0 = Cardinality(S)
      BY <2>1
    <3> QED
      BY <3>1, <3>2, <3>3
  <2> QED
    BY <2>2, <2>3
<1>4. CASE /\ CallsIn(D)' = CallsIn(D) \ {x} /\ (d \in D <=> x \in CallsIn(D))
           /\ FramesIn(D)' = FramesIn(D) /\ LeftIn(D)' = LeftIn(D)
  <2>1. /\ Cardinality(CallsIn(D)') = Cardinality(CallsIn(D)) - (IF d \in D THEN 1 ELSE 0)
        /\ d \in D => Cardinality(CallsIn(D)) # 0
    BY <1>2, <1>3, <1>4
  <2> QED
    BY <1>1, <1>2, <1>4, <2>1
<1>5. CASE /\ FramesIn(D)' = FramesIn(D) \ {x} /\ (d \in D <=> x \in FramesIn(D))
           /\ CallsIn(D)' = CallsIn(D) /\ LeftIn(D)' = LeftIn(D)
  <2>1. /\ Cardinality(FramesIn(D)') = Cardinality(FramesIn(D)) - (IF d \in D THEN 1 ELSE 0)
        /\ d \in D => Cardinality(FramesIn(D)) # 0
    BY <1>2, <1>3, <1>5
  <2> QED
    BY <1>1, <1>2, <1>5, <2>1
<1> QED
  BY <1>4, <1>5

(* A call made as C++ recursion is one more entered with its declaration.  *)
LEMMA EnteredNative ==
  ASSUME Shapes, native # <<>>, NEW x \in Activations, x.type = "call",
         native' = Append(native, x), vm' = vm, abandoned' = abandoned, NEW D
  PROVE  Entered(D)' = Entered(D) + (IF x.handle.decl \in D THEN 1 ELSE 0)
<1> PICK n \in Nat : n = Len(native)
  BY LengthsNat
<1>1. /\ native'[n + 1] = x
      /\ \A i \in 1..n : native'[i] = native[i]
  BY PushedNative
<1>2. NativeOf("call")' = NativeOf("call") \cup {n + 1} /\ n + 1 \notin NativeOf("call")
  BY PlacesPushed
<1>3. \A i \in NativeOf("call") : native'[i] = native[i]
  BY <1>1 DEF NativeOf
<1>4. CallsIn(D)' = IF x.handle.decl \in D THEN CallsIn(D) \cup {n + 1} ELSE CallsIn(D)
  BY <1>1, <1>2, <1>3 DEF CallsIn
<1>5. n + 1 \notin CallsIn(D)
  BY <1>2 DEF CallsIn
<1>6. FramesIn(D)' = FramesIn(D) /\ LeftIn(D)' = LeftIn(D)
  BY DEF FramesIn, LeftIn, Brackets
<1> QED
  BY <1>4, <1>5, <1>6, EnteredMore

(* A call in the VM is too.                                                *)
LEMMA EnteredFrame ==
  ASSUME Shapes, NEW f \in VmFrames, FrameOK(f), f.handle # NoHandle,
         vm' = Append(vm, f), native' = native, abandoned' = abandoned, NEW D
  PROVE  Entered(D)' = Entered(D) + (IF f.handle.decl \in D THEN 1 ELSE 0)
<1> PICK m \in Nat : m = Len(vm)
  BY LengthsNat
<1>1. vm'[m + 1] = f
  BY PushedVm
<1>2. /\ Brackets' = Brackets \cup {m + 1} /\ m + 1 \notin Brackets
      /\ \A k \in Brackets : vm'[k] = vm[k]
  BY BracketsPushed
<1>3. FramesIn(D)' = IF f.handle.decl \in D THEN FramesIn(D) \cup {m + 1} ELSE FramesIn(D)
  BY <1>1, <1>2 DEF FramesIn
<1>4. m + 1 \notin FramesIn(D)
  BY <1>2 DEF FramesIn
<1>5. CallsIn(D)' = CallsIn(D) /\ LeftIn(D)' = LeftIn(D)
  BY DEF CallsIn, NativeOf, LeftIn
<1> QED
  BY <1>3, <1>4, <1>5, EnteredMore

(* So is a call that is abandoned at its entry.                            *)
LEMMA EnteredAbandoned ==
  ASSUME Shapes, NEW d \in Decl, NEW skip \in BOOLEAN, EntryStopped(d, skip)
  PROVE  /\ \A D : Entered(D)' = Entered(D) + (IF d \in D THEN 1 ELSE 0)
         /\ Cardinality(CountedAbandoned') =
              Cardinality(CountedAbandoned) + (IF skip THEN 0 ELSE 1)
<1> PICK n \in Nat : n = Len(abandoned)
  BY CountedFinite
<1>1. /\ Len(abandoned') = n + 1
      /\ abandoned'[n + 1] = Handle(d, ~skip)
      /\ \A a \in 1..n : abandoned'[a] = abandoned[a]
  BY Abandoning
<1>2. \A a : a \in 1..(n + 1) <=> a \in 1..n \/ a = n + 1
  OBVIOUS
<1>3. n + 1 \notin 1..n
  OBVIOUS
<1>4. abandoned'[n + 1].decl = d /\ abandoned'[n + 1].counted = ~skip
  BY <1>1 DEF Handle
<1>5. native' = native /\ vm' = vm
  BY DEF EntryStopped
<1>6. ASSUME NEW D
      PROVE  Entered(D)' = Entered(D) + (IF d \in D THEN 1 ELSE 0)
  <2>1. LeftIn(D)' = IF d \in D THEN LeftIn(D) \cup {n + 1} ELSE LeftIn(D)
    <3>1. LeftIn(D)' = {a \in 1..(n + 1) : abandoned'[a].decl \in D}
      BY <1>1 DEF LeftIn
    <3>2. LeftIn(D) = {a \in 1..n : abandoned[a].decl \in D}
      BY DEF LeftIn
    <3> QED
      BY <3>1, <3>2, <1>1, <1>2, <1>4, Zenon
  <2>2. n + 1 \notin LeftIn(D)
    BY <1>3 DEF LeftIn
  <2>3. CallsIn(D)' = CallsIn(D) /\ FramesIn(D)' = FramesIn(D)
    BY <1>5 DEF CallsIn, FramesIn, NativeOf, Brackets
  <2> QED
    BY <2>1, <2>2, <2>3, EnteredMore
<1>7. CountedAbandoned' =
        IF skip THEN CountedAbandoned ELSE CountedAbandoned \cup {n + 1}
  <2>1. CountedAbandoned' = {a \in 1..(n + 1) : abandoned'[a].counted}
    BY <1>1 DEF CountedAbandoned
  <2>2. CountedAbandoned = {a \in 1..n : abandoned[a].counted}
    BY DEF CountedAbandoned
  <2>3. \A a : a \in CountedAbandoned' <=> a \in CountedAbandoned \/ (a = n + 1 /\ ~skip)
    BY <2>1, <2>2, <1>1, <1>2, <1>3, <1>4
  <2> QED
    BY <2>3
<1>8. n + 1 \notin CountedAbandoned
  BY <1>3 DEF CountedAbandoned
<1>9. IsFiniteSet(CountedAbandoned) /\ Cardinality(CountedAbandoned) \in Nat
  BY CountedFinite
<1>10. Cardinality(CountedAbandoned') =
         Cardinality(CountedAbandoned) + (IF skip THEN 0 ELSE 1)
  BY <1>7, <1>8, <1>9, OneMore
<1> QED
  BY <1>6, <1>10

(* The innermost native call goes.                                         *)
LEMMA EnteredNativeLeft ==
  ASSUME Shapes, native # <<>>, Last(native).type = "call",
         native' = Front(native), vm' = vm, abandoned' = abandoned, NEW D
  PROVE  /\ Entered(D)' = Entered(D) - (IF Last(native).handle.decl \in D THEN 1 ELSE 0)
         /\ Last(native).handle.decl \in D => Entered(D) # 0
<1> PICK n \in Nat : n = Len(native)
  BY LengthsNat
<1>1. /\ NativeOf("call")' = NativeOf("call") \ {n}
      /\ n \in NativeOf("call")
  BY PlacesPopped
<1>2. \A i \in 1..(n - 1) : native'[i] = native[i]
  BY PoppedNative
<1>3. \A i \in 1..n : i # n => i \in 1..(n - 1)
  OBVIOUS
<1>4. \A i \in NativeOf("call") : i # n => native'[i] = native[i]
  BY <1>2, <1>3 DEF NativeOf
<1>5. CallsIn(D)' = CallsIn(D) \ {n}
  BY <1>1, <1>4 DEF CallsIn
<1>6. Last(native).handle.decl \in D <=> n \in CallsIn(D)
  BY <1>1 DEF CallsIn, Last
<1>7. FramesIn(D)' = FramesIn(D) /\ LeftIn(D)' = LeftIn(D)
  BY DEF FramesIn, LeftIn, Brackets
<1> QED
  BY <1>5, <1>6, <1>7, EnteredLess

(* The innermost call of the VM goes.                                      *)
LEMMA EnteredFrameLeft ==
  ASSUME Shapes, vm # <<>>, vm' = Front(vm), Last(vm).handle # NoHandle,
         NativeOf("call")' = NativeOf("call"),
         \A i \in NativeOf("call") : native'[i].handle = native[i].handle,
         abandoned' = abandoned, NEW D
  PROVE  /\ Entered(D)' = Entered(D) - (IF Last(vm).handle.decl \in D THEN 1 ELSE 0)
         /\ Last(vm).handle.decl \in D => Entered(D) # 0
<1> PICK m \in Nat : m = Len(vm)
  BY LengthsNat
<1>1. /\ Brackets' = Brackets \ {m} /\ m \in Brackets
      /\ \A k \in Brackets' : vm'[k] = vm[k]
  BY BracketsPopped
<1>2. FramesIn(D)' = FramesIn(D) \ {m}
  BY <1>1 DEF FramesIn
<1>3. Last(vm).handle.decl \in D <=> m \in FramesIn(D)
  BY <1>1 DEF FramesIn, Last
<1>4. CallsIn(D)' = CallsIn(D) /\ LeftIn(D)' = LeftIn(D)
  BY CallsInStill, LeftInStill
<1> QED
  BY <1>2, <1>3, <1>4, EnteredLess

(* Nothing of the kind happens.                                            *)
LEMMA EnteredStill ==
  ASSUME NativeOf("call")' = NativeOf("call"),
         \A i \in NativeOf("call") : native'[i].handle = native[i].handle,
         Brackets' = Brackets,
         \A k \in Brackets : vm'[k].handle = vm[k].handle,
         abandoned' = abandoned
  PROVE  /\ \A D : Entered(D)' = Entered(D)
         /\ CountedAbandoned' = CountedAbandoned
<1>1. ASSUME NEW D PROVE Entered(D)' = Entered(D)
  <2>1. CallsIn(D)' = CallsIn(D) /\ FramesIn(D)' = FramesIn(D) /\ LeftIn(D)' = LeftIn(D)
    BY CallsInStill, FramesInStill, LeftInStill
  <2> QED
    BY <2>1, EnteredNext DEF Entered, CallsIn, FramesIn, LeftIn
<1> QED
  BY <1>1 DEF CountedAbandoned

(* A call that is open has been entered with something.                    *)
LEMMA EnteredOpen ==
  ASSUME Shapes, NEW D,
         \/ \E i \in NativeOf("call") : native[i].handle.decl \in D
         \/ \E k \in Brackets : vm[k].handle.decl \in D
  PROVE  Entered(D) \in Nat \ {0}
<1>1. CallsIn(D) # {} \/ FramesIn(D) # {}
  BY DEF CallsIn, FramesIn
<1>2. /\ Entered(D) = Cardinality(CallsIn(D)) + Cardinality(FramesIn(D))
                        + Cardinality(LeftIn(D))
      /\ IsFiniteSet(CallsIn(D)) /\ Cardinality(CallsIn(D)) \in Nat
      /\ IsFiniteSet(FramesIn(D)) /\ Cardinality(FramesIn(D)) \in Nat
      /\ Cardinality(LeftIn(D)) \in Nat
  BY EnteredMeans
<1>3. Cardinality(CallsIn(D)) # 0 \/ Cardinality(FramesIn(D)) # 0
  BY <1>1, <1>2, FS_EmptySet
<1> QED
  BY <1>2, <1>3

(* The call stack when a call is entered.                                  *)
LEMMA EnteredCounts ==
  ASSUME Shapes, NEW d \in Decl, NEW skip \in BOOLEAN, CountCall(d, skip)
  PROVE  /\ Cardinality(ModulesOnStack') =
              Cardinality(ModulesOnStack) + (IF d \in Modules THEN 1 ELSE 0)
         /\ \A e : Cardinality(Occurrences(e)') =
              Cardinality(Occurrences(e)) + (IF e = d THEN 1 ELSE 0)
         /\ Len(callStack') = Len(callStack) + 1
<1>0. callStack \in Seq(Decl)
  BY DEF Shapes
<1> PICK c \in Nat : c = Len(callStack)
  BY <1>0
<1>1. /\ Len(callStack') = c + 1
      /\ callStack'[c + 1] = d
      /\ \A p \in 1..c : callStack'[p] = callStack[p]
  BY EnteredCall
<1>2. \A p : p \in 1..(c + 1) <=> p \in 1..c \/ p = c + 1
  OBVIOUS
<1>3. c + 1 \notin 1..c
  OBVIOUS
<1>4. ModulesOnStack' = IF d \in Modules THEN ModulesOnStack \cup {c + 1} ELSE ModulesOnStack
  <2>1. ModulesOnStack' = {p \in 1..(c + 1) : callStack'[p] \in Modules}
    BY <1>1 DEF ModulesOnStack
  <2>2. ModulesOnStack = {p \in 1..c : callStack[p] \in Modules}
    BY DEF ModulesOnStack
  <2> QED
    BY <2>1, <2>2, <1>1, <1>2, Zenon
<1>5. \A e : Occurrences(e)' = IF e = d THEN Occurrences(e) \cup {c + 1} ELSE Occurrences(e)
  <2> TAKE e
  <2>1. Occurrences(e)' = {p \in 1..(c + 1) : callStack'[p] = e}
    BY <1>1 DEF Occurrences
  <2>2. Occurrences(e) = {p \in 1..c : callStack[p] = e}
    BY DEF Occurrences
  <2> QED
    BY <2>1, <2>2, <1>1, <1>2, Zenon
<1>6. c + 1 \notin ModulesOnStack /\ \A e : c + 1 \notin Occurrences(e)
  BY <1>3 DEF ModulesOnStack, Occurrences
<1>7. Cardinality(ModulesOnStack') =
        Cardinality(ModulesOnStack) + (IF d \in Modules THEN 1 ELSE 0)
  BY <1>4, <1>6, CountedFinite, OneMore
<1>8. \A e : Cardinality(Occurrences(e)') =
        Cardinality(Occurrences(e)) + (IF e = d THEN 1 ELSE 0)
  BY <1>5, <1>6, CountedFinite, OneMore
<1> QED
  BY <1>1, <1>7, <1>8

(* When one is left.                                                       *)
LEMMA LeftCounts ==
  ASSUME Shapes, callStack # <<>>, NEW h, h.decl \in Decl, ExitUserCall(h)
  PROVE  LET d == callStack[Len(callStack)] IN
         /\ Cardinality(ModulesOnStack') =
              Cardinality(ModulesOnStack) - (IF d \in Modules THEN 1 ELSE 0)
         /\ \A e : Cardinality(Occurrences(e)') =
              Cardinality(Occurrences(e)) - (IF e = d THEN 1 ELSE 0)
         /\ Len(callStack') = Len(callStack) - 1
         /\ Cardinality(Occurrences(d)) # 0
<1>0. callStack \in Seq(Decl)
  BY DEF Shapes
<1> PICK c \in Nat : c = Len(callStack)
  BY <1>0
<1> DEFINE d == callStack[c]
<1>1. /\ Len(callStack') = c - 1 /\ c # 0
      /\ \A p \in 1..(c - 1) : callStack'[p] = callStack[p]
  BY LeftCall
<1> HIDE DEF d
<1>2. \A p : p \in 1..(c - 1) <=> p \in 1..c /\ p # c
  OBVIOUS
<1>3. c \in 1..c
  BY <1>1
<1>4. ModulesOnStack' = ModulesOnStack \ {c}
  <2>1. ModulesOnStack' = {p \in 1..(c - 1) : callStack'[p] \in Modules}
    BY <1>1 DEF ModulesOnStack
  <2>2. ModulesOnStack = {p \in 1..c : callStack[p] \in Modules}
    BY DEF ModulesOnStack
  <2> QED
    BY <2>1, <2>2, <1>1, <1>2, Zenon
<1>5. \A e : Occurrences(e)' = Occurrences(e) \ {c}
  <2> TAKE e
  <2>1. Occurrences(e)' = {p \in 1..(c - 1) : callStack'[p] = e}
    BY <1>1 DEF Occurrences
  <2>2. Occurrences(e) = {p \in 1..c : callStack[p] = e}
    BY DEF Occurrences
  <2> QED
    BY <2>1, <2>2, <1>1, <1>2, Zenon
<1>6. /\ c \in ModulesOnStack <=> d \in Modules
      /\ \A e : c \in Occurrences(e) <=> e = d
  BY <1>3 DEF ModulesOnStack, Occurrences, d
<1>7. Cardinality(ModulesOnStack') =
        Cardinality(ModulesOnStack) - (IF d \in Modules THEN 1 ELSE 0)
  <2>1. CASE d \in Modules
    BY <2>1, <1>4, <1>6, CountedFinite, OneLess
  <2>2. CASE d \notin Modules
    <3>1. ModulesOnStack' = ModulesOnStack
      BY <2>2, <1>4, <1>6
    <3> QED
      BY <2>2, <3>1, CountedFinite
  <2> QED
    BY <2>1, <2>2
<1>8. ASSUME NEW e
      PROVE  Cardinality(Occurrences(e)') =
               Cardinality(Occurrences(e)) - (IF e = d THEN 1 ELSE 0)
  <2>1. CASE e = d
    BY <2>1, <1>5, <1>6, CountedFinite, OneLess
  <2>2. CASE e # d
    <3>1. Occurrences(e)' = Occurrences(e)
      BY <2>2, <1>5, <1>6
    <3> QED
      BY <2>2, <3>1, CountedFinite
  <2> QED
    BY <2>1, <2>2
<1>9. Cardinality(Occurrences(d)) # 0
  BY <1>6, CountedFinite, OneLess
<1> QED
  BY <1>1, <1>7, <1>8, <1>9 DEF d

(* The bag of active declarations when a call is entered.                  *)
LEMMA ActiveEntered ==
  ASSUME Shapes, ActiveDeclsExact, NEW d \in Decl, NEW skip \in BOOLEAN,
         CountCall(d, skip), abandoned' = <<>> => abandoned = <<>>,
         \A D : Entered(D)' = Entered(D) + (IF d \in D THEN 1 ELSE 0)
  PROVE  ActiveDeclsExact'
<1>1. active \in [Decl -> Nat]
  BY DEF Shapes
<1>2. active' = [active EXCEPT ![d] = @ + 1] /\ crossed' = crossed
  BY DEF CountCall, NoteActiveDeclEnter
<1>3. \A e : Cardinality(Occurrences(e)') =
        Cardinality(Occurrences(e)) + (IF e = d THEN 1 ELSE 0)
  BY EnteredCounts
<1>4. ASSUME ~crossed, NEW e \in Decl
      PROVE  /\ active'[e] = Entered({e})'
             /\ abandoned' = <<>> => active'[e] = Cardinality(Occurrences(e)')
  <2>1. /\ active[e] = Entered({e}) /\ active[e] \in Nat
        /\ abandoned = <<>> => active[e] = Cardinality(Occurrences(e))
    BY <1>1, <1>4 DEF ActiveDeclsExact
  <2>2. active'[e] = active[e] + (IF e = d THEN 1 ELSE 0)
    BY <1>1, <1>2, <2>1
  <2>3. Entered({e})' = Entered({e}) + (IF e = d THEN 1 ELSE 0)
    <3>1. Entered({e})' = Entered({e}) + (IF d \in {e} THEN 1 ELSE 0)
      OBVIOUS
    <3>2. d \in {e} <=> e = d
      OBVIOUS
    <3> QED
      BY <3>1, <3>2
  <2>4. active'[e] = Entered({e})'
    BY <2>1, <2>2, <2>3
  <2>5. abandoned' = <<>> => active'[e] = Cardinality(Occurrences(e)')
    BY <1>3, <2>1, <2>2
  <2> QED
    BY <2>4, <2>5
<1> QED
  BY <1>2, <1>4 DEF ActiveDeclsExact

(* When one is left by the declaration it was entered with.                *)
LEMMA ActiveLeft ==
  ASSUME Shapes, ActiveDeclsExact, callStack # <<>>, NEW h, h.decl \in Decl,
         abandoned = <<>> /\ ~crossed => callStack[Len(callStack)] = h.decl,
         ExitUserCall(h),
         \A D : /\ Entered(D)' = Entered(D) - (IF h.decl \in D THEN 1 ELSE 0)
                /\ h.decl \in D => Entered(D) # 0
  PROVE  ActiveDeclsExact'
<1> DEFINE d == callStack[Len(callStack)]
<1>1. active \in [Decl -> Nat]
  BY DEF Shapes
<1>2. /\ active' = [active EXCEPT ![h.decl] = IF @ > 0 THEN @ - 1 ELSE 0]
      /\ crossed' = crossed /\ abandoned' = abandoned
  BY DEF ExitUserCall, NoteActiveDeclExit
<1>3. \A e : Cardinality(Occurrences(e)') =
        Cardinality(Occurrences(e)) - (IF e = d THEN 1 ELSE 0)
  BY LeftCounts
<1> HIDE DEF d
<1>4. ASSUME ~crossed, NEW e \in Decl
      PROVE  /\ active'[e] = Entered({e})'
             /\ abandoned' = <<>> => active'[e] = Cardinality(Occurrences(e)')
  <2>1. /\ active[e] = Entered({e}) /\ active[e] \in Nat
        /\ abandoned = <<>> => active[e] = Cardinality(Occurrences(e))
    BY <1>1, <1>4 DEF ActiveDeclsExact
  <2>2. /\ Entered({e})' = Entered({e}) - (IF e = h.decl THEN 1 ELSE 0)
        /\ e = h.decl => Entered({e}) # 0
    <3>1. /\ Entered({e})' = Entered({e}) - (IF h.decl \in {e} THEN 1 ELSE 0)
          /\ h.decl \in {e} => Entered({e}) # 0
      OBVIOUS
    <3>2. h.decl \in {e} <=> e = h.decl
      OBVIOUS
    <3> QED
      BY <3>1, <3>2
  <2>3. active'[e] = active[e] - (IF e = h.decl THEN 1 ELSE 0)
    <3>1. CASE e = h.decl
      <4>1. active[e] > 0
        BY <2>1, <2>2, <3>1
      <4> QED
        BY <1>1, <1>2, <3>1, <4>1
    <3>2. CASE e # h.decl
      BY <1>1, <1>2, <2>1, <3>2
    <3> QED
      BY <3>1, <3>2
  <2>4. active'[e] = Entered({e})'
    BY <2>1, <2>2, <2>3
  <2>5. abandoned' = <<>> => active'[e] = Cardinality(Occurrences(e)')
    <3>1. abandoned = <<>> => d = h.decl
      BY <1>4 DEF d
    <3> QED
      BY <1>2, <1>3, <2>1, <2>3, <3>1
  <2> QED
    BY <2>4, <2>5
<1> QED
  BY <1>2, <1>4 DEF ActiveDeclsExact

(* A function that takes over the call of a function changes no count.     *)
LEMMA HoppedCounts ==
  ASSUME Shapes, ActiveDeclsExact, callStack # <<>>, NEW d \in Functions,
         callStack[Len(callStack)] \notin Modules, RecordTailCallHop(d),
         ~crossed => Entered({callStack[Len(callStack)]}) # 0,
         \A D : Entered(D)' = Entered(D)
  PROVE  /\ ModulesOnStack' = ModulesOnStack
         /\ Len(callStack') = Len(callStack)
         /\ moduleDepth' = moduleDepth /\ nativeDepth' = nativeDepth
         /\ abandoned' = abandoned
         /\ ActiveDeclsExact'
<1>0. callStack \in Seq(Decl) /\ active \in [Decl -> Nat]
  BY DEF Shapes
<1> PICK c \in Nat : c = Len(callStack)
  BY <1>0
<1> DEFINE l == Last(callStack)
<1>1. /\ Len(callStack') = c /\ c # 0
      /\ l \in Decl
      /\ callStack'[c] = d
      /\ \A p \in 1..(c - 1) : callStack'[p] = callStack[p]
      /\ ~crossed' => ~crossed /\ d = l
  BY HoppedCall DEF Decl
<1>2. /\ active' = [[active EXCEPT ![l] = IF @ > 0 THEN @ - 1 ELSE 0] EXCEPT ![d] = @ + 1]
      /\ moduleDepth' = moduleDepth /\ nativeDepth' = nativeDepth
      /\ abandoned' = abandoned
  BY DEF RecordTailCallHop, NoteActiveDeclExit, NoteActiveDeclEnter
<1>3. \A p \in 1..c : p # c => p \in 1..(c - 1)
  OBVIOUS
<1>4. \A p \in 1..c : p # c => callStack'[p] = callStack[p]
  BY <1>1, <1>3
<1>5. d \notin Modules
  BY CallsAssumption
<1>6. ModulesOnStack' = ModulesOnStack
  <2>1. ModulesOnStack' = {p \in 1..c : callStack'[p] \in Modules}
    BY <1>1 DEF ModulesOnStack
  <2>2. \A p \in 1..c : callStack'[p] \in Modules <=> callStack[p] \in Modules
    BY <1>1, <1>4, <1>5
  <2> QED
    BY <2>1, <2>2 DEF ModulesOnStack
<1>7. callStack[c] = l
  BY DEF Last
<1> HIDE DEF l
<1>8. ASSUME ~crossed', NEW e \in Decl
      PROVE  /\ active'[e] = Entered({e})'
             /\ abandoned' = <<>> => active'[e] = Cardinality(Occurrences(e)')
  <2>1. /\ active[e] = Entered({e}) /\ active[e] \in Nat
        /\ abandoned = <<>> => active[e] = Cardinality(Occurrences(e))
    BY <1>0, <1>1, <1>8 DEF ActiveDeclsExact
  <2>2. Occurrences(e)' = Occurrences(e)
    <3>1. Occurrences(e)' = {p \in 1..c : callStack'[p] = e}
      BY <1>1 DEF Occurrences
    <3>2. \A p \in 1..c : callStack'[p] = callStack[p]
      BY <1>1, <1>4, <1>7, <1>8
    <3> QED
      BY <3>1, <3>2 DEF Occurrences
  <2>3. d = l
    BY <1>1, <1>8
  <2>4. active'[e] = active[e]
    <3>1. CASE e = l
      <4>1. active[e] > 0
        BY <1>1, <1>7, <1>8, <2>1, <3>1
      <4>2. active'[e] = active[e] - 1 + 1
        BY <1>0, <1>2, <2>3, <3>1, <4>1
      <4> QED
        BY <2>1, <4>2
    <3>2. CASE e # l
      BY <1>0, <1>1, <1>2, <2>3, <3>2
    <3> QED
      BY <3>1, <3>2
  <2>5. Entered({e})' = Entered({e})
    OBVIOUS
  <2> QED
    BY <1>2, <2>1, <2>2, <2>4, <2>5
<1>9. ActiveDeclsExact'
  BY <1>8 DEF ActiveDeclsExact
<1> QED
  BY <1>1, <1>2, <1>6, <1>9

(* What the counters count, and what they are.                             *)
LEMMA CountedOf ==
  ASSUME Len(callStack') = Cardinality(NativeOf("call")') + Cardinality(Brackets')
                             + Len(abandoned'),
         moduleDepth' = Entered(Modules)',
         nativeDepth' = Cardinality(NativeOf("call")') + Cardinality(CountedAbandoned'),
         driveDepth' = Cardinality(NativeOf("drive")'),
         abandoned' = <<>> => moduleDepth' = Cardinality(ModulesOnStack'),
         ActiveDeclsExact'
  PROVE  Counted'
BY DEF Counted, CountersExact

LEMMA CountedMeans ==
  ASSUME Counted
  PROVE  /\ Len(callStack) = Cardinality(NativeOf("call")) + Cardinality(Brackets)
                               + Len(abandoned)
         /\ moduleDepth = Entered(Modules)
         /\ nativeDepth = Cardinality(NativeOf("call")) + Cardinality(CountedAbandoned)
         /\ driveDepth = Cardinality(NativeOf("drive"))
         /\ abandoned = <<>> => moduleDepth = Cardinality(ModulesOnStack)
         /\ ActiveDeclsExact
BY DEF Counted, CountersExact

(* A step that neither opens nor closes a call counts as before.           *)
LEMMA CallsStill ==
  ASSUME Counted, calls' = calls,
         NativeOf("call")' = NativeOf("call"),
         \A i \in NativeOf("call") : native'[i].handle = native[i].handle,
         Brackets' = Brackets,
         \A k \in Brackets : vm'[k].handle = vm[k].handle,
         driveDepth' = Cardinality(NativeOf("drive")')
  PROVE  Counted'
<1>1. /\ callStack' = callStack /\ active' = active /\ crossed' = crossed
      /\ moduleDepth' = moduleDepth /\ nativeDepth' = nativeDepth
      /\ abandoned' = abandoned
  BY DEF calls
<1>2. ModulesOnStack' = ModulesOnStack /\ \A e : Occurrences(e)' = Occurrences(e)
  BY <1>1 DEF ModulesOnStack, Occurrences
<1>3. /\ \A D : Entered(D)' = Entered(D)
      /\ CountedAbandoned' = CountedAbandoned
  BY <1>1, EnteredStill
<1>4. Entered(Modules)' = Entered(Modules)
  BY <1>3
<1>5. ActiveDeclsExact'
  <2>1. ASSUME ~crossed, NEW e \in Decl
        PROVE  /\ active'[e] = Entered({e})'
               /\ abandoned' = <<>> => active'[e] = Cardinality(Occurrences(e)')
    <3>1. Entered({e})' = Entered({e})
      BY <1>3
    <3> QED
      BY <1>1, <1>2, <2>1, <3>1, CountedMeans DEF ActiveDeclsExact
  <2> QED
    BY <1>1, <2>1 DEF ActiveDeclsExact
<1> QED
  BY <1>1, <1>2, <1>3, <1>4, <1>5, CountedMeans, CountedOf

LEMMA CountedStill ==
  ASSUME Counted, calls' = calls, driveDepth' = driveDepth,
         NativeOf("call")' = NativeOf("call"),
         \A i \in NativeOf("call") : native'[i].handle = native[i].handle,
         NativeOf("drive")' = NativeOf("drive"),
         Brackets' = Brackets,
         \A k \in Brackets : vm'[k].handle = vm[k].handle
  PROVE  Counted'
BY CountedMeans, CallsStill

(* A driver that starts with a frame that is no call.                      *)
LEMMA CountedStart ==
  ASSUME Shapes, Counted, Running,
         NEW f \in VmFrames, FrameOK(f), f.handle = NoHandle, NEW below,
         \/ below = native
         \/ /\ Last(native).type = "call"
            /\ \E c \in Activations :
                 /\ c.type = "call" /\ c.handle = Last(native).handle
                 /\ below = SetLast(native, c),
         DriveVm(below, f)
  PROVE  Counted'
<1>1. calls' = calls /\ driveDepth' = driveDepth + 1 /\ vm' = Append(vm, f)
  BY DEF DriveVm
<1>2. ASSUME NEW t
      PROVE  /\ NativeOf(t)' = IF t = "drive" THEN NativeOf(t) \cup {Len(native) + 1}
                                              ELSE NativeOf(t)
             /\ Len(native) + 1 \notin NativeOf(t)
             /\ \A i \in NativeOf(t) : i # Len(native) => native'[i] = native[i]
             /\ native'[Len(native)] = Last(below)
  BY StartedPlaces
<1>3. NativeOf("call")' = NativeOf("call")
  BY <1>2
<1>4. driveDepth' = Cardinality(NativeOf("drive")')
  <2>1. IsFiniteSet(NativeOf("drive"))
    BY CountedFinite
  <2>2. NativeOf("drive")' = NativeOf("drive") \cup {Len(native) + 1}
        /\ Len(native) + 1 \notin NativeOf("drive")
    BY <1>2
  <2>3. Cardinality(NativeOf("drive")') = Cardinality(NativeOf("drive")) + 1
    BY <2>1, <2>2, OneMore
  <2> QED
    BY <1>1, <2>3, CountedMeans
<1>5. Brackets' = Brackets /\ \A k \in Brackets : vm'[k] = vm[k]
  BY <1>1, BracketsPushed
<1>6. ASSUME NEW i \in NativeOf("call") PROVE native'[i].handle = native[i].handle
  <2>1. CASE i # Len(native)
    BY <1>2, <1>6, <2>1
  <2>2. CASE i = Len(native)
    <3>1. native'[i] = Last(below) /\ native[i] = Last(native)
      BY <1>2, <2>2 DEF Last
    <3>2. CASE below = native
      BY <3>1, <3>2
    <3>3. CASE \E c \in Activations :
                 /\ c.type = "call" /\ c.handle = Last(native).handle
                 /\ below = SetLast(native, c)
      <4> PICK c \in Activations :
            c.handle = Last(native).handle /\ below = SetLast(native, c)
        BY <3>3
      <4>1. native \in Seq(Activations) /\ native # <<>>
        BY DEF Shapes, Running
      <4>2. Last(below) = c
        BY <4>1, LastOfSetLast
      <4> QED
        BY <3>1, <4>2
    <3> QED
      BY <3>2, <3>3
  <2> QED
    BY <2>1, <2>2
<1> QED
  BY <1>1, <1>3, <1>4, <1>5, <1>6, CallsStill

(* A call made as C++ recursion.                                           *)
LEMMA CountedEntered ==
  ASSUME Shapes, Counted, native # <<>>, NEW d \in Decl, NEW catches \in BOOLEAN,
         NativeEntered(d, catches)
  PROVE  Counted'
<1> DEFINE x == Call(d, catches)
<1>1. /\ x \in Activations /\ x.type = "call" /\ x.handle.decl = d
      /\ native' = Append(native, x)
  BY ActivationTypes DEF Call, Handle, NativeEntered
<1>2. /\ CountCall(d, FALSE) /\ vm' = vm /\ driveDepth' = driveDepth
      /\ moduleDepth' = moduleDepth + (IF d \in Modules THEN 1 ELSE 0)
      /\ nativeDepth' = nativeDepth + 1
      /\ abandoned' = abandoned
  BY DEF NativeEntered, EnterUserCall, CountCall
<1> HIDE DEF x
<1>3. NativeOf("call")' = NativeOf("call") \cup {Len(native) + 1}
      /\ Len(native) + 1 \notin NativeOf("call")
  BY <1>1, PlacesPushed
<1>4. NativeOf("drive")' = NativeOf("drive")
  BY <1>1, PlacesPushed
<1>5. Brackets' = Brackets /\ CountedAbandoned' = CountedAbandoned
  BY <1>2 DEF Brackets, CountedAbandoned
<1>6. /\ Cardinality(ModulesOnStack') =
           Cardinality(ModulesOnStack) + (IF d \in Modules THEN 1 ELSE 0)
      /\ Len(callStack') = Len(callStack) + 1
  BY <1>2, EnteredCounts
<1>7. /\ Cardinality(NativeOf("call")') = Cardinality(NativeOf("call")) + 1
      /\ Cardinality(NativeOf("call")) \in Nat /\ Cardinality(Brackets) \in Nat
      /\ Cardinality(CountedAbandoned) \in Nat /\ Len(abandoned) \in Nat
  BY <1>3, CountedFinite, OneMore
<1>8. \A D : Entered(D)' = Entered(D) + (IF d \in D THEN 1 ELSE 0)
  BY <1>1, <1>2, EnteredNative
<1>9. ActiveDeclsExact'
  BY <1>2, <1>8, ActiveEntered, CountedMeans
<1>10. /\ Len(callStack) = Cardinality(NativeOf("call")) + Cardinality(Brackets)
                             + Len(abandoned)
       /\ moduleDepth = Entered(Modules)
       /\ nativeDepth = Cardinality(NativeOf("call")) + Cardinality(CountedAbandoned)
       /\ driveDepth = Cardinality(NativeOf("drive"))
       /\ abandoned = <<>> => moduleDepth = Cardinality(ModulesOnStack)
  BY CountedMeans
<1>11. Len(callStack') = Cardinality(NativeOf("call")') + Cardinality(Brackets')
                           + Len(abandoned')
  BY <1>2, <1>5, <1>6, <1>7, <1>10
<1>12. moduleDepth' = Entered(Modules)'
  <2>1. Entered(Modules)' = Entered(Modules) + (IF d \in Modules THEN 1 ELSE 0)
    BY <1>8
  <2> QED
    BY <1>2, <1>10, <2>1
<1>13. nativeDepth' = Cardinality(NativeOf("call")') + Cardinality(CountedAbandoned')
  BY <1>2, <1>5, <1>7, <1>10
<1>14. /\ driveDepth' = Cardinality(NativeOf("drive")')
       /\ abandoned' = <<>> => moduleDepth' = Cardinality(ModulesOnStack')
  BY <1>2, <1>4, <1>6, <1>10
<1> QED
  BY <1>9, <1>11, <1>12, <1>13, <1>14, CountedOf

(* A call inside the VM.                                                   *)
LEMMA CountedBracket ==
  ASSUME Shapes, Counted, NEW d \in Decl, NEW f \in VmFrames, FrameOK(f),
         f.handle # NoHandle, f.handle.decl = d, EnterUserCall(d, TRUE),
         vm' = Append(vm, f), native' = native, driveDepth' = driveDepth
  PROVE  Counted'
<1>1. /\ CountCall(d, TRUE)
      /\ moduleDepth' = moduleDepth + (IF d \in Modules THEN 1 ELSE 0)
      /\ nativeDepth' = nativeDepth
      /\ abandoned' = abandoned
  BY DEF EnterUserCall, CountCall, Shapes
<1>2. /\ NativeOf("call")' = NativeOf("call") /\ NativeOf("drive")' = NativeOf("drive")
      /\ CountedAbandoned' = CountedAbandoned
  BY <1>1 DEF NativeOf, CountedAbandoned
<1>3. Brackets' = Brackets \cup {Len(vm) + 1} /\ Len(vm) + 1 \notin Brackets
  BY BracketsPushed
<1>4. /\ Cardinality(ModulesOnStack') =
           Cardinality(ModulesOnStack) + (IF d \in Modules THEN 1 ELSE 0)
      /\ Len(callStack') = Len(callStack) + 1
  BY <1>1, EnteredCounts
<1>5. /\ Cardinality(Brackets') = Cardinality(Brackets) + 1
      /\ Cardinality(NativeOf("call")) \in Nat /\ Cardinality(Brackets) \in Nat
      /\ Len(abandoned) \in Nat
  BY <1>3, CountedFinite, OneMore
<1>6. \A D : Entered(D)' = Entered(D) + (IF d \in D THEN 1 ELSE 0)
  BY <1>1, EnteredFrame
<1>7. ActiveDeclsExact'
  BY <1>1, <1>6, ActiveEntered, CountedMeans
<1>8. /\ Len(callStack) = Cardinality(NativeOf("call")) + Cardinality(Brackets)
                            + Len(abandoned)
      /\ moduleDepth = Entered(Modules)
      /\ nativeDepth = Cardinality(NativeOf("call")) + Cardinality(CountedAbandoned)
      /\ driveDepth = Cardinality(NativeOf("drive"))
      /\ abandoned = <<>> => moduleDepth = Cardinality(ModulesOnStack)
  BY CountedMeans
<1>9. Len(callStack') = Cardinality(NativeOf("call")') + Cardinality(Brackets')
                          + Len(abandoned')
  BY <1>1, <1>2, <1>4, <1>5, <1>8
<1>10. moduleDepth' = Entered(Modules)'
  <2>1. Entered(Modules)' = Entered(Modules) + (IF d \in Modules THEN 1 ELSE 0)
    BY <1>6
  <2> QED
    BY <1>1, <1>8, <2>1
<1>11. abandoned' = <<>> => moduleDepth' = Cardinality(ModulesOnStack')
  BY <1>1, <1>4, <1>8
<1> QED
  BY <1>1, <1>2, <1>7, <1>8, <1>9, <1>10, <1>11, CountedOf

(* A call whose entry is where the host stops.                             *)
LEMMA CountedStopped ==
  ASSUME Shapes, Counted, NEW d \in Decl, NEW skip \in BOOLEAN, EntryStopped(d, skip)
  PROVE  Counted'
<1>1. /\ CountCall(d, skip) /\ d \in Functions
      /\ vm' = vm /\ native' = native /\ driveDepth' = driveDepth
  BY DEF EntryStopped, StopAtEntry
<1>2. /\ moduleDepth' = moduleDepth + (IF d \in Modules THEN 1 ELSE 0)
      /\ nativeDepth' = nativeDepth + (IF skip THEN 0 ELSE 1)
  BY <1>1 DEF CountCall
<1>3. /\ NativeOf("call")' = NativeOf("call") /\ NativeOf("drive")' = NativeOf("drive")
      /\ Brackets' = Brackets
  BY <1>1 DEF NativeOf, Brackets
<1>4. Len(abandoned') = Len(abandoned) + 1 /\ abandoned' # <<>>
  BY Abandoning
<1>5. /\ \A D : Entered(D)' = Entered(D) + (IF d \in D THEN 1 ELSE 0)
      /\ Cardinality(CountedAbandoned') =
           Cardinality(CountedAbandoned) + (IF skip THEN 0 ELSE 1)
  BY EnteredAbandoned
<1>6. ActiveDeclsExact'
  BY <1>1, <1>4, <1>5, ActiveEntered, CountedMeans
<1>7. Len(callStack') = Len(callStack) + 1
  BY <1>1, EnteredCounts
<1>8. /\ Cardinality(NativeOf("call")) \in Nat /\ Cardinality(Brackets) \in Nat
      /\ Cardinality(CountedAbandoned) \in Nat /\ Len(abandoned) \in Nat
  BY CountedFinite
<1>9. /\ Len(callStack) = Cardinality(NativeOf("call")) + Cardinality(Brackets)
                            + Len(abandoned)
      /\ moduleDepth = Entered(Modules)
      /\ nativeDepth = Cardinality(NativeOf("call")) + Cardinality(CountedAbandoned)
      /\ driveDepth = Cardinality(NativeOf("drive"))
  BY CountedMeans
<1>10. Len(callStack') = Cardinality(NativeOf("call")') + Cardinality(Brackets')
                           + Len(abandoned')
  BY <1>3, <1>4, <1>7, <1>8, <1>9
<1>11. moduleDepth' = Entered(Modules)'
  <2>1. Entered(Modules)' = Entered(Modules) + (IF d \in Modules THEN 1 ELSE 0)
    BY <1>5
  <2> QED
    BY <1>2, <1>9, <2>1
<1>12. nativeDepth' = Cardinality(NativeOf("call")') + Cardinality(CountedAbandoned')
  BY <1>2, <1>3, <1>5, <1>8, <1>9
<1> QED
  BY <1>1, <1>3, <1>4, <1>6, <1>9, <1>10, <1>11, <1>12, CountedOf

(* The innermost native call is left.                                      *)
LEMMA CountedLeft ==
  ASSUME Shapes, CallsPlaced, Counted, native # <<>>, CallLeft
  PROVE  Counted'
<1> DEFINE h == Last(native).handle
           d == callStack[Len(callStack)]
<1>1. /\ Last(native).type = "call" /\ native' = Front(native)
      /\ ExitUserCall(h) /\ vm' = vm /\ driveDepth' = driveDepth
      /\ abandoned' = abandoned
  BY DEF CallLeft, ExitUserCall
<1>2. /\ NativeOf("call")' = NativeOf("call") \ {Len(native)}
      /\ Len(native) \in NativeOf("call")
  <2>1. Last(native).type # "top"
    BY <1>1
  <2>2. /\ NativeOf("call")' = NativeOf("call") \ {Len(native)}
        /\ Len(native) \in NativeOf("call") <=> Last(native).type = "call"
    BY <1>1, <2>1, PlacesPopped
  <2> QED
    BY <1>1, <2>2
<1>3. callStack # <<>>
  BY <1>2, InsideCall
<1>4. abandoned = <<>> =>
        /\ d \in Modules <=> h.decl \in Modules
        /\ ~crossed => d = h.decl
  BY <1>1, TopIsNative DEF CallsPlaced
<1>5. h.decl \in Decl /\ h.counted
  BY <1>1, PoppedNative, ActivationKinds
<1>6. /\ moduleDepth' = moduleDepth - (IF h.decl \in Modules THEN 1 ELSE 0)
      /\ nativeDepth' = nativeDepth - 1
  BY <1>1, <1>5 DEF ExitUserCall
<1>7. /\ Cardinality(ModulesOnStack') =
           Cardinality(ModulesOnStack) - (IF d \in Modules THEN 1 ELSE 0)
      /\ Len(callStack') = Len(callStack) - 1
  BY <1>1, <1>3, <1>5, LeftCounts
<1>8. \A D : /\ Entered(D)' = Entered(D) - (IF h.decl \in D THEN 1 ELSE 0)
             /\ h.decl \in D => Entered(D) # 0
  BY <1>1, EnteredNativeLeft
<1>9. ActiveDeclsExact'
  BY <1>1, <1>3, <1>4, <1>5, <1>8, ActiveLeft, CountedMeans
<1> HIDE DEF h, d
<1>10. NativeOf("drive")' = NativeOf("drive")
  <2>1. Last(native).type # "top" /\ Last(native).type # "drive"
    BY <1>1
  <2>2. /\ NativeOf("drive")' = NativeOf("drive") \ {Len(native)}
        /\ Len(native) \in NativeOf("drive") <=> Last(native).type = "drive"
    BY <1>1, <2>1, PlacesPopped
  <2> QED
    BY <2>1, <2>2
<1>11. Brackets' = Brackets /\ CountedAbandoned' = CountedAbandoned
  BY <1>1 DEF Brackets, CountedAbandoned
<1>12. /\ Cardinality(NativeOf("call")') = Cardinality(NativeOf("call")) - 1
       /\ Cardinality(NativeOf("call")) \in Nat /\ Cardinality(Brackets) \in Nat
       /\ Cardinality(CountedAbandoned) \in Nat /\ Len(abandoned) \in Nat
  BY <1>2, CountedFinite, OneLess
<1>13. /\ Len(callStack) = Cardinality(NativeOf("call")) + Cardinality(Brackets)
                             + Len(abandoned)
       /\ moduleDepth = Entered(Modules)
       /\ nativeDepth = Cardinality(NativeOf("call")) + Cardinality(CountedAbandoned)
       /\ driveDepth = Cardinality(NativeOf("drive"))
       /\ abandoned = <<>> => moduleDepth = Cardinality(ModulesOnStack)
  BY CountedMeans
<1>14. Len(callStack') = Cardinality(NativeOf("call")') + Cardinality(Brackets')
                           + Len(abandoned')
  BY <1>1, <1>7, <1>11, <1>12, <1>13
<1>15. moduleDepth' = Entered(Modules)'
  <2>1. Entered(Modules)' = Entered(Modules) - (IF h.decl \in Modules THEN 1 ELSE 0)
    BY <1>8
  <2> QED
    BY <1>6, <1>13, <2>1
<1>16. /\ nativeDepth' = Cardinality(NativeOf("call")') + Cardinality(CountedAbandoned')
       /\ driveDepth' = Cardinality(NativeOf("drive")')
  BY <1>1, <1>6, <1>10, <1>11, <1>12, <1>13
<1>17. abandoned' = <<>> => moduleDepth' = Cardinality(ModulesOnStack')
  BY <1>1, <1>4, <1>6, <1>7, <1>13
<1> QED
  BY <1>9, <1>14, <1>15, <1>16, <1>17, CountedOf

(* The last frame of the VM goes, and with it its call if it is one.       *)
LEMMA FrameGoneCounts ==
  ASSUME Shapes, CallsPlaced, Counted, vm # <<>>, vm' = Front(vm),
         Len(native) \in Drives, Last(native).floor < Len(vm),
         LeaveBracket(Last(vm)), NativeOf("call")' = NativeOf("call"),
         \A i \in NativeOf("call") : native'[i].handle = native[i].handle,
         driveDepth' = Cardinality(NativeOf("drive")')
  PROVE  Counted'
<1>1. /\ Brackets' = Brackets \ {Len(vm)}
      /\ Len(vm) \in Brackets <=> Last(vm).handle # NoHandle
      /\ \A k \in Brackets' : vm'[k] = vm[k]
  BY BracketsPopped
<1>2. CASE Last(vm).handle = NoHandle
  <2>1. Brackets' = Brackets
    BY <1>1, <1>2
  <2>2. calls' = calls
    BY <1>2 DEF LeaveBracket
  <2> QED
    BY <1>1, <2>1, <2>2, CallsStill
<1>3. CASE Last(vm).handle # NoHandle
  <2> DEFINE h == Last(vm).handle
             d == callStack[Len(callStack)]
  <2>1. ExitUserCall(h) /\ abandoned' = abandoned
    BY <1>3 DEF LeaveBracket, ExitUserCall
  <2>2. callStack # <<>>
    BY <1>1, <1>3, InsideCall
  <2>3. abandoned = <<>> =>
          /\ d \in Modules <=> h.decl \in Modules
          /\ ~crossed => d = h.decl
    BY <1>3, TopIsBracket DEF CallsPlaced
  <2>4. h.decl \in Decl /\ ~h.counted
    <3>1. Last(vm) \in VmFrames
      BY PoppedFrames
    <3>2. h.counted = FALSE
      BY <3>1 DEF VmFrames
    <3> QED
      BY <1>3, <3>2, BracketLeft
  <2>5. /\ moduleDepth' = moduleDepth - (IF h.decl \in Modules THEN 1 ELSE 0)
        /\ nativeDepth' = nativeDepth
    BY <2>1, <2>4 DEF ExitUserCall, Shapes
  <2>6. /\ Cardinality(ModulesOnStack') =
             Cardinality(ModulesOnStack) - (IF d \in Modules THEN 1 ELSE 0)
        /\ Len(callStack') = Len(callStack) - 1
    BY <2>1, <2>2, <2>4, LeftCounts
  <2>7. \A D : /\ Entered(D)' = Entered(D) - (IF h.decl \in D THEN 1 ELSE 0)
               /\ h.decl \in D => Entered(D) # 0
    BY <1>3, <2>1, EnteredFrameLeft
  <2>8. ActiveDeclsExact'
    BY <2>1, <2>2, <2>3, <2>4, <2>7, ActiveLeft, CountedMeans
  <2> HIDE DEF h, d
  <2>9. /\ Cardinality(Brackets') = Cardinality(Brackets) - 1
        /\ Cardinality(NativeOf("call")) \in Nat /\ Cardinality(Brackets) \in Nat
        /\ Len(abandoned) \in Nat
    BY <1>1, <1>3, CountedFinite, OneLess
  <2>10. /\ Len(callStack) = Cardinality(NativeOf("call")) + Cardinality(Brackets)
                               + Len(abandoned)
         /\ moduleDepth = Entered(Modules)
         /\ nativeDepth = Cardinality(NativeOf("call")) + Cardinality(CountedAbandoned)
         /\ abandoned = <<>> => moduleDepth = Cardinality(ModulesOnStack)
    BY CountedMeans
  <2>11. Len(callStack') = Cardinality(NativeOf("call")') + Cardinality(Brackets')
                             + Len(abandoned')
    BY <2>1, <2>6, <2>9, <2>10
  <2>12. moduleDepth' = Entered(Modules)'
    <3>1. Entered(Modules)' = Entered(Modules) - (IF h.decl \in Modules THEN 1 ELSE 0)
      BY <2>7
    <3> QED
      BY <2>5, <2>10, <3>1
  <2>13. nativeDepth' = Cardinality(NativeOf("call")') + Cardinality(CountedAbandoned')
    BY <2>1, <2>5, <2>10 DEF CountedAbandoned
  <2>14. abandoned' = <<>> => moduleDepth' = Cardinality(ModulesOnStack')
    BY <2>1, <2>3, <2>5, <2>6, <2>10
  <2> QED
    BY <2>8, <2>11, <2>12, <2>13, <2>14, CountedOf
<1> QED
  BY <1>2, <1>3

(* A driver that ends while the rest stays.                                *)
LEMMA CountedEnd ==
  ASSUME Shapes, native # <<>>, Last(native).type = "drive",
         native' = Front(native), driveDepth = Cardinality(NativeOf("drive")),
         driveDepth' = driveDepth - 1
  PROVE  /\ NativeOf("call")' = NativeOf("call")
         /\ \A i \in NativeOf("call") : native'[i] = native[i]
         /\ driveDepth' = Cardinality(NativeOf("drive")')
<1> PICK n \in Nat : n = Len(native)
  BY DEF Shapes
<1>1. /\ NativeOf("drive")' = NativeOf("drive") \ {n}
      /\ n \in NativeOf("drive")
  BY PlacesPopped
<1>2. /\ NativeOf("call")' = NativeOf("call") \ {n}
      /\ n \notin NativeOf("call")
  BY PlacesPopped
<1>3. IsFiniteSet(NativeOf("drive"))
  BY CountedFinite
<1>4. Cardinality(NativeOf("drive")') = Cardinality(NativeOf("drive")) - 1
  BY <1>1, <1>3, OneLess
<1>5. \A i \in 1..n : i # n => i \in 1..(n - 1)
  OBVIOUS
<1>6. \A i \in 1..(n - 1) : native'[i] = native[i]
  BY PoppedNative
<1>7. \A i \in NativeOf("call") : i \in 1..n /\ i # n
  BY <1>2 DEF NativeOf
<1>8. \A i \in NativeOf("call") : native'[i] = native[i]
  BY <1>5, <1>6, <1>7
<1> QED
  BY <1>2, <1>4, <1>8

(* A call that changes keeps its handle, and the others theirs.            *)
LEMMA HandlesChanged ==
  ASSUME Shapes, native # <<>>, Last(native).type = "call",
         NEW c \in Activations, c.type = "call", c.handle = Last(native).handle,
         native' = SetLast(native, c)
  PROVE  \A i \in NativeOf("call") : native'[i].handle = native[i].handle
<1> PICK n \in Nat : n = Len(native)
  BY DEF Shapes
<1>1. /\ native'[n] = c
      /\ \A i \in 1..(n - 1) : native'[i] = native[i]
  BY ChangedNative
<1>2. \A i \in 1..n : i # n => i \in 1..(n - 1)
  OBVIOUS
<1>3. native'[n].handle = native[n].handle
  BY <1>1 DEF Last
<1> QED
  BY <1>1, <1>2, <1>3 DEF NativeOf

(* The same of a frame.                                                    *)
LEMMA FrameHandlesChanged ==
  ASSUME Shapes, vm # <<>>, NEW f \in VmFrames, FrameOK(f),
         f.handle = Last(vm).handle, vm' = SetLast(vm, f)
  PROVE  Brackets' = Brackets /\ \A k \in Brackets : vm'[k].handle = vm[k].handle
<1>1. /\ Brackets' = Brackets
      /\ \A k \in 1..Len(vm) : k # Len(vm) => vm'[k] = vm[k]
      /\ vm'[Len(vm)] = f
  BY BracketsChanged
<1> QED
  BY <1>1 DEF Brackets, Last

(* What is no call goes, and every call stays.                             *)
LEMMA BelowPopped ==
  ASSUME Shapes, native # <<>>, Last(native).type \notin {"top", "call"},
         native' = Front(native)
  PROVE  \A i \in NativeOf("call") : native'[i] = native[i]
<1> PICK n \in Nat : n = Len(native)
  BY DEF Shapes
<1>1. \A i \in 1..(n - 1) : native'[i] = native[i]
  BY PoppedNative
<1>2. n \notin NativeOf("call")
  BY PlacesPopped
<1>3. \A i \in 1..n : i # n => i \in 1..(n - 1)
  OBVIOUS
<1> QED
  BY <1>1, <1>2, <1>3 DEF NativeOf

(* Every step keeps the counts.                                            *)
LEMMA CountedKept ==
  ASSUME Shapes, DrivesNested, CallsPlaced, Counted, Step
  PROVE  Counted'
<1>0. /\ native # <<>> <=> mode # "idle"
      /\ Running => native # <<>>
      /\ vm \in Seq(VmFrames)
  BY DEF Shapes, Running
<1>1. ASSUME UNCHANGED <<calls, driveDepth, native, vm>> PROVE Counted'
  BY <1>1, CountedStill DEF NativeOf, Brackets
<1>2. ASSUME vm' = vm, native' = <<>> \/ native' = <<Top>>,
             calls' = calls, driveDepth' = driveDepth,
             NativeOf("call") = {}, NativeOf("drive") = {}
      PROVE  Counted'
  <2>1. ASSUME NEW t, t # "top" PROVE NativeOf(t)' = {}
    <3>1. CASE native' = <<>>
      BY <3>1 DEF NativeOf
    <3>2. CASE native' = <<Top>>
      <4>1. Len(native') = 1 /\ native'[1] = Top
        BY <3>2
      <4>2. \A i \in 1..1 : i = 1
        OBVIOUS
      <4> QED
        BY <4>1, <4>2, <2>1 DEF NativeOf, Top
    <3> QED
      BY <1>2, <3>1, <3>2
  <2>2. Brackets' = Brackets
    BY <1>2 DEF Brackets
  <2> QED
    BY <1>2, <2>1, <2>2, CountedStill
<1>3. CASE Evaluate
  BY <1>0, <1>2, <1>3, NothingOutside DEF Evaluate
<1>4. CASE PassLeft
  BY <1>2, <1>4, NothingOutside DEF PassLeft
<1>5. CASE Refused
  BY <1>1, <1>5 DEF Refused
<1>6. ASSUME NEW d \in Decl, NEW catches \in BOOLEAN, NativeEntered(d, catches)
      PROVE  Counted'
  BY <1>0, <1>6, CountedEntered DEF NativeEntered
<1>6a. ASSUME NEW d \in Decl, NEW skip \in BOOLEAN, EntryStopped(d, skip)
       PROVE  Counted'
  BY <1>6a, CountedStopped
<1>7. ASSUME callStack # <<>>, NEW d \in Functions,
             callStack[Len(callStack)] \notin Modules, RecordTailCallHop(d),
             ~crossed => Entered({callStack[Len(callStack)]}) # 0,
             \A D : Entered(D)' = Entered(D),
             NativeOf("call")' = NativeOf("call"),
             NativeOf("drive")' = NativeOf("drive"), Brackets' = Brackets,
             driveDepth' = driveDepth
      PROVE  Counted'
  <2>1. /\ ModulesOnStack' = ModulesOnStack
        /\ Len(callStack') = Len(callStack)
        /\ moduleDepth' = moduleDepth /\ nativeDepth' = nativeDepth
        /\ abandoned' = abandoned
        /\ ActiveDeclsExact'
    BY <1>7, HoppedCounts, CountedMeans
  <2>2. Entered(Modules)' = Entered(Modules)
    BY <1>7
  <2>3. CountedAbandoned' = CountedAbandoned
    BY <2>1 DEF CountedAbandoned
  <2> QED
    BY <1>7, <2>1, <2>2, <2>3, CountedMeans, CountedOf
<1>8. ASSUME NEW d \in Decl, NativeHopped(d) PROVE Counted'
  <2> DEFINE c == [Last(native) EXCEPT !.decl = d, !.hops = @ + 1]
  <2>1. /\ native # <<>> /\ Last(native).type = "call"
        /\ Last(native).decl \in Functions \ Compiled
        /\ d \in Functions /\ RecordTailCallHop(d)
        /\ native' = SetLast(native, c) /\ vm' = vm /\ driveDepth' = driveDepth
    BY <1>0, <1>8 DEF NativeHopped, WalksFunction, InWalker
  <2>2. c \in Activations /\ c.type = "call" /\ c.handle = Last(native).handle
    BY <1>8, NativeHop
  <2> HIDE DEF c
  <2>3. NativeOf("call")' = NativeOf("call") /\ NativeOf("drive")' = NativeOf("drive")
    BY <2>1, <2>2, PlacesChanged
  <2>4. /\ callStack # <<>> /\ callStack[Len(callStack)] = Last(native).decl
        /\ ~crossed => callStack[Len(callStack)] = Last(native).handle.decl
    BY <1>8, <2>1, TopIsNative DEF CallsPlaced, NativeHopped, WalksFunction, InWalker
  <2>5. callStack[Len(callStack)] \notin Modules
    BY <2>1, <2>4, CallsAssumption
  <2>6. Brackets' = Brackets
    BY <2>1 DEF Brackets
  <2>7. \A i \in NativeOf("call") : native'[i].handle = native[i].handle
    BY <2>1, <2>2, HandlesChanged
  <2>8. abandoned' = abandoned
    BY <2>1 DEF RecordTailCallHop
  <2>9. \A D : Entered(D)' = Entered(D)
    BY <2>1, <2>3, <2>6, <2>7, <2>8, EnteredStill
  <2>10. ~crossed => Entered({callStack[Len(callStack)]}) # 0
    <3>1. Len(native) \in NativeOf("call") /\ native[Len(native)] = Last(native)
      BY <1>8, NativeHop DEF Last
    <3> QED
      BY <2>4, <3>1, EnteredOpen
  <2> QED
    BY <1>7, <2>1, <2>3, <2>4, <2>5, <2>6, <2>9, <2>10
<1>9. CASE RunCompiledBody
  <2> DEFINE s == [Last(native) EXCEPT !.started = TRUE]
             f == VmFrame(IF Last(native).decl \in Functions THEN "entry" ELSE "body",
                          Last(native).decl, NoHandle)
  <2>1. /\ Running /\ Last(native).type = "call"
        /\ s \in Activations /\ s.type = "call" /\ s.handle = Last(native).handle
        /\ f \in VmFrames /\ FrameOK(f) /\ DriveVm(SetLast(native, s), f)
    BY <1>9, BodyStarted
  <2>2. f.handle = NoHandle
    BY DEF VmFrame
  <2> HIDE DEF s, f
  <2> QED
    BY <2>1, <2>2, CountedStart
<1>10. CASE ChunkStarted
  <2>1. PICK type \in {"bare", "body"} :
             DriveVm(native, VmFrame(type, NoDecl, NoHandle))
    BY <1>10 DEF ChunkStarted
  <2> DEFINE f == VmFrame(type, NoDecl, NoHandle)
  <2>2. /\ f \in VmFrames /\ FrameOK(f) /\ DriveVm(native, f) /\ Running
        /\ f.handle = NoHandle
    BY <1>10, <2>1, FrameTypes, FrameKinds DEF ChunkStarted, VmFrame
  <2> HIDE DEF f
  <2> QED
    BY <2>2, CountedStart
<1>11. ASSUME OpenBlock \/ OpenMeasure PROVE Counted'
  <2>1. Running /\ vm' = vm /\ calls' = calls /\ driveDepth' = driveDepth
    BY <1>11 DEF OpenBlock, OpenMeasure, WalksStatements, InWalker,
                 VmStatements, InVm
  <2>2. PICK x \in {Block, Measure(measuring)} : native' = Append(native, x)
    BY <1>11 DEF OpenBlock, OpenMeasure
  <2>3. x \in Activations /\ x.type \in {"block", "measure"}
    BY ActivationTypes DEF Block, Measure, Shapes
  <2>4. NativeOf("call")' = NativeOf("call") /\ NativeOf("drive")' = NativeOf("drive")
    BY <1>0, <2>1, <2>2, <2>3, PlacesPushed
  <2>5. Brackets' = Brackets
    BY <2>1 DEF Brackets
  <2>6. \A i \in NativeOf("call") : native'[i] = native[i]
    BY <1>0, <2>1, <2>2, <2>3, PushedNative DEF NativeOf
  <2> QED
    BY <2>1, <2>4, <2>5, <2>6, CountedStill
<1>12. ASSUME NEW d \in Decl, NEW type \in {"function", "module"}, FrameEntered(d, type)
       PROVE  Counted'
  <2> DEFINE f == VmFrame(type, d, Handle(d, FALSE))
  <2>1. f \in VmFrames /\ FrameOK(f)
    BY <1>12, FrameTypes, FrameKinds DEF FrameEntered
  <2>2. f.handle # NoHandle /\ f.handle.decl = d
    BY CallsAssumption DEF VmFrame, Handle, NoHandle
  <2>3. /\ vm' = Append(vm, f) /\ native' = native /\ EnterUserCall(d, TRUE)
        /\ driveDepth' = driveDepth
    BY <1>12 DEF FrameEntered
  <2> HIDE DEF f
  <2> QED
    BY <2>1, <2>2, <2>3, CountedBracket
<1>13. CASE ChildrenEntered
  <2> DEFINE f == VmFrame("children", NoDecl, NoHandle)
  <2>1. f \in VmFrames /\ FrameOK(f) /\ f.handle = NoHandle
    BY FrameTypes, FrameKinds DEF VmFrame
  <2>2. vm' = Append(vm, f) /\ native' = native /\ calls' = calls
        /\ driveDepth' = driveDepth
    BY <1>13 DEF ChildrenEntered
  <2> HIDE DEF f
  <2>3. Brackets' = Brackets /\ \A k \in Brackets : vm'[k] = vm[k]
    BY <2>1, <2>2, BracketsPushed
  <2> QED
    BY <2>2, <2>3, CountedStill DEF NativeOf
<1>14. ASSUME NEW d \in Decl, FrameHopped(d) PROVE Counted'
  <2> DEFINE g == [Last(vm) EXCEPT !.decl = d, !.hops = @ + 1]
  <2>1. /\ InVm /\ HopEligible(Last(vm)) /\ d \in Functions /\ RecordTailCallHop(d)
        /\ vm' = SetLast(vm, g) /\ native' = native /\ driveDepth' = driveDepth
    BY <1>14 DEF FrameHopped
  <2>2. Len(native) \in Drives /\ Last(native).floor < Len(vm) /\ vm # <<>>
    BY <1>0, <2>1, DriverHasFrame DEF InVm
  <2>3. g \in VmFrames /\ FrameOK(g) /\ g.handle = Last(vm).handle
    BY <1>14, <2>2, FrameHop
  <2>4. FrameOK(Last(vm))
    <3> PICK m \in Nat : m = Len(vm)
      BY <1>0
    <3>1. m # 0
      BY <1>0, <2>2, EmptySeq
    <3>2. \A k \in 1..Len(vm) : FrameOK(vm[k])
      BY DEF Shapes
    <3> QED
      BY <3>1, <3>2 DEF Last
  <2>5. /\ callStack # <<>>
        /\ callStack[Len(callStack)] = Last(vm).decl
        /\ Last(vm).decl \in Functions
        /\ ~crossed => Entered({callStack[Len(callStack)]}) # 0
    <3>0. Placed
      BY <2>1 DEF CallsPlaced, InVm
    <3>1. CASE Last(vm).type = "function"
      <4>1. Last(vm).handle # NoHandle /\ Last(vm).decl \in Functions
        BY <2>4, <3>1 DEF FrameOK
      <4>2. /\ callStack # <<>>
            /\ callStack[Len(callStack)] = Last(vm).decl
            /\ ~crossed => callStack[Len(callStack)] = Last(vm).handle.decl
        BY <2>2, <3>0, <4>1, TopIsBracket
      <4>3. Len(vm) \in Brackets /\ vm[Len(vm)] = Last(vm)
        BY <2>2, <4>1, DriverHasFrame DEF Brackets, Last
      <4> QED
        BY <4>1, <4>2, <4>3, EnteredOpen
    <3>2. CASE Last(vm).type = "entry"
      <4>1. /\ callStack # <<>>
            /\ callStack[Len(callStack)] = Last(vm).decl
            /\ ~crossed => \E i \in NativeOf("call") :
                             native[i].handle.decl = callStack[Len(callStack)]
        BY <2>2, <3>0, <3>2, TopIsEntry
      <4> QED
        BY <2>4, <3>2, <4>1, EnteredOpen DEF FrameOK
    <3> QED
      BY <2>1, <3>1, <3>2 DEF HopEligible
  <2> HIDE DEF g
  <2>6. callStack[Len(callStack)] \notin Modules
    BY <2>5, CallsAssumption
  <2>7. Brackets' = Brackets /\ \A k \in Brackets : vm'[k].handle = vm[k].handle
    BY <2>1, <2>2, <2>3, FrameHandlesChanged
  <2>8. NativeOf("call")' = NativeOf("call") /\ NativeOf("drive")' = NativeOf("drive")
    BY <2>1 DEF NativeOf
  <2>9. abandoned' = abandoned
    BY <2>1 DEF RecordTailCallHop
  <2>10. \A D : Entered(D)' = Entered(D)
    BY <2>1, <2>7, <2>8, <2>9, EnteredStill
  <2> QED
    BY <1>7, <2>1, <2>5, <2>6, <2>7, <2>8, <2>10
<1>15. ASSUME UNCHANGED <<native, calls, driveDepth>>, vm # <<>>,
              NEW w \in Seq(BOOLEAN),
              vm' = SetLast(vm, [Last(vm) EXCEPT !.wraps = w])
       PROVE  Counted'
  <2> DEFINE h == [Last(vm) EXCEPT !.wraps = w]
  <2>1. /\ h \in VmFrames /\ FrameOK(h) /\ h.handle = Last(vm).handle
        /\ vm' = SetLast(vm, h)
    BY <1>15, Rewrapped
  <2> HIDE DEF h
  <2>2. Brackets' = Brackets /\ \A k \in Brackets : vm'[k].handle = vm[k].handle
    BY <1>15, <2>1, FrameHandlesChanged
  <2> QED
    BY <1>15, <2>2, CountedStill DEF NativeOf
<1>16. ASSUME NEW measures \in BOOLEAN, PushWrap(measures) PROVE Counted'
  <2> DEFINE w == Append(Last(vm).wraps, measuring)
  <2>1. vm # <<>> /\ w \in Seq(BOOLEAN)
        /\ vm' = SetLast(vm, [Last(vm) EXCEPT !.wraps = w])
    BY <1>16, WrapPushed
  <2> HIDE DEF w
  <2>2. UNCHANGED <<native, calls, driveDepth>>
    BY <1>16 DEF PushWrap
  <2> QED
    BY <1>15, <2>1, <2>2
<1>17. CASE PopWrap
  <2> DEFINE w == Front(Last(vm).wraps)
  <2>1. vm # <<>> /\ w \in Seq(BOOLEAN)
        /\ vm' = SetLast(vm, [Last(vm) EXCEPT !.wraps = w])
    BY <1>17, WrapPopped
  <2> HIDE DEF w
  <2>2. UNCHANGED <<native, calls, driveDepth>>
    BY <1>17 DEF PopWrap
  <2> QED
    BY <1>15, <2>1, <2>2
<1>18. CASE BlockClosed
  <2>1. /\ native # <<>> /\ Last(native).type \in {"block", "measure"}
        /\ native' = Front(native)
        /\ UNCHANGED <<vm, calls, driveDepth>>
    BY <1>0, <1>18 DEF BlockClosed
  <2>2. ASSUME NEW t
        PROVE  /\ NativeOf(t)' = NativeOf(t) \ {Len(native)}
               /\ Len(native) \in NativeOf(t) <=> Last(native).type = t
    BY <2>1, PlacesPopped
  <2>3. NativeOf("call")' = NativeOf("call")
    BY <2>1, <2>2
  <2>4. NativeOf("drive")' = NativeOf("drive")
    BY <2>1, <2>2
  <2>5. Brackets' = Brackets
    BY <2>1 DEF Brackets
  <2>6. \A i \in NativeOf("call") : native'[i] = native[i]
    BY <2>1, BelowPopped
  <2> QED
    BY <2>1, <2>3, <2>4, <2>5, <2>6, CountedStill
<1>19. CASE CallLeft
  BY <1>0, <1>19, CountedLeft DEF CallLeft
<1>20. CASE UnwindDrive
  <2>1. /\ native # <<>> /\ Last(native).type = "drive" /\ native' = Front(native)
        /\ driveDepth' = driveDepth - 1
        /\ UNCHANGED <<calls, vm>>
    BY <1>0, <1>20 DEF UnwindDrive, Throwing
  <2>2. /\ NativeOf("call")' = NativeOf("call")
        /\ \A i \in NativeOf("call") : native'[i] = native[i]
        /\ driveDepth' = Cardinality(NativeOf("drive")')
    BY <2>1, CountedEnd, CountedMeans
  <2>3. Brackets' = Brackets
    BY <2>1 DEF Brackets
  <2> QED
    BY <2>1, <2>2, <2>3, CallsStill
<1>21. CASE VmReturn
  <2>1. /\ native # <<>> /\ Last(native).type = "drive" /\ Running
        /\ vm' = Front(vm) /\ LeaveBracket(Last(vm))
        /\ IF Len(vm) = Last(native).floor + 1
           THEN native' = Front(native) /\ driveDepth' = driveDepth - 1
           ELSE native' = native /\ driveDepth' = driveDepth
    BY <1>0, <1>21 DEF VmReturn, InVm
  <2>2. vm # <<>> /\ Last(native).floor < Len(vm) /\ Len(native) \in Drives
    BY <2>1, DriverHasFrame
  <2>3. driveDepth = Cardinality(NativeOf("drive"))
    BY DEF Counted, CountersExact
  <2>4. /\ NativeOf("call")' = NativeOf("call")
        /\ \A i \in NativeOf("call") : native'[i] = native[i]
        /\ driveDepth' = Cardinality(NativeOf("drive")')
    <3>1. CASE native' = native /\ driveDepth' = driveDepth
      BY <2>3, <3>1 DEF NativeOf
    <3>2. CASE native' = Front(native) /\ driveDepth' = driveDepth - 1
      BY <2>1, <2>3, <3>2, CountedEnd
    <3> QED
      BY <2>1, <3>1, <3>2
  <2> QED
    BY <2>1, <2>2, <2>4, FrameGoneCounts
<1>22. CASE UnwindFrame
  <2>1. /\ native # <<>> /\ Last(native).type = "drive"
        /\ vm' = Front(vm) /\ LeaveBracket(Last(vm)) /\ native' = native
        /\ Len(vm) > Last(native).floor /\ driveDepth' = driveDepth
    BY <1>0, <1>22 DEF UnwindFrame, Throwing
  <2>2. vm # <<>> /\ Last(native).floor < Len(vm) /\ Len(native) \in Drives
    BY <2>1, DriverHasFrame
  <2>3. NativeOf("call")' = NativeOf("call") /\ driveDepth' = Cardinality(NativeOf("drive")')
    BY <2>1 DEF NativeOf, Counted, CountersExact
  <2> QED
    BY <2>1, <2>2, <2>3, FrameGoneCounts
<1>23. CASE UNCHANGED vars
  BY <1>1, <1>23 DEF vars, calls
<1> QED
  BY <1>3, <1>4, <1>5, <1>6, <1>6a, <1>8, <1>9, <1>10, <1>11, <1>12, <1>13, <1>14,
     <1>16, <1>17, <1>18, <1>19, <1>20, <1>21, <1>22, <1>23 DEF Step

-----------------------------------------------------------------------------
(* The limits.                                                             *)

LEMMA LimitTypes ==
  {MaxUserCallDepth, MaxModuleCallDepth, MaxVmCallStackDepth,
   MaxDriveVmNativeDepth, MaxWraps} \subseteq Nat
BY CallsAssumption

(* The drivers below one of them are finitely many.                        *)
LEMMA DrivesBelow ==
  ASSUME Shapes, NEW j
  PROVE  /\ IsFiniteSet({i \in Drives : i < j})
         /\ Cardinality({i \in Drives : i < j}) \in Nat
<1>1. IsFiniteSet(Drives)
  BY CountedFinite DEF Drives
<1>2. {i \in Drives : i < j} \subseteq Drives
  OBVIOUS
<1> QED
  BY <1>1, <1>2, FS_Subset, FS_CardinalityType

(* Entering a call asks the limits, leaving one only lowers the counters.  *)
LEMMA CallDepths ==
  ASSUME Shapes, WithinLimits
  PROVE  /\ \A d \in Decl, skip \in BOOLEAN :
              ~TooDeep(d, skip) /\ CountCall(d, skip) =>
                nativeDepth' <= MaxUserCallDepth /\ moduleDepth' <= MaxModuleCallDepth
         /\ \A h : ExitUserCall(h) =>
                nativeDepth' <= MaxUserCallDepth /\ moduleDepth' <= MaxModuleCallDepth
<1>1. nativeDepth \in Int /\ moduleDepth \in Int
  BY DEF Shapes
<1>2. nativeDepth <= MaxUserCallDepth /\ moduleDepth <= MaxModuleCallDepth
  BY DEF WithinLimits
<1>3. MaxUserCallDepth \in Nat /\ MaxModuleCallDepth \in Nat
  BY LimitTypes
<1>4. ASSUME NEW d \in Decl, NEW skip \in BOOLEAN,
             ~TooDeep(d, skip), CountCall(d, skip)
      PROVE  nativeDepth' <= MaxUserCallDepth /\ moduleDepth' <= MaxModuleCallDepth
  <2>1. /\ ~skip => ~(nativeDepth >= MaxUserCallDepth)
        /\ d \in Modules => ~(moduleDepth >= MaxModuleCallDepth)
    BY <1>4 DEF TooDeep
  <2>2. /\ nativeDepth' = nativeDepth + (IF skip THEN 0 ELSE 1)
        /\ moduleDepth' = moduleDepth + (IF d \in Modules THEN 1 ELSE 0)
    BY <1>4 DEF CountCall
  <2> QED
    BY <1>1, <1>2, <1>3, <2>1, <2>2
<1>5. ASSUME NEW h, ExitUserCall(h)
      PROVE  nativeDepth' <= MaxUserCallDepth /\ moduleDepth' <= MaxModuleCallDepth
  <2>1. /\ nativeDepth' = nativeDepth - (IF h.counted THEN 1 ELSE 0)
        /\ moduleDepth' = moduleDepth - (IF h.decl \in Modules THEN 1 ELSE 0)
    BY <1>5 DEF ExitUserCall
  <2> QED
    BY <1>1, <1>2, <1>3, <2>1
<1> QED
  BY <1>4, <1>5

(* Steps that start and end no driver.                                     *)
LEMMA LimitsStill ==
  ASSUME Shapes, WithinLimits,
         nativeDepth' <= MaxUserCallDepth, moduleDepth' <= MaxModuleCallDepth,
         driveDepth' = driveDepth, Running' => Running,
         Drives' = Drives, \A j \in Drives : native'[j] = native[j],
         Len(vm') <= MaxVmCallStackDepth + driveDepth
  PROVE  WithinLimits'
<1>1. driveDepth' <= MaxDriveVmNativeDepth + (IF Running' THEN 0 ELSE 1)
  <2>1. driveDepth \in Int /\ MaxDriveVmNativeDepth \in Int
    BY LimitTypes DEF Shapes
  <2>2. driveDepth <= MaxDriveVmNativeDepth + (IF Running THEN 0 ELSE 1)
    BY DEF WithinLimits
  <2> QED
    BY <2>1, <2>2
<1>2. ASSUME NEW j \in Drives'
      PROVE  native'[j].floor
               <= MaxVmCallStackDepth + Cardinality({i \in Drives' : i < j})
  BY <1>2 DEF WithinLimits
<1> QED
  BY <1>1, <1>2 DEF WithinLimits

(* A driver that starts is counted before the count is looked at.          *)
LEMMA LimitsStart ==
  ASSUME Shapes, Counted, WithinLimits, Running, NEW f \in VmFrames, FrameOK(f), NEW below,
         \/ below = native
         \/ /\ Last(native).type = "call"
            /\ \E c \in Activations : c.type = "call" /\ below = SetLast(native, c),
         DriveVm(below, f)
  PROVE  WithinLimits'
<1> PICK n \in Nat : n = Len(native)
  BY DEF Shapes
<1> PICK m \in Nat : m = Len(vm)
  BY DEF Shapes
<1>1. /\ nativeDepth' = nativeDepth /\ moduleDepth' = moduleDepth
      /\ driveDepth' = driveDepth + 1
      /\ mode' = IF driveDepth + 1 > MaxDriveVmNativeDepth THEN "throw" ELSE mode
      /\ vm' = Append(vm, f)
  BY DEF DriveVm, calls
<1>2. driveDepth \in Int /\ MaxDriveVmNativeDepth \in Int /\ MaxVmCallStackDepth \in Int
  BY LimitTypes DEF Shapes
<1>3. driveDepth' <= MaxDriveVmNativeDepth + (IF Running' THEN 0 ELSE 1)
  <2>1. driveDepth <= MaxDriveVmNativeDepth
    BY <1>2 DEF WithinLimits
  <2>2. Running' => ~(driveDepth + 1 > MaxDriveVmNativeDepth)
    BY <1>1 DEF Running
  <2> QED
    BY <1>1, <1>2, <2>1, <2>2
<1>4. m <= MaxVmCallStackDepth + driveDepth
  BY DEF WithinLimits
<1>5. Len(vm') = m + 1
  BY <1>1, PushedVm
<1>6. Len(vm') <= MaxVmCallStackDepth + driveDepth'
  BY <1>1, <1>2, <1>4, <1>5
<1>7. Drives' = Drives \cup {n + 1} /\ native'[n + 1] = Drive(m)
      /\ \A i \in Drives : native'[i] = native[i]
  <2>1. /\ NativeOf("drive")' = NativeOf("drive") \cup {n + 1}
        /\ native'[n + 1] = Drive(m)
        /\ \A i \in NativeOf("drive") : i # n => native'[i] = native[i]
        /\ native'[n] = Last(below)
    BY StartedPlaces
  <2>2. n \in Drives => Last(below) = native[n]
    BY DEF Drives, NativeOf, Last
  <2> QED
    BY <2>1, <2>2 DEF Drives
<1>8. \A i \in Drives : i \in 1..n
  BY DriveFacts
<1>9. ASSUME NEW j \in Drives'
      PROVE  native'[j].floor
               <= MaxVmCallStackDepth + Cardinality({i \in Drives' : i < j})
  <2>1. CASE j = n + 1
    <3>1. {i \in Drives' : i < n + 1} = Drives
      BY <1>7, <1>8
    <3>2. driveDepth = Cardinality(Drives)
      BY DEF Counted, CountersExact, Drives
    <3>3. native'[j].floor = m
      BY <1>7, <2>1 DEF Drive
    <3> QED
      BY <1>4, <2>1, <3>1, <3>2, <3>3
  <2>2. CASE j \in Drives
    <3>1. {i \in Drives' : i < j} = {i \in Drives : i < j}
      <4>1. ~(n + 1 < j)
        BY <1>8, <2>2
      <4> QED
        BY <1>7, <4>1
    <3>2. native[j].floor <= MaxVmCallStackDepth + Cardinality({i \in Drives : i < j})
      BY <2>2 DEF WithinLimits
    <3> QED
      BY <1>7, <2>2, <3>1, <3>2
  <2> QED
    BY <1>7, <2>1, <2>2
<1> QED
  BY <1>1, <1>3, <1>6, <1>9 DEF WithinLimits

(* One that ends leaves the stack of frames as low as it found it.         *)
LEMMA LimitsEnd ==
  ASSUME Shapes, Counted, WithinLimits, native # <<>>, Last(native).type = "drive",
         native' = Front(native), driveDepth' = driveDepth - 1,
         nativeDepth' <= MaxUserCallDepth, moduleDepth' <= MaxModuleCallDepth,
         Running' => Running,
         \/ vm' = vm /\ Len(vm) = Last(native).floor
         \/ vm # <<>> /\ vm' = Front(vm)
  PROVE  WithinLimits'
<1> PICK n \in Nat : n = Len(native)
  BY DEF Shapes
<1> PICK m \in Nat : m = Len(vm)
  BY DEF Shapes
<1>1. driveDepth \in Int /\ MaxDriveVmNativeDepth \in Int /\ MaxVmCallStackDepth \in Int
  BY LimitTypes DEF Shapes
<1>2. driveDepth' <= MaxDriveVmNativeDepth + (IF Running' THEN 0 ELSE 1)
  <2>1. driveDepth <= MaxDriveVmNativeDepth + (IF Running THEN 0 ELSE 1)
    BY DEF WithinLimits
  <2> QED
    BY <1>1, <2>1
<1>3. Drives' = Drives \ {n} /\ n \in Drives
  BY PlacesPopped DEF Drives
<1>4. \A i \in Drives : i \in 1..n
  BY DriveFacts
<1>5. \A i \in 1..(n - 1) : native'[i] = native[i]
  BY PoppedNative
<1>6. ASSUME NEW j \in Drives'
      PROVE  native'[j].floor
               <= MaxVmCallStackDepth + Cardinality({i \in Drives' : i < j})
  <2>1. j \in Drives /\ j \in 1..(n - 1)
    BY <1>3, <1>4
  <2>2. {i \in Drives' : i < j} = {i \in Drives : i < j}
    BY <1>3, <2>1
  <2>3. native[j].floor <= MaxVmCallStackDepth + Cardinality({i \in Drives : i < j})
    BY <2>1 DEF WithinLimits
  <2> QED
    BY <1>5, <2>1, <2>2, <2>3
<1>7. Len(vm') <= MaxVmCallStackDepth + driveDepth'
  <2>1. CASE vm' = vm /\ Len(vm) = Last(native).floor
    <3>0. \A i \in 1..n : i < n <=> i # n
      OBVIOUS
    <3>1. {i \in Drives : i < n} = Drives \ {n}
      BY <3>0, <1>4
    <3>2. IsFiniteSet(Drives) /\ driveDepth = Cardinality(Drives)
      BY CountedFinite DEF Counted, CountersExact, Drives
    <3>3. Cardinality(Drives \ {n}) = driveDepth - 1
      BY <1>3, <3>2, OneLess
    <3>4. native[n].floor <= MaxVmCallStackDepth + Cardinality({i \in Drives : i < n})
      BY <1>3 DEF WithinLimits
    <3> QED
      BY <2>1, <3>1, <3>3, <3>4 DEF Last
  <2>2. CASE vm # <<>> /\ vm' = Front(vm)
    <3>1. Len(vm') = m - 1
      BY <2>2, PoppedFrames
    <3>2. m <= MaxVmCallStackDepth + driveDepth
      BY DEF WithinLimits
    <3> QED
      BY <1>1, <3>1, <3>2
  <2> QED
    BY <2>1, <2>2
<1> QED
  BY <1>2, <1>6, <1>7 DEF WithinLimits

(* A step that lowers or keeps what is limited.                            *)
LEMMA LimitsLower ==
  ASSUME Shapes, Counted, WithinLimits,
         nativeDepth' <= MaxUserCallDepth, moduleDepth' <= MaxModuleCallDepth,
         driveDepth' = driveDepth, Running' => Running,
         NativeOf("drive")' = NativeOf("drive"),
         \A j \in Drives : native'[j] = native[j],
         \/ vm' = vm
         \/ vm # <<>> /\ vm' = Front(vm)
         \/ vm # <<>> /\ \E f \in VmFrames : vm' = SetLast(vm, f)
         \/ /\ Len(vm) < MaxVmCallStackDepth
            /\ \E f \in VmFrames : FrameOK(f) /\ vm' = Append(vm, f)
  PROVE  WithinLimits'
<1>0. vm \in Seq(VmFrames)
  BY DEF Shapes
<1> PICK m \in Nat : m = Len(vm)
  BY <1>0
<1>1. m <= MaxVmCallStackDepth + driveDepth /\ MaxVmCallStackDepth \in Nat
  BY LimitTypes DEF WithinLimits
<1>2. driveDepth \in Nat
  BY CountedFinite DEF Counted, CountersExact
<1>3. Len(vm') <= MaxVmCallStackDepth + driveDepth
  <2>1. CASE vm' = vm
    BY <2>1, <1>1
  <2>2. CASE vm # <<>> /\ vm' = Front(vm)
    <3>1. Len(vm') = m - 1
      BY <2>2, PoppedFrames
    <3> QED
      BY <3>1, <1>1, <1>2
  <2>3. ASSUME vm # <<>>, NEW f \in VmFrames, vm' = SetLast(vm, f)
        PROVE  Len(vm') <= MaxVmCallStackDepth + driveDepth
    <3>1. Len(vm') = m
      BY <1>0, <2>3, SetLastFacts
    <3> QED
      BY <3>1, <1>1
  <2>4. ASSUME m < MaxVmCallStackDepth, NEW f \in VmFrames, FrameOK(f),
               vm' = Append(vm, f)
        PROVE  Len(vm') <= MaxVmCallStackDepth + driveDepth
    <3>1. Len(vm') = m + 1
      BY <2>4, PushedVm
    <3> QED
      BY <2>4, <3>1, <1>1, <1>2
  <2> QED
    BY <2>1, <2>2, <2>3, <2>4
<1>4. Drives' = Drives
  BY DEF Drives
<1> QED
  BY <1>3, <1>4, LimitsStill

(* Every step keeps within the limits.                                     *)
LEMMA LimitsKept ==
  ASSUME Shapes, DrivesNested, CallsPlaced, Counted, WithinLimits, Step
  PROVE  WithinLimits'
<1>0. /\ native # <<>> <=> mode # "idle"
      /\ Running => native # <<>>
      /\ vm \in Seq(VmFrames)
  BY DEF Shapes, Running
<1>1. nativeDepth <= MaxUserCallDepth /\ moduleDepth <= MaxModuleCallDepth
  BY DEF WithinLimits
<1>2. ASSUME UNCHANGED <<calls, driveDepth, native, vm>>, Running' => Running
      PROVE  WithinLimits'
  BY <1>1, <1>2, LimitsLower DEF NativeOf, calls
<1>3. CASE Evaluate
  <2>1. /\ vm' = vm /\ calls' = calls /\ driveDepth' = driveDepth
        /\ native' = <<Top>> /\ mode = "idle"
    BY <1>3 DEF Evaluate
  <2>2. NativeOf("drive") = {} /\ vm = <<>>
    BY <1>0, <1>3, <2>1, NothingOutside
  <2>3. driveDepth = 0
    BY <2>2, FS_EmptySet DEF Counted, CountersExact
  <2>4. Drives' = {}
    <3>1. Len(native') = 1 /\ native'[1] = Top
      BY <2>1
    <3>2. \A i \in 1..1 : i = 1
      OBVIOUS
    <3> QED
      BY <3>1, <3>2 DEF Drives, NativeOf, Top
  <2>5. Len(vm') <= MaxVmCallStackDepth + driveDepth'
        /\ driveDepth' <= MaxDriveVmNativeDepth + (IF Running' THEN 0 ELSE 1)
    <3>1. Len(vm') = 0
      BY <2>1, <2>2
    <3>2. MaxVmCallStackDepth \in Nat /\ MaxDriveVmNativeDepth \in Nat
      BY LimitTypes
    <3> QED
      BY <2>1, <2>3, <3>1, <3>2
  <2> QED
    BY <1>1, <2>1, <2>4, <2>5 DEF WithinLimits, calls
<1>4. CASE PassLeft
  <2>1. /\ vm' = vm /\ calls' = calls /\ driveDepth' = driveDepth
        /\ native' = <<>> /\ ~Running' /\ Last(native).type = "top" /\ native # <<>>
    BY <1>0, <1>4 DEF PassLeft, Running
  <2>2. NativeOf("drive") = {}
    BY <2>1, NothingOutside
  <2>3. NativeOf("drive")' = {}
    BY <2>1 DEF NativeOf
  <2> QED
    BY <1>1, <2>1, <2>2, <2>3, LimitsLower DEF calls, Drives
<1>5. CASE Refused
  BY <1>2, <1>5 DEF Refused
<1>6. ASSUME NEW d \in Decl, NEW catches \in BOOLEAN, NativeEntered(d, catches)
      PROVE  WithinLimits'
  <2> DEFINE x == Call(d, catches)
  <2>1. x \in Activations /\ x.type = "call" /\ native' = Append(native, x)
    BY <1>6, ActivationTypes DEF Call, NativeEntered
  <2>2. /\ ~TooDeep(d, FALSE) /\ EnterUserCall(d, FALSE) /\ native # <<>>
        /\ driveDepth' = driveDepth /\ vm' = vm /\ Running' = Running
    BY <1>0, <1>6 DEF NativeEntered, Running
  <2>6. CountCall(d, FALSE)
    BY <2>2 DEF EnterUserCall
  <2> HIDE DEF x
  <2>3. NativeOf("drive")' = NativeOf("drive")
    BY <2>1, <2>2, PlacesPushed
  <2>4. \A j \in Drives : native'[j] = native[j]
    BY <2>1, <2>2, PushedNative DEF Drives, NativeOf
  <2>5. nativeDepth' <= MaxUserCallDepth /\ moduleDepth' <= MaxModuleCallDepth
    BY <2>2, <2>6, CallDepths
  <2> QED
    BY <2>2, <2>3, <2>4, <2>5, LimitsLower
<1>6a. ASSUME NEW d \in Decl, NEW skip \in BOOLEAN, EntryStopped(d, skip)
       PROVE  WithinLimits'
  <2>1. /\ ~TooDeep(d, skip) /\ CountCall(d, skip) /\ Running
        /\ driveDepth' = driveDepth /\ vm' = vm /\ native' = native
    BY <1>6a DEF EntryStopped, StopAtEntry
  <2>2. nativeDepth' <= MaxUserCallDepth /\ moduleDepth' <= MaxModuleCallDepth
    BY <2>1, CallDepths
  <2>3. NativeOf("drive")' = NativeOf("drive")
    BY <2>1 DEF NativeOf
  <2> QED
    BY <2>1, <2>2, <2>3, LimitsLower
<1>7. ASSUME NEW d \in Decl, NativeHopped(d) PROVE WithinLimits'
  <2> DEFINE c == [Last(native) EXCEPT !.decl = d, !.hops = @ + 1]
  <2>1. /\ native # <<>> /\ Last(native).type = "call" /\ RecordTailCallHop(d)
        /\ native' = SetLast(native, c) /\ vm' = vm /\ driveDepth' = driveDepth
    BY <1>0, <1>7 DEF NativeHopped, WalksFunction, InWalker
  <2>7. mode' = mode
    BY <1>7 DEF NativeHopped
  <2>2. c \in Activations /\ c.type = "call"
    BY <1>7, NativeHop
  <2> HIDE DEF c
  <2>3. NativeOf("drive")' = NativeOf("drive")
    BY <2>1, <2>2, PlacesChanged
  <2>4. \A i \in 1..(Len(native) - 1) : native'[i] = native[i]
    BY <2>1, <2>2, ChangedNative
  <2>5. \A j \in Drives : j \in 1..(Len(native) - 1)
    <3> TAKE j \in Drives
    <3>1. Len(native) \in Nat /\ j \in 1..Len(native)
      BY DriveFacts
    <3>2. j # Len(native)
      BY <2>1 DEF Last, Drives, NativeOf
    <3> QED
      BY <3>1, <3>2
  <2>6. nativeDepth' = nativeDepth /\ moduleDepth' = moduleDepth
    BY <2>1 DEF RecordTailCallHop
  <2> QED
    BY <1>1, <2>1, <2>3, <2>4, <2>5, <2>6, <2>7, LimitsLower DEF Running
<1>8. CASE RunCompiledBody
  <2> DEFINE s == [Last(native) EXCEPT !.started = TRUE]
             f == VmFrame(IF Last(native).decl \in Functions THEN "entry" ELSE "body",
                          Last(native).decl, NoHandle)
  <2>1. /\ Running /\ Last(native).type = "call"
        /\ s \in Activations /\ s.type = "call"
        /\ f \in VmFrames /\ FrameOK(f) /\ DriveVm(SetLast(native, s), f)
    BY <1>8, BodyStarted
  <2> HIDE DEF s, f
  <2> QED
    BY <2>1, LimitsStart
<1>9. CASE ChunkStarted
  <2>1. PICK type \in {"bare", "body"} :
             DriveVm(native, VmFrame(type, NoDecl, NoHandle))
    BY <1>9 DEF ChunkStarted
  <2> DEFINE f == VmFrame(type, NoDecl, NoHandle)
  <2>2. f \in VmFrames /\ FrameOK(f) /\ DriveVm(native, f) /\ Running
    BY <1>9, <2>1, FrameTypes, FrameKinds DEF ChunkStarted
  <2> HIDE DEF f
  <2> QED
    BY <2>2, LimitsStart
<1>10. ASSUME OpenBlock \/ OpenMeasure PROVE WithinLimits'
  <2>1. Running /\ vm' = vm /\ calls' = calls /\ driveDepth' = driveDepth
        /\ mode' = mode
    BY <1>10 DEF OpenBlock, OpenMeasure, WalksStatements, InWalker,
                 VmStatements, InVm
  <2>2. PICK x \in {Block, Measure(measuring)} : native' = Append(native, x)
    BY <1>10 DEF OpenBlock, OpenMeasure
  <2>3. x \in Activations /\ x.type \in {"block", "measure"}
    BY ActivationTypes DEF Block, Measure, Shapes
  <2>4. NativeOf("drive")' = NativeOf("drive")
    BY <1>0, <2>1, <2>2, <2>3, PlacesPushed
  <2>5. \A j \in Drives : native'[j] = native[j]
    BY <1>0, <2>1, <2>2, <2>3, PushedNative DEF Drives, NativeOf
  <2> QED
    BY <1>1, <2>1, <2>4, <2>5, LimitsLower DEF calls
<1>11. ASSUME NEW d \in Decl, NEW type \in {"function", "module"}, FrameEntered(d, type)
       PROVE  WithinLimits'
  <2> DEFINE f == VmFrame(type, d, Handle(d, FALSE))
  <2>1. f \in VmFrames /\ FrameOK(f)
    BY <1>11, FrameTypes, FrameKinds DEF FrameEntered
  <2>2. /\ vm' = Append(vm, f) /\ native' = native /\ EnterUserCall(d, TRUE)
        /\ ~TooDeep(d, TRUE) /\ Len(vm) < MaxVmCallStackDepth
        /\ driveDepth' = driveDepth /\ mode' = mode
    BY <1>11 DEF FrameEntered
  <2> HIDE DEF f
  <2>5. CountCall(d, TRUE)
    BY <2>2 DEF EnterUserCall
  <2>3. nativeDepth' <= MaxUserCallDepth /\ moduleDepth' <= MaxModuleCallDepth
    BY <2>2, <2>5, CallDepths
  <2>4. NativeOf("drive")' = NativeOf("drive") /\ Running' = Running
    BY <2>2 DEF NativeOf, Running
  <2> QED
    BY <2>1, <2>2, <2>3, <2>4, LimitsLower
<1>12. CASE ChildrenEntered
  <2> DEFINE f == VmFrame("children", NoDecl, NoHandle)
  <2>1. f \in VmFrames /\ FrameOK(f)
    BY FrameTypes, FrameKinds
  <2>2. vm' = Append(vm, f) /\ native' = native /\ calls' = calls
        /\ driveDepth' = driveDepth /\ Len(vm) < MaxVmCallStackDepth /\ mode' = mode
    BY <1>12 DEF ChildrenEntered
  <2> HIDE DEF f
  <2>3. NativeOf("drive")' = NativeOf("drive") /\ Running' = Running
    BY <2>2 DEF NativeOf, Running
  <2> QED
    BY <1>1, <2>1, <2>2, <2>3, LimitsLower DEF calls
<1>13. ASSUME NEW d \in Decl, FrameHopped(d) PROVE WithinLimits'
  <2> DEFINE g == [Last(vm) EXCEPT !.decl = d, !.hops = @ + 1]
  <2>1. /\ RecordTailCallHop(d)
        /\ vm' = SetLast(vm, g) /\ native' = native /\ driveDepth' = driveDepth
        /\ mode' = mode
    BY <1>13 DEF FrameHopped
  <2>2. vm # <<>> /\ g \in VmFrames
    BY <1>13, FrameHop
  <2> HIDE DEF g
  <2>3. nativeDepth' = nativeDepth /\ moduleDepth' = moduleDepth
    BY <2>1 DEF RecordTailCallHop
  <2>4. NativeOf("drive")' = NativeOf("drive") /\ Running' = Running
    BY <2>1 DEF NativeOf, Running
  <2> QED
    BY <1>1, <2>1, <2>2, <2>3, <2>4, LimitsLower
<1>14. ASSUME UNCHANGED <<native, calls, driveDepth, mode>>, vm # <<>>,
              NEW w \in Seq(BOOLEAN),
              vm' = SetLast(vm, [Last(vm) EXCEPT !.wraps = w])
       PROVE  WithinLimits'
  <2> DEFINE h == [Last(vm) EXCEPT !.wraps = w]
  <2>1. h \in VmFrames /\ vm' = SetLast(vm, h)
    BY <1>14, Rewrapped
  <2> HIDE DEF h
  <2>2. NativeOf("drive")' = NativeOf("drive") /\ Running' = Running
    BY <1>14 DEF NativeOf, Running
  <2> QED
    BY <1>1, <1>14, <2>1, <2>2, LimitsLower DEF calls
<1>15. ASSUME NEW measures \in BOOLEAN, PushWrap(measures) PROVE WithinLimits'
  <2> DEFINE w == Append(Last(vm).wraps, measuring)
  <2>1. vm # <<>> /\ w \in Seq(BOOLEAN)
        /\ vm' = SetLast(vm, [Last(vm) EXCEPT !.wraps = w])
    BY <1>15, WrapPushed
  <2> HIDE DEF w
  <2>2. UNCHANGED <<native, calls, driveDepth, mode>>
    BY <1>15 DEF PushWrap
  <2> QED
    BY <1>14, <2>1, <2>2
<1>16. CASE PopWrap
  <2> DEFINE w == Front(Last(vm).wraps)
  <2>1. vm # <<>> /\ w \in Seq(BOOLEAN)
        /\ vm' = SetLast(vm, [Last(vm) EXCEPT !.wraps = w])
    BY <1>16, WrapPopped
  <2> HIDE DEF w
  <2>2. UNCHANGED <<native, calls, driveDepth, mode>>
    BY <1>16 DEF PopWrap
  <2> QED
    BY <1>14, <2>1, <2>2
<1>17. ASSUME native # <<>>, Last(native).type \notin {"top", "drive"},
              native' = Front(native), vm' = vm, driveDepth' = driveDepth,
              Running' = Running, nativeDepth' <= MaxUserCallDepth,
              moduleDepth' <= MaxModuleCallDepth
       PROVE  WithinLimits'
  <2>1. /\ NativeOf("drive")' = NativeOf("drive") \ {Len(native)}
        /\ Len(native) \in NativeOf("drive") <=> Last(native).type = "drive"
    BY <1>17, PlacesPopped
  <2>2. \A i \in 1..(Len(native) - 1) : native'[i] = native[i]
    BY <1>17, PoppedNative
  <2>3. \A j \in Drives : j \in 1..(Len(native) - 1)
    <3> TAKE j \in Drives
    <3>1. Len(native) \in Nat /\ j \in 1..Len(native)
      BY DriveFacts
    <3>2. j # Len(native)
      BY <1>17, <2>1 DEF Drives
    <3> QED
      BY <3>1, <3>2
  <2>4. NativeOf("drive")' = NativeOf("drive")
    BY <1>17, <2>1
  <2> QED
    BY <1>17, <2>2, <2>3, <2>4, LimitsLower
<1>18. CASE BlockClosed
  <2>1. /\ native # <<>> /\ Last(native).type \in {"block", "measure"}
        /\ native' = Front(native)
        /\ UNCHANGED <<vm, calls, driveDepth, mode>>
    BY <1>0, <1>18 DEF BlockClosed
  <2> QED
    BY <1>1, <1>17, <2>1 DEF calls, Running
<1>19. CASE CallLeft
  <2>1. /\ native # <<>> /\ Last(native).type = "call"
        /\ native' = Front(native) /\ ExitUserCall(Last(native).handle)
        /\ UNCHANGED <<vm, driveDepth, mode>>
    BY <1>0, <1>19 DEF CallLeft
  <2>2. nativeDepth' <= MaxUserCallDepth /\ moduleDepth' <= MaxModuleCallDepth
    BY <2>1, CallDepths
  <2> QED
    BY <1>17, <2>1, <2>2 DEF Running
<1>20. CASE UnwindDrive
  <2>1. /\ native # <<>> /\ Last(native).type = "drive" /\ native' = Front(native)
        /\ driveDepth' = driveDepth - 1 /\ Len(vm) = Last(native).floor
        /\ UNCHANGED <<calls, vm, mode>>
    BY <1>0, <1>20 DEF UnwindDrive, Throwing
  <2> QED
    BY <1>1, <2>1, LimitsEnd DEF calls, Running
<1>21. ASSUME LeaveBracket(Last(vm))
       PROVE  nativeDepth' <= MaxUserCallDepth /\ moduleDepth' <= MaxModuleCallDepth
  BY <1>1, <1>21, CallDepths DEF LeaveBracket, calls
<1>22. CASE VmReturn
  <2>1. /\ native # <<>> /\ Last(native).type = "drive" /\ Running
        /\ vm' = Front(vm) /\ LeaveBracket(Last(vm)) /\ mode' = mode
        /\ \/ native' = Front(native) /\ driveDepth' = driveDepth - 1
           \/ native' = native /\ driveDepth' = driveDepth
    BY <1>0, <1>22 DEF VmReturn, InVm
  <2>2. vm # <<>>
    BY <2>1, DriverHasFrame
  <2>3. CASE native' = Front(native) /\ driveDepth' = driveDepth - 1
    BY <1>21, <2>1, <2>2, <2>3, LimitsEnd DEF Running
  <2>4. CASE native' = native /\ driveDepth' = driveDepth
    BY <1>21, <2>1, <2>2, <2>4, LimitsLower DEF Running, NativeOf
  <2> QED
    BY <2>1, <2>3, <2>4
<1>23. CASE UnwindFrame
  <2>1. /\ native # <<>> /\ Last(native).type = "drive" /\ Len(vm) > Last(native).floor
        /\ vm' = Front(vm) /\ LeaveBracket(Last(vm)) /\ mode' = mode
        /\ native' = native /\ driveDepth' = driveDepth
    BY <1>0, <1>23 DEF UnwindFrame, Throwing
  <2>2. vm # <<>>
    BY <2>1, DriverHasFrame
  <2> QED
    BY <1>21, <2>1, <2>2, LimitsLower DEF Running, NativeOf
<1>24. CASE UNCHANGED vars
  BY <1>2, <1>24 DEF vars, calls, Running
<1> QED
  BY <1>3, <1>4, <1>5, <1>6, <1>6a, <1>7, <1>8, <1>9, <1>10, <1>11, <1>12, <1>13,
     <1>15, <1>16, <1>18, <1>19, <1>20, <1>22, <1>23, <1>24 DEF Step

-----------------------------------------------------------------------------
(* The measuring mode.                                                     *)

(* The frames with a bracket of nodes open.                                *)
Wrapped == {k \in 1..Len(vm) : vm[k].wraps # <<>>}

Measures == NativeOf("measure")

LEMMA PlacesBelow ==
  ASSUME NEW m \in Nat, NEW k \in 1..m
  PROVE  /\ \A l \in 1..(k - 1) : l \in 1..m /\ l < k
         /\ \A l \in 1..m : l < k => l \in 1..(k - 1)
OBVIOUS

(* What there is to prove, and to use, in terms of these two.              *)
LEMMA ModesMean ==
  ASSUME Shapes, SavedModes, MeasuringScoped
  PROVE  /\ \A i \in Measures : native[i].saved =>
              (\E j \in Measures : j < i) \/ (\E k \in Wrapped : ~Above(i, k))
         /\ \A k \in Wrapped : Head(vm[k].wraps) =>
              (\E i \in Measures : Above(i, k)) \/ (\E l \in Wrapped : l < k)
         /\ measuring => Measures # {} \/ Wrapped # {}
<1> PICK m \in Nat : m = Len(vm)
  BY DEF Shapes
<1>1. ASSUME NEW k \in 1..m, NEW l \in 1..(k - 1) PROVE l \in 1..m /\ l < k
  OBVIOUS
<1>2. \A i \in Measures : native[i].saved =>
        (\E j \in Measures : j < i) \/ (\E k \in Wrapped : ~Above(i, k))
  BY DEF SavedModes, Measures, Wrapped
<1>3. ASSUME NEW k \in Wrapped, Head(vm[k].wraps)
      PROVE  (\E i \in Measures : Above(i, k)) \/ (\E l \in Wrapped : l < k)
  <2>1. k \in 1..m /\ vm[k].wraps # <<>>
    BY DEF Wrapped
  <2>2. CASE \E i \in NativeOf("measure") : Above(i, k)
    BY <2>2 DEF Measures
  <2>3. ASSUME NEW l \in 1..(k - 1), vm[l].wraps # <<>>
        PROVE  l \in Wrapped /\ l < k
    BY <1>1, <2>1, <2>3 DEF Wrapped
  <2> QED
    BY <1>3, <2>1, <2>2, <2>3 DEF SavedModes
<1>4. measuring => Measures # {} \/ Wrapped # {}
  BY DEF MeasuringScoped, Measures, Wrapped
<1> QED
  BY <1>2, <1>3, <1>4

LEMMA ModesOf ==
  ASSUME Len(vm') \in Nat,
         \A i \in Measures' : native'[i].saved =>
           (\E j \in Measures' : j < i) \/ (\E k \in Wrapped' : ~Above(i, k)'),
         \A k \in Wrapped' : Head(vm'[k].wraps) =>
           (\E i \in Measures' : Above(i, k)') \/ (\E l \in Wrapped' : l < k),
         measuring' => Measures' # {} \/ Wrapped' # {}
  PROVE  SavedModes' /\ MeasuringScoped'
<1> PICK m \in Nat : m = Len(vm')
  OBVIOUS
<1>1. \A k \in 1..m : \A l \in 1..m : l < k => l \in 1..(k - 1)
  BY PlacesBelow
<1>2. ASSUME NEW i \in NativeOf("measure")', native'[i].saved
      PROVE  \/ \E j \in NativeOf("measure")' : j < i
             \/ \E k \in 1..Len(vm') : vm'[k].wraps # <<>> /\ ~Above(i, k)'
  BY <1>2 DEF Measures, Wrapped
<1>3. ASSUME NEW k \in 1..Len(vm'), vm'[k].wraps # <<>>, Head(vm'[k].wraps)
      PROVE  \/ \E i \in NativeOf("measure")' : Above(i, k)'
             \/ \E l \in 1..(k - 1) : vm'[l].wraps # <<>>
  <2>1. k \in Wrapped'
    BY <1>3 DEF Wrapped
  <2>2. CASE \E i \in Measures' : Above(i, k)'
    BY <2>2 DEF Measures
  <2>3. ASSUME NEW l \in Wrapped', l < k
        PROVE  l \in 1..(k - 1) /\ vm'[l].wraps # <<>>
    BY <1>1, <2>3 DEF Wrapped
  <2> QED
    BY <1>3, <2>1, <2>2, <2>3
<1>4. SavedModes'
  BY <1>2, <1>3 DEF SavedModes
<1>5. MeasuringScoped'
  BY DEF MeasuringScoped, Measures, Wrapped
<1> QED
  BY <1>4, <1>5

(* A step that leaves brackets and measurements alone.                     *)
LEMMA ModesStill ==
  ASSUME Shapes, SavedModes, MeasuringScoped, Len(vm') \in Nat,
         measuring' = measuring, Measures' = Measures, Wrapped' = Wrapped,
         \A i \in Measures : native'[i] = native[i],
         \A k \in Wrapped : vm'[k].wraps = vm[k].wraps,
         \A i \in Measures, k \in Wrapped : Above(i, k)' <=> Above(i, k)
  PROVE  SavedModes' /\ MeasuringScoped'
BY ModesMean, ModesOf

(* A frame is pushed.                                                      *)
LEMMA WrappedPushed ==
  ASSUME Shapes, NEW f \in VmFrames, FrameOK(f), f.wraps = <<>>, vm' = Append(vm, f)
  PROVE  /\ Wrapped' = Wrapped /\ Len(vm') \in Nat
         /\ \A k \in Wrapped : vm'[k] = vm[k]
<1> PICK m \in Nat : m = Len(vm)
  BY DEF Shapes
<1>1. /\ Len(vm') = m + 1
      /\ vm'[m + 1] = f
      /\ \A k \in 1..m : vm'[k] = vm[k]
  BY PushedVm
<1>2. \A k : k \in 1..(m + 1) <=> k \in 1..m \/ k = m + 1
  OBVIOUS
<1>3. Wrapped' = {k \in 1..(m + 1) : vm'[k].wraps # <<>>}
  BY <1>1 DEF Wrapped
<1>4. Wrapped = {k \in 1..m : vm[k].wraps # <<>>}
  BY DEF Wrapped
<1>5. Wrapped' = Wrapped
  BY <1>1, <1>2, <1>3, <1>4, Zenon
<1> QED
  BY <1>1, <1>4, <1>5

(* The last frame goes.                                                    *)
LEMMA WrappedPopped ==
  ASSUME Shapes, vm # <<>>, vm' = Front(vm)
  PROVE  /\ Wrapped' = Wrapped \ {Len(vm)} /\ Len(vm') \in Nat
         /\ Len(vm) \in Wrapped <=> Last(vm).wraps # <<>>
         /\ \A k \in Wrapped' : vm'[k] = vm[k]
<1> PICK m \in Nat : m = Len(vm)
  BY DEF Shapes
<1>1. /\ m # 0 /\ Len(vm') = m - 1
      /\ \A k \in 1..(m - 1) : vm'[k] = vm[k]
  BY PoppedFrames
<1>2. \A k : k \in 1..(m - 1) <=> k \in 1..m /\ k # m
  OBVIOUS
<1>3. Wrapped' = {k \in 1..(m - 1) : vm'[k].wraps # <<>>}
  BY <1>1 DEF Wrapped
<1>4. Wrapped = {k \in 1..m : vm[k].wraps # <<>>}
  BY DEF Wrapped
<1>5. Wrapped' = Wrapped \ {m}
  BY <1>1, <1>2, <1>3, <1>4, Zenon
<1>6. m \in 1..m
  BY <1>1
<1>7. m \in Wrapped <=> Last(vm).wraps # <<>>
  BY <1>4, <1>6 DEF Last
<1> QED
  BY <1>1, <1>3, <1>5, <1>7

(* The last frame changes.                                                 *)
LEMMA WrappedChanged ==
  ASSUME Shapes, vm # <<>>, NEW f \in VmFrames, FrameOK(f), vm' = SetLast(vm, f)
  PROVE  /\ Wrapped' = IF f.wraps # <<>> THEN Wrapped \cup {Len(vm)}
                                         ELSE Wrapped \ {Len(vm)}
         /\ Len(vm) \in Wrapped <=> Last(vm).wraps # <<>>
         /\ Len(vm') = Len(vm) /\ Len(vm) \in Nat
         /\ vm'[Len(vm)] = f
         /\ \A k \in 1..Len(vm) : k # Len(vm) => vm'[k] = vm[k]
<1>0. vm \in Seq(VmFrames)
  BY DEF Shapes
<1> PICK m \in Nat : m = Len(vm)
  BY <1>0
<1>1. /\ Len(vm') = m
      /\ vm'[m] = f
      /\ \A k \in 1..(m - 1) : vm'[k] = vm[k]
  BY ChangedVm
<1>2. m # 0
  BY <1>0, EmptySeq
<1>3. m \in 1..m /\ \A k \in 1..m : k # m => k \in 1..(m - 1)
  BY <1>2
<1>4. Wrapped' = {k \in 1..m : vm'[k].wraps # <<>>}
  BY <1>1 DEF Wrapped
<1>5. Wrapped = {k \in 1..m : vm[k].wraps # <<>>}
  BY DEF Wrapped
<1>6. Wrapped' = IF f.wraps # <<>> THEN Wrapped \cup {m} ELSE Wrapped \ {m}
  BY <1>1, <1>3, <1>4, <1>5, Zenon
<1>7. m \in Wrapped <=> Last(vm).wraps # <<>>
  BY <1>3, <1>5 DEF Last
<1> QED
  BY <1>1, <1>3, <1>6, <1>7

(* Where nothing is bracketed or measured, nothing is above anything.      *)
LEMMA AboveSame ==
  ASSUME Drives' = Drives, \A j \in Drives : native'[j] = native[j]
  PROVE  \A i, k : Above(i, k)' <=> Above(i, k)
BY DEF Above

(* A measurement in C++ begins.                                            *)
LEMMA ModesMeasured ==
  ASSUME Shapes, SavedModes, MeasuringScoped, native # <<>>, OpenMeasure
  PROVE  SavedModes' /\ MeasuringScoped'
<1> PICK n \in Nat : n = Len(native)
  BY DEF Shapes
<1> DEFINE x == Measure(measuring)
<1>1. /\ x \in Activations /\ x.type = "measure" /\ x.saved = measuring
      /\ native' = Append(native, x) /\ vm' = vm /\ Len(vm) \in Nat
      /\ measuring' = TRUE
  BY ActivationTypes DEF OpenMeasure, Measure, Shapes
<1> HIDE DEF x
<1>2. NativeOf("measure")' = NativeOf("measure") \cup {n + 1}
  BY <1>1, PlacesPushed
<1>3. NativeOf("drive")' = NativeOf("drive")
  BY <1>1, PlacesPushed
<1>4. /\ native'[n + 1] = x
      /\ \A i \in 1..n : native'[i] = native[i]
  BY <1>1, PushedNative
<1>5. \A t : \A i \in NativeOf(t) : i \in 1..n
  BY DEF NativeOf
<1>6. /\ Measures' = Measures \cup {n + 1}
      /\ \A i \in Measures : native'[i] = native[i] /\ i < n + 1
  BY <1>2, <1>4, <1>5 DEF Measures
<1>7. Drives' = Drives /\ \A j \in Drives : native'[j] = native[j] /\ ~(j > n + 1)
  BY <1>3, <1>4, <1>5 DEF Drives
<1>8. \A i, k : Above(i, k)' <=> Above(i, k)
  BY <1>7, AboveSame
<1>9. \A k : ~Above(n + 1, k)'
  BY <1>7 DEF Above
<1>10. Wrapped' = Wrapped
  BY <1>1 DEF Wrapped
<1>11. ASSUME NEW i \in Measures', native'[i].saved
       PROVE  (\E j \in Measures' : j < i) \/ (\E k \in Wrapped' : ~Above(i, k)')
  <2>1. CASE i \in Measures
    BY <1>6, <1>8, <1>10, <1>11, <2>1, ModesMean
  <2>2. CASE i = n + 1
    <3>1. measuring
      BY <1>1, <1>4, <1>11, <2>2
    <3>2. CASE Measures # {}
      BY <1>6, <2>2, <3>2
    <3>3. CASE Wrapped # {}
      BY <1>9, <1>10, <2>2, <3>3
    <3> QED
      BY <3>1, <3>2, <3>3, ModesMean
  <2> QED
    BY <1>6, <2>1, <2>2
<1>12. ASSUME NEW k \in Wrapped', Head(vm'[k].wraps)
       PROVE  (\E i \in Measures' : Above(i, k)') \/ (\E l \in Wrapped' : l < k)
  <2>1. k \in Wrapped /\ Head(vm[k].wraps)
    BY <1>1, <1>10, <1>12
  <2>2. (\E i \in Measures : Above(i, k)) \/ (\E l \in Wrapped : l < k)
    BY <2>1, ModesMean
  <2> QED
    BY <1>6, <1>8, <1>10, <2>2
<1>13. Measures' # {}
  BY <1>6
<1> QED
  BY <1>1, <1>11, <1>12, <1>13, ModesOf

(* One ends, and restores the mode it found.                               *)
LEMMA ModesUnmeasured ==
  ASSUME Shapes, SavedModes, MeasuringScoped, native # <<>>,
         Last(native).type = "measure", native' = Front(native), vm' = vm,
         measuring' = Last(native).saved
  PROVE  SavedModes' /\ MeasuringScoped'
<1> PICK n \in Nat : n = Len(native)
  BY DEF Shapes
<1>1. NativeOf("measure")' = NativeOf("measure") \ {n} /\ n \in NativeOf("measure")
  BY PlacesPopped
<1>2. NativeOf("drive")' = NativeOf("drive")
  <2>1. /\ NativeOf("drive")' = NativeOf("drive") \ {Len(native)}
        /\ Len(native) \in NativeOf("drive") <=> Last(native).type = "drive"
    BY PlacesPopped
  <2> QED
    BY <2>1
<1>3. \A i \in 1..(n - 1) : native'[i] = native[i]
  BY PoppedNative
<1>4. \A t : \A i \in NativeOf(t) : i \in 1..n
  BY DEF NativeOf
<1>5. \A i \in 1..n : i # n => i \in 1..(n - 1) /\ i < n
  OBVIOUS
<1>6. Drives' = Drives /\ \A j \in Drives : native'[j] = native[j] /\ ~(j > n)
  <2>1. n \notin NativeOf("drive")
    BY <1>1 DEF NativeOf
  <2> QED
    BY <1>2, <1>3, <1>4, <1>5, <2>1 DEF Drives
<1>7. /\ Measures' = Measures \ {n} /\ n \in Measures
      /\ \A i \in Measures' : i \in Measures /\ native'[i] = native[i] /\ i < n
  BY <1>1, <1>3, <1>4, <1>5 DEF Measures
<1>8. \A i, k : Above(i, k)' <=> Above(i, k)
  BY <1>6, AboveSame
<1>9. \A k : ~Above(n, k)
  BY <1>6 DEF Above
<1>10. Wrapped' = Wrapped /\ Len(vm') \in Nat
  BY DEF Wrapped, Shapes
<1>11. ASSUME NEW i \in Measures', native'[i].saved
       PROVE  (\E j \in Measures' : j < i) \/ (\E k \in Wrapped' : ~Above(i, k)')
  <2>1. i \in Measures /\ native[i].saved /\ i < n
    BY <1>7, <1>11
  <2>2. CASE \E k \in Wrapped : ~Above(i, k)
    BY <1>8, <1>10, <2>2
  <2>3. ASSUME NEW j \in Measures, j < i
        PROVE  j \in Measures'
    <3>1. j \in 1..n /\ i \in 1..n
      BY <1>4, <2>1 DEF Measures
    <3>2. j # n
      BY <2>1, <2>3, <3>1
    <3> QED
      BY <1>7, <3>2
  <2> QED
    BY <2>1, <2>2, <2>3, ModesMean
<1>12. ASSUME NEW k \in Wrapped', Head(vm'[k].wraps)
       PROVE  (\E i \in Measures' : Above(i, k)') \/ (\E l \in Wrapped' : l < k)
  <2>1. (\E i \in Measures : Above(i, k)) \/ (\E l \in Wrapped : l < k)
    BY <1>10, <1>12, ModesMean
  <2>2. \A i \in Measures : Above(i, k) => i \in Measures'
    BY <1>7, <1>9
  <2> QED
    BY <1>8, <1>10, <2>1, <2>2
<1>13. measuring' => Measures' # {} \/ Wrapped' # {}
  <2>1. ASSUME measuring'
        PROVE  (\E j \in Measures : j < n) \/ (\E k \in Wrapped : ~Above(n, k))
    <3>1. native[n].saved
      BY <2>1 DEF Last
    <3> QED
      BY <1>7, <3>1, ModesMean
  <2>2. \A j \in Measures : j < n => j \in Measures'
    <3>1. ~(n < n)
      OBVIOUS
    <3> QED
      BY <1>7, <3>1
  <2> QED
    BY <1>10, <2>1, <2>2
<1> QED
  BY <1>10, <1>11, <1>12, <1>13, ModesOf

(* A frame is no longer bracketed.                                         *)
LEMMA ModesUnwrapped ==
  ASSUME Shapes, DrivesNested, SavedModes, MeasuringScoped, vm # <<>>,
         Len(native) \in Drives, Last(native).floor < Len(vm), native' = native,
         Len(vm') \in Nat, Wrapped' = Wrapped \ {Len(vm)},
         \A k \in Wrapped' : vm'[k] = vm[k],
         measuring' = IF Len(vm) \in Wrapped THEN Head(vm[Len(vm)].wraps) ELSE measuring
  PROVE  SavedModes' /\ MeasuringScoped'
<1> PICK n \in Nat : n = Len(native)
  BY DEF Shapes
<1> PICK m \in Nat : m = Len(vm)
  BY DEF Shapes
<1>1. Measures' = Measures /\ Drives' = Drives
  BY DEF NativeOf, Measures, Drives
<1>2. \A i, k : Above(i, k)' <=> Above(i, k)
  BY <1>1, AboveSame
<1>3. \A k \in Wrapped : k \in 1..m
  BY DEF Wrapped
<1>4. \A i \in Measures : Above(i, m)
  <2> TAKE i \in Measures
  <2>1. i \in 1..n /\ i # n
    BY DEF Measures, Drives, NativeOf
  <2>2. n > i
    BY <2>1
  <2> QED
    BY <2>2 DEF Above, Last
<1>5. ASSUME NEW i \in Measures', native'[i].saved
      PROVE  (\E j \in Measures' : j < i) \/ (\E k \in Wrapped' : ~Above(i, k)')
  <2>1. (\E j \in Measures : j < i) \/ (\E k \in Wrapped : ~Above(i, k))
    BY <1>1, <1>5, ModesMean
  <2>2. \A k \in Wrapped : ~Above(i, k) => k \in Wrapped'
    BY <1>1, <1>4
  <2> QED
    BY <1>1, <1>2, <2>1, <2>2
<1>6. \A k, l \in Wrapped : l < k => l \in Wrapped'
  <2>1. \A k, l \in 1..m : l < k => l # m
    OBVIOUS
  <2> QED
    BY <1>3, <2>1
<1>7. ASSUME NEW k \in Wrapped', Head(vm'[k].wraps)
      PROVE  (\E i \in Measures' : Above(i, k)') \/ (\E l \in Wrapped' : l < k)
  <2>1. k \in Wrapped /\ Head(vm[k].wraps)
    BY <1>7
  <2>2. (\E i \in Measures : Above(i, k)) \/ (\E l \in Wrapped : l < k)
    BY <2>1, ModesMean
  <2> QED
    BY <1>1, <1>2, <1>6, <2>1, <2>2
<1>8. measuring' => Measures' # {} \/ Wrapped' # {}
  <2>1. CASE m \in Wrapped
    <3>1. ASSUME measuring'
          PROVE  (\E i \in Measures : Above(i, m)) \/ (\E l \in Wrapped : l < m)
      BY <2>1, <3>1, ModesMean
    <3> QED
      BY <1>1, <1>6, <2>1, <3>1
  <2>2. CASE m \notin Wrapped
    BY <1>1, <2>2, ModesMean
  <2> QED
    BY <2>1, <2>2
<1> QED
  BY <1>5, <1>7, <1>8, ModesOf

(* The first of a sequence that grows and shrinks at its end.              *)
LEMMA HeadFacts ==
  ASSUME NEW S, NEW s \in Seq(S)
  PROVE  /\ s # <<>> => Head(s) = s[1]
         /\ \A x \in S : /\ Append(s, x) # <<>>
                         /\ Head(Append(s, x)) = IF s = <<>> THEN x ELSE Head(s)
         /\ s # <<>> /\ Front(s) # <<>> => Head(Front(s)) = Head(s)
         /\ s # <<>> /\ Front(s) = <<>> => Last(s) = Head(s)
<1> PICK n \in Nat : n = Len(s)
  OBVIOUS
<1>0. ASSUME NEW t \in Seq(S), t # <<>> PROVE Head(t) = t[1]
  BY <1>0
<1>1. ASSUME NEW x \in S
      PROVE  /\ Append(s, x) # <<>>
             /\ Head(Append(s, x)) = IF s = <<>> THEN x ELSE Head(s)
  <2>1. /\ Append(s, x) \in Seq(S) /\ Append(s, x) # <<>>
        /\ Len(Append(s, x)) = n + 1
        /\ \A i \in 1..n : Append(s, x)[i] = s[i]
        /\ Append(s, x)[n + 1] = x
    BY AppendProperties
  <2>2. Head(Append(s, x)) = Append(s, x)[1]
    BY <2>1, <1>0
  <2>3. CASE s = <<>>
    <3>1. n + 1 = 1
      BY <2>3
    <3> QED
      BY <2>1, <2>2, <2>3, <3>1
  <2>4. CASE s # <<>>
    <3>1. 1 \in 1..n
      BY <2>4, EmptySeq
    <3> QED
      BY <1>0, <2>1, <2>2, <2>4, <3>1
  <2> QED
    BY <2>1, <2>3, <2>4
<1>2. ASSUME s # <<>>
      PROVE  /\ Front(s) # <<>> => Head(Front(s)) = Head(s)
             /\ Front(s) = <<>> => Last(s) = Head(s)
  <2>1. /\ Front(s) \in Seq(S) /\ Len(Front(s)) = n - 1 /\ n \in Nat \ {0}
        /\ \A i \in 1..(n - 1) : Front(s)[i] = s[i]
    BY <1>2, FrontFacts
  <2>2. ASSUME Front(s) # <<>> PROVE Head(Front(s)) = Head(s)
    <3>1. n - 1 # 0
      BY <2>1, <2>2, EmptySeq
    <3>2. 1 \in 1..(n - 1)
      BY <2>1, <3>1
    <3>3. Front(s)[1] = s[1]
      BY <2>1, <3>2
    <3> QED
      BY <1>0, <1>2, <2>1, <2>2, <3>3
  <2>3. ASSUME Front(s) = <<>> PROVE Last(s) = Head(s)
    <3>1. n - 1 = 0
      BY <2>1, <2>3
    <3>2. n = 1
      BY <2>1, <3>1
    <3> QED
      BY <1>0, <1>2, <3>2 DEF Last
  <2> QED
    BY <2>2, <2>3
<1> QED
  BY <1>0, <1>1, <1>2

(* A frame is bracketed, for the first time or still.                      *)
LEMMA ModesRewrapped ==
  ASSUME Shapes, DrivesNested, SavedModes, MeasuringScoped, vm # <<>>,
         Len(native) \in Drives, Last(native).floor < Len(vm), native' = native,
         Len(vm') \in Nat, Wrapped' = Wrapped \cup {Len(vm)},
         \A k \in 1..Len(vm) : k # Len(vm) => vm'[k] = vm[k],
         Head(vm'[Len(vm)].wraps) =
           IF Len(vm) \in Wrapped THEN Head(vm[Len(vm)].wraps) ELSE measuring
  PROVE  SavedModes' /\ MeasuringScoped'
<1> PICK n \in Nat : n = Len(native)
  BY DEF Shapes
<1> PICK m \in Nat : m = Len(vm)
  BY DEF Shapes
<1>1. Measures' = Measures /\ Drives' = Drives
  BY DEF NativeOf, Measures, Drives
<1>2. \A i, k : Above(i, k)' <=> Above(i, k)
  BY <1>1, AboveSame
<1>3. \A k \in Wrapped : k \in 1..m
  BY DEF Wrapped
<1>4. \A i \in Measures : Above(i, m)
  <2> TAKE i \in Measures
  <2>1. i \in 1..n /\ i # n
    BY DEF Measures, Drives, NativeOf
  <2>2. n > i
    BY <2>1
  <2> QED
    BY <2>2 DEF Above, Last
<1>5. ASSUME NEW i \in Measures', native'[i].saved
      PROVE  (\E j \in Measures' : j < i) \/ (\E k \in Wrapped' : ~Above(i, k)')
  <2>1. (\E j \in Measures : j < i) \/ (\E k \in Wrapped : ~Above(i, k))
    BY <1>1, <1>5, ModesMean
  <2> QED
    BY <1>1, <1>2, <2>1
<1>6. ASSUME NEW k \in Wrapped', Head(vm'[k].wraps)
      PROVE  (\E i \in Measures' : Above(i, k)') \/ (\E l \in Wrapped' : l < k)
  <2>1. CASE k \in Wrapped
    <3>1. Head(vm[k].wraps)
      BY <1>3, <1>6, <2>1
    <3>2. (\E i \in Measures : Above(i, k)) \/ (\E l \in Wrapped : l < k)
      BY <2>1, <3>1, ModesMean
    <3> QED
      BY <1>1, <1>2, <3>2
  <2>2. CASE k = m /\ m \notin Wrapped
    <3>1. measuring
      BY <1>6, <2>2
    <3>2. CASE Measures # {}
      BY <1>1, <1>2, <1>4, <2>2, <3>2
    <3>3. \A l \in 1..m : l # m => l < m
      OBVIOUS
    <3>4. CASE Wrapped # {}
      BY <1>3, <2>2, <3>3, <3>4
    <3> QED
      BY <3>1, <3>2, <3>4, ModesMean
  <2> QED
    BY <2>1, <2>2
<1>7. Wrapped' # {}
  OBVIOUS
<1> QED
  BY <1>5, <1>6, <1>7, ModesOf

(* A bracket is opened in the last frame.                                  *)
LEMMA ModesPushWrap ==
  ASSUME Shapes, DrivesNested, SavedModes, MeasuringScoped,
         NEW measures \in BOOLEAN, PushWrap(measures)
  PROVE  SavedModes' /\ MeasuringScoped'
<1> DEFINE f == Last(vm)
           w == Append(f.wraps, measuring)
           h == [f EXCEPT !.wraps = w]
<1>1. /\ vm # <<>> /\ f.wraps \in Seq(BOOLEAN) /\ w \in Seq(BOOLEAN)
      /\ measuring \in BOOLEAN
      /\ vm' = SetLast(vm, [f EXCEPT !.wraps = w])
      /\ Last(native).floor < Len(vm)
      /\ Len(native) \in Drives
  BY WrapPushed
<1>2. w # <<>> /\ Head(w) = IF f.wraps = <<>> THEN measuring ELSE Head(f.wraps)
  BY <1>1, HeadFacts
<1> HIDE DEF w
<1>3. h \in VmFrames /\ FrameOK(h) /\ h.wraps = w /\ vm' = SetLast(vm, h)
  BY <1>1, Rewrapped
<1> HIDE DEF h
<1>4. /\ Wrapped' = Wrapped \cup {Len(vm)}
      /\ Len(vm) \in Wrapped <=> f.wraps # <<>>
      /\ Len(vm') \in Nat
      /\ vm'[Len(vm)] = h
      /\ \A k \in 1..Len(vm) : k # Len(vm) => vm'[k] = vm[k]
  BY <1>1, <1>2, <1>3, WrappedChanged
<1>5. Head(vm'[Len(vm)].wraps) =
        IF Len(vm) \in Wrapped THEN Head(vm[Len(vm)].wraps) ELSE measuring
  BY <1>2, <1>3, <1>4 DEF Last
<1>6. native' = native
  BY DEF PushWrap
<1> HIDE DEF f
<1> QED
  BY <1>1, <1>4, <1>5, <1>6, ModesRewrapped

(* The innermost one is closed: it restores the mode it found.             *)
LEMMA ModesPopWrap ==
  ASSUME Shapes, DrivesNested, SavedModes, MeasuringScoped, PopWrap
  PROVE  SavedModes' /\ MeasuringScoped'
<1> DEFINE f == Last(vm)
           w == Front(f.wraps)
           h == [f EXCEPT !.wraps = w]
<1>1. /\ vm # <<>> /\ w \in Seq(BOOLEAN)
      /\ vm' = SetLast(vm, [f EXCEPT !.wraps = w])
  BY WrapPopped
<1>2. /\ Running /\ native # <<>> /\ Last(native).type = "drive"
      /\ f.wraps # <<>> /\ native' = native /\ measuring' = Last(f.wraps)
  BY DEF PopWrap, InVm, Running, Shapes
<1>3. /\ Last(native).floor < Len(vm) /\ Len(native) \in Drives
      /\ f \in VmFrames
  BY <1>2, DriverHasFrame
<1>4. f.wraps \in Seq(BOOLEAN)
  BY <1>3 DEF VmFrames
<1>5. /\ w # <<>> => Head(w) = Head(f.wraps)
      /\ w = <<>> => Last(f.wraps) = Head(f.wraps)
  BY <1>2, <1>4, HeadFacts
<1> HIDE DEF w
<1>6. h \in VmFrames /\ FrameOK(h) /\ h.wraps = w /\ vm' = SetLast(vm, h)
  BY <1>1, Rewrapped
<1> HIDE DEF h
<1>7. /\ Wrapped' = IF w # <<>> THEN Wrapped \cup {Len(vm)} ELSE Wrapped \ {Len(vm)}
      /\ Len(vm) \in Wrapped
      /\ Len(vm') \in Nat
      /\ vm'[Len(vm)] = h
      /\ \A k \in 1..Len(vm) : k # Len(vm) => vm'[k] = vm[k]
  BY <1>1, <1>2, <1>6, WrappedChanged
<1>8. CASE w # <<>>
  <2>1. Head(vm'[Len(vm)].wraps) = Head(vm[Len(vm)].wraps)
    BY <1>5, <1>6, <1>7, <1>8 DEF Last
  <2>2. Wrapped' = Wrapped \cup {Len(vm)}
    BY <1>7, <1>8
  <2> HIDE DEF f
  <2> QED
    BY <1>1, <1>2, <1>3, <1>7, <2>1, <2>2, ModesRewrapped
<1>9. CASE w = <<>>
  <2>1. measuring' = Head(vm[Len(vm)].wraps)
    BY <1>2, <1>5, <1>9 DEF Last
  <2>2. Wrapped' = Wrapped \ {Len(vm)}
    BY <1>7, <1>9
  <2>3. \A k \in Wrapped' : vm'[k] = vm[k]
    BY <1>7, <2>2 DEF Wrapped
  <2> HIDE DEF f
  <2> QED
    BY <1>1, <1>2, <1>3, <1>7, <2>1, <2>2, <2>3, ModesUnwrapped
<1> QED
  BY <1>8, <1>9

(* A driver that starts or ends has no bracketed frame above it.           *)
LEMMA AboveStarted ==
  ASSUME Shapes, Running, NEW f \in VmFrames, FrameOK(f), NEW below,
         \/ below = native
         \/ /\ Last(native).type = "call"
            /\ \E c \in Activations : c.type = "call" /\ below = SetLast(native, c),
         DriveVm(below, f)
  PROVE  /\ NativeOf("measure")' = NativeOf("measure")
         /\ \A i \in NativeOf("measure") : native'[i] = native[i]
         /\ \A i, k : k \in Wrapped => (Above(i, k)' <=> Above(i, k))
<1> PICK n \in Nat : n = Len(native)
  BY DEF Shapes
<1> PICK m \in Nat : m = Len(vm)
  BY DEF Shapes
<1>1. ASSUME NEW t
      PROVE  /\ NativeOf(t)' = IF t = "drive" THEN NativeOf(t) \cup {n + 1}
                                              ELSE NativeOf(t)
             /\ native'[n + 1] = Drive(m)
             /\ \A i \in NativeOf(t) : i # n => native'[i] = native[i]
             /\ native'[n] = Last(below)
  BY StartedPlaces
<1>2. ASSUME NEW t \in {"drive", "measure"}, n \in NativeOf(t)
      PROVE  native'[n] = native[n]
  <2>1. below = native
    BY <1>2 DEF NativeOf, Last
  <2> QED
    BY <1>1, <2>1 DEF Last
<1>3. \A i \in NativeOf("measure") : native'[i] = native[i]
  BY <1>1, <1>2
<1>4. \A j \in NativeOf("drive") : native'[j] = native[j]
  BY <1>1, <1>2
<1>5. ASSUME NEW i, NEW k \in Wrapped PROVE Above(i, k)' <=> Above(i, k)
  <2>1. k \in 1..m
    BY DEF Wrapped
  <2>2. native'[n + 1].floor = m /\ ~(k > m)
    BY <1>1, <2>1 DEF Drive
  <2>3. Drives' = Drives \cup {n + 1}
    BY <1>1 DEF Drives
  <2> QED
    BY <1>4, <2>2, <2>3, AboveStill DEF Drives
<1> QED
  BY <1>1, <1>3, <1>5

LEMMA AboveEnded ==
  ASSUME Shapes, native # <<>>, Last(native).type = "drive", native' = Front(native),
         NEW W, \A k \in W : ~(k > Last(native).floor)
  PROVE  /\ NativeOf("measure")' = NativeOf("measure")
         /\ \A i \in NativeOf("measure") : native'[i] = native[i]
         /\ \A i, k : k \in W => (Above(i, k)' <=> Above(i, k))
<1>0. native \in Seq(Activations)
  BY DEF Shapes
<1> PICK n \in Nat : n = Len(native)
  BY <1>0
<1>1. ASSUME NEW t
      PROVE  /\ NativeOf(t)' = NativeOf(t) \ {n}
             /\ n \in NativeOf(t) <=> Last(native).type = t
  BY PlacesPopped
<1>2. \A i \in 1..(n - 1) : native'[i] = native[i]
  BY PoppedNative
<1>3. \A i \in 1..n : i # n => i \in 1..(n - 1)
  OBVIOUS
<1>4. \A t : \A i \in NativeOf(t) : i # n => native'[i] = native[i]
  BY <1>2, <1>3 DEF NativeOf
<1>5. ASSUME NEW i, NEW k \in W PROVE Above(i, k)' <=> Above(i, k)
  <2>1. Drives' = Drives \ {n} /\ \A j \in Drives' : native'[j] = native[j]
    BY <1>1, <1>4 DEF Drives
  <2>2. ~(k > native[n].floor)
    BY DEF Last
  <2> QED
    BY <2>1, <2>2, AboveStill
<1>6. n \notin NativeOf("measure")
  BY <1>1
<1>7. NativeOf("measure")' = NativeOf("measure")
  BY <1>1, <1>6
<1>8. \A i \in NativeOf("measure") : native'[i] = native[i]
  BY <1>4, <1>6
<1>9. \A i, k : k \in W => (Above(i, k)' <=> Above(i, k))
  BY <1>5
<1> QED
  BY <1>7, <1>8, <1>9

(* Every step keeps what is known of the measuring mode.                   *)
LEMMA ModesKept ==
  ASSUME Shapes, DrivesNested, Counted, SavedModes, MeasuringScoped, Step
  PROVE  SavedModes' /\ MeasuringScoped'
<1> DEFINE Goal == SavedModes' /\ MeasuringScoped'
<1>0. /\ native # <<>> <=> mode # "idle"
      /\ Running => native # <<>>
      /\ Len(vm) \in Nat
  BY DEF Shapes, Running
<1>1. ASSUME Len(vm') \in Nat, measuring' = measuring, Wrapped' = Wrapped,
             \A k \in Wrapped : vm'[k].wraps = vm[k].wraps,
             NativeOf("measure")' = NativeOf("measure"),
             \A i \in NativeOf("measure") : native'[i] = native[i],
             \A i, k : k \in Wrapped => (Above(i, k)' <=> Above(i, k))
      PROVE  Goal
  BY <1>1, ModesStill DEF Measures
<1>2. ASSUME UNCHANGED <<measuring, native, vm>> PROVE Goal
  <2>1. \A i, k : Above(i, k)' <=> Above(i, k)
    BY <1>2, AboveSame DEF Drives, NativeOf
  <2> QED
    BY <1>0, <1>1, <1>2, <2>1 DEF Wrapped, NativeOf
<1>3. ASSUME vm = <<>>, vm' = vm, native' = <<>> \/ native' = <<Top>>,
             measuring' = measuring, NativeOf("measure") = {}
      PROVE  Goal
  <2>1. NativeOf("measure")' = {}
    <3>1. CASE native' = <<>>
      BY <3>1 DEF NativeOf
    <3>2. CASE native' = <<Top>>
      <4>1. Len(native') = 1 /\ native'[1] = Top
        BY <3>2
      <4>2. \A i \in 1..1 : i = 1
        OBVIOUS
      <4> QED
        BY <4>1, <4>2 DEF NativeOf, Top
    <3> QED
      BY <1>3, <3>1, <3>2
  <2>2. Wrapped = {} /\ Wrapped' = {}
    BY <1>3 DEF Wrapped
  <2> QED
    BY <1>0, <1>1, <1>3, <2>1, <2>2
<1>4. CASE Evaluate
  BY <1>0, <1>3, <1>4, NothingOutside DEF Evaluate
<1>5. CASE PassLeft
  BY <1>3, <1>5, NothingOutside DEF PassLeft
<1>6. CASE Refused
  BY <1>2, <1>6 DEF Refused
<1>7. ASSUME Running, measuring' = measuring, vm' = vm, NEW x \in Activations,
             x.type \in {"call", "block"}, native' = Append(native, x)
      PROVE  Goal
  <2>1. NativeOf("measure")' = NativeOf("measure") /\ NativeOf("drive")' = NativeOf("drive")
    BY <1>0, <1>7, PlacesPushed
  <2>2. \A i \in 1..Len(native) : native'[i] = native[i]
    BY <1>0, <1>7, PushedNative
  <2>3. \A t : \A i \in NativeOf(t) : native'[i] = native[i]
    BY <2>2 DEF NativeOf
  <2>4. \A i, k : Above(i, k)' <=> Above(i, k)
    BY <2>1, <2>3, AboveSame DEF Drives
  <2> QED
    BY <1>0, <1>1, <1>7, <2>1, <2>3, <2>4 DEF Wrapped
<1>8. ASSUME NEW d \in Decl, NEW catches \in BOOLEAN, NativeEntered(d, catches)
      PROVE  Goal
  <2>1. Call(d, catches) \in Activations /\ Call(d, catches).type = "call"
    BY ActivationTypes DEF Call
  <2>2. /\ Running /\ measuring' = measuring /\ vm' = vm
        /\ native' = Append(native, Call(d, catches))
    BY <1>8 DEF NativeEntered
  <2> QED
    BY <1>7, <2>1, <2>2
<1>8a. ASSUME NEW d \in Decl, NEW skip \in BOOLEAN, EntryStopped(d, skip)
       PROVE  Goal
  BY <1>2, <1>8a DEF EntryStopped
<1>9. CASE OpenBlock
  <2>1. Block \in Activations /\ Block.type = "block"
    BY ActivationTypes DEF Block
  <2>2. /\ Running /\ measuring' = measuring /\ vm' = vm
        /\ native' = Append(native, Block)
    BY <1>9 DEF OpenBlock, WalksStatements, InWalker, VmStatements, InVm
  <2> QED
    BY <1>7, <2>1, <2>2
<1>10. CASE OpenMeasure
  BY <1>0, <1>10, ModesMeasured DEF OpenMeasure, InWalker
<1>11. ASSUME NEW d \in Decl, NativeHopped(d) PROVE Goal
  <2> DEFINE c == [Last(native) EXCEPT !.decl = d, !.hops = @ + 1]
  <2>1. /\ native # <<>> /\ Last(native).type = "call"
        /\ native' = SetLast(native, c) /\ vm' = vm /\ measuring' = measuring
    BY <1>0, <1>11 DEF NativeHopped, WalksFunction, InWalker
  <2>2. c \in Activations /\ c.type = "call"
    BY <1>11, NativeHop
  <2> HIDE DEF c
  <2>3. NativeOf("measure")' = NativeOf("measure") /\ NativeOf("drive")' = NativeOf("drive")
    BY <2>1, <2>2, PlacesChanged
  <2>4. \A i \in 1..(Len(native) - 1) : native'[i] = native[i]
    BY <2>1, <2>2, ChangedNative
  <2>5. ASSUME NEW t \in {"drive", "measure"}, NEW i \in NativeOf(t)
        PROVE  native'[i] = native[i]
    <3>1. Len(native) \in Nat /\ i \in 1..Len(native) /\ native[i].type = t
      BY PlaceFacts
    <3>2. i # Len(native)
      BY <2>1, <3>1 DEF Last
    <3>3. i \in 1..(Len(native) - 1)
      BY <3>1, <3>2
    <3> QED
      BY <2>4, <3>3
  <2>6. \A i, k : Above(i, k)' <=> Above(i, k)
    BY <2>3, <2>5, AboveSame DEF Drives
  <2> QED
    BY <1>0, <1>1, <2>1, <2>3, <2>5, <2>6 DEF Wrapped
<1>12. ASSUME Running, NEW f \in VmFrames, FrameOK(f), f.wraps = <<>>, NEW below,
              \/ below = native
              \/ /\ Last(native).type = "call"
                 /\ \E c \in Activations : c.type = "call" /\ below = SetLast(native, c),
              DriveVm(below, f)
       PROVE  Goal
  <2>1. vm' = Append(vm, f) /\ measuring' = measuring
    BY <1>12 DEF DriveVm
  <2>2. Wrapped' = Wrapped /\ Len(vm') \in Nat /\ \A k \in Wrapped : vm'[k] = vm[k]
    BY <1>12, <2>1, WrappedPushed
  <2>3. /\ NativeOf("measure")' = NativeOf("measure")
        /\ \A i \in NativeOf("measure") : native'[i] = native[i]
        /\ \A i, k : k \in Wrapped => (Above(i, k)' <=> Above(i, k))
    BY <1>12, AboveStarted
  <2> QED
    BY <1>1, <2>1, <2>2, <2>3
<1>13. CASE RunCompiledBody
  <2> DEFINE s == [Last(native) EXCEPT !.started = TRUE]
             f == VmFrame(IF Last(native).decl \in Functions THEN "entry" ELSE "body",
                          Last(native).decl, NoHandle)
  <2>1. /\ Running /\ Last(native).type = "call"
        /\ s \in Activations /\ s.type = "call"
        /\ f \in VmFrames /\ FrameOK(f) /\ DriveVm(SetLast(native, s), f)
    BY <1>13, BodyStarted
  <2>2. f.wraps = <<>>
    BY DEF VmFrame
  <2> HIDE DEF s, f
  <2> QED
    BY <1>12, <2>1, <2>2
<1>14. CASE ChunkStarted
  <2>1. PICK type \in {"bare", "body"} :
             DriveVm(native, VmFrame(type, NoDecl, NoHandle))
    BY <1>14 DEF ChunkStarted
  <2> DEFINE f == VmFrame(type, NoDecl, NoHandle)
  <2>2. /\ f \in VmFrames /\ FrameOK(f) /\ DriveVm(native, f) /\ Running
        /\ f.wraps = <<>>
    BY <1>14, <2>1, FrameTypes, FrameKinds DEF ChunkStarted, VmFrame
  <2> HIDE DEF f
  <2> QED
    BY <1>12, <2>2
<1>15. ASSUME NEW f \in VmFrames, FrameOK(f), f.wraps = <<>>, vm' = Append(vm, f),
              native' = native, measuring' = measuring
       PROVE  Goal
  <2>1. Wrapped' = Wrapped /\ Len(vm') \in Nat /\ \A k \in Wrapped : vm'[k] = vm[k]
    BY <1>15, WrappedPushed
  <2>2. \A i, k : Above(i, k)' <=> Above(i, k)
    BY <1>15, AboveSame DEF Drives, NativeOf
  <2> QED
    BY <1>1, <1>15, <2>1, <2>2 DEF NativeOf
<1>16. ASSUME NEW d \in Decl, NEW type \in {"function", "module"}, FrameEntered(d, type)
       PROVE  Goal
  <2> DEFINE f == VmFrame(type, d, Handle(d, FALSE))
  <2>1. f \in VmFrames /\ FrameOK(f) /\ f.wraps = <<>>
    BY <1>16, FrameTypes, FrameKinds DEF FrameEntered, VmFrame
  <2>2. vm' = Append(vm, f) /\ native' = native /\ measuring' = measuring
    BY <1>16 DEF FrameEntered
  <2> HIDE DEF f
  <2> QED
    BY <1>15, <2>1, <2>2
<1>17. CASE ChildrenEntered
  <2> DEFINE f == VmFrame("children", NoDecl, NoHandle)
  <2>1. f \in VmFrames /\ FrameOK(f) /\ f.wraps = <<>>
    BY FrameTypes, FrameKinds DEF VmFrame
  <2>2. vm' = Append(vm, f) /\ native' = native /\ measuring' = measuring
    BY <1>17 DEF ChildrenEntered
  <2> HIDE DEF f
  <2> QED
    BY <1>15, <2>1, <2>2
<1>18. ASSUME NEW d \in Decl, FrameHopped(d) PROVE Goal
  <2> DEFINE g == [Last(vm) EXCEPT !.decl = d, !.hops = @ + 1]
  <2>1. vm' = SetLast(vm, g) /\ native' = native /\ measuring' = measuring
    BY <1>18 DEF FrameHopped
  <2>2. vm # <<>> /\ g \in VmFrames /\ FrameOK(g) /\ g.wraps = Last(vm).wraps
    BY <1>18, FrameHop
  <2> HIDE DEF g
  <2>3. /\ Wrapped' = IF g.wraps # <<>> THEN Wrapped \cup {Len(vm)}
                                        ELSE Wrapped \ {Len(vm)}
        /\ Len(vm) \in Wrapped <=> Last(vm).wraps # <<>>
        /\ Len(vm') \in Nat
        /\ vm'[Len(vm)] = g
        /\ \A k \in 1..Len(vm) : k # Len(vm) => vm'[k] = vm[k]
    BY <2>1, <2>2, WrappedChanged
  <2>4. Wrapped' = Wrapped
    BY <2>2, <2>3
  <2>5. \A k \in Wrapped : vm'[k].wraps = vm[k].wraps
    BY <2>2, <2>3 DEF Wrapped, Last
  <2>6. \A i, k : Above(i, k)' <=> Above(i, k)
    BY <2>1, AboveSame DEF Drives, NativeOf
  <2> QED
    BY <1>1, <2>1, <2>3, <2>4, <2>5, <2>6 DEF NativeOf
<1>19. ASSUME NEW measures \in BOOLEAN, PushWrap(measures) PROVE Goal
  BY <1>19, ModesPushWrap
<1>20. CASE PopWrap
  BY <1>20, ModesPopWrap
<1>21. ASSUME native # <<>>, Last(native).type \in {"block", "call"},
              native' = Front(native), vm' = vm, measuring' = measuring
       PROVE  Goal
  <2>1. ASSUME NEW t \in {"drive", "measure"}
        PROVE  /\ NativeOf(t)' = NativeOf(t)
               /\ \A i \in NativeOf(t) : native'[i] = native[i]
    <3>1. /\ NativeOf(t)' = NativeOf(t) \ {Len(native)}
          /\ Len(native) \in NativeOf(t) <=> Last(native).type = t
      BY <1>21, PlacesPopped
    <3>2. \A i \in 1..(Len(native) - 1) : native'[i] = native[i]
      BY <1>21, PoppedNative
    <3>3. ASSUME NEW i \in NativeOf(t) PROVE native'[i] = native[i]
      <4>1. Len(native) \in Nat /\ i \in 1..Len(native) /\ i # Len(native)
        BY <1>21, <3>1, PlaceFacts
      <4>2. i \in 1..(Len(native) - 1)
        BY <4>1
      <4> QED
        BY <3>2, <4>2
    <3> QED
      BY <1>21, <3>1, <3>3
  <2>2. \A i, k : Above(i, k)' <=> Above(i, k)
    BY <2>1, AboveSame DEF Drives
  <2> QED
    BY <1>0, <1>1, <1>21, <2>1, <2>2 DEF Wrapped
<1>22. CASE BlockClosed
  <2>1. /\ native # <<>> /\ native' = Front(native) /\ vm' = vm
        /\ Last(native).type \in {"block", "measure"}
        /\ measuring' = IF Last(native).type = "measure"
                        THEN Last(native).saved ELSE measuring
    BY <1>0, <1>22 DEF BlockClosed
  <2>2. CASE Last(native).type = "block"
    BY <1>21, <2>1, <2>2
  <2>3. CASE Last(native).type = "measure"
    BY <2>1, <2>3, ModesUnmeasured
  <2> QED
    BY <2>1, <2>2, <2>3
<1>23. CASE CallLeft
  BY <1>0, <1>21, <1>23 DEF CallLeft
<1>24. CASE UnwindDrive
  <2>1. /\ native # <<>> /\ Last(native).type = "drive" /\ native' = Front(native)
        /\ Len(vm) = Last(native).floor
        /\ UNCHANGED <<vm, measuring>>
    BY <1>0, <1>24 DEF UnwindDrive, Throwing
  <2>2. \A k \in Wrapped : ~(k > Last(native).floor)
    <3> PICK m \in Nat : m = Len(vm)
      BY <1>0
    <3> QED
      BY <2>1 DEF Wrapped
  <2>3. /\ NativeOf("measure")' = NativeOf("measure")
        /\ \A i \in NativeOf("measure") : native'[i] = native[i]
        /\ \A i, k : k \in Wrapped => (Above(i, k)' <=> Above(i, k))
    BY <2>1, <2>2, AboveEnded
  <2> QED
    BY <1>0, <1>1, <2>1, <2>3 DEF Wrapped
<1>25. CASE VmReturn
  <2>1. /\ native # <<>> /\ Last(native).type = "drive" /\ Running
        /\ vm' = Front(vm) /\ measuring' = measuring /\ Last(vm).wraps = <<>>
        /\ IF Len(vm) = Last(native).floor + 1 THEN native' = Front(native)
                                               ELSE native' = native
    BY <1>0, <1>25 DEF VmReturn, InVm
  <2>2. vm # <<>> /\ Len(vm) \in Nat \ {0} /\ Last(native).floor \in Nat
    BY <2>1, DriverHasFrame
  <2>3. /\ Wrapped' = Wrapped \ {Len(vm)} /\ Len(vm') \in Nat
        /\ Len(vm) \notin Wrapped
        /\ \A k \in Wrapped' : vm'[k] = vm[k]
    BY <2>1, <2>2, WrappedPopped
  <2>4. Wrapped' = Wrapped
    BY <2>3
  <2>5. CASE Len(vm) = Last(native).floor + 1
    <3>1. \A k \in Wrapped : ~(k > Last(native).floor)
      <4>1. \A k \in Wrapped : k \in 1..Len(vm) /\ k # Len(vm)
        BY <2>3 DEF Wrapped
      <4> QED
        BY <2>2, <2>5, <4>1
    <3>2. native' = Front(native)
      BY <2>1, <2>5
    <3>3. /\ NativeOf("measure")' = NativeOf("measure")
          /\ \A i \in NativeOf("measure") : native'[i] = native[i]
          /\ \A i, k : k \in Wrapped => (Above(i, k)' <=> Above(i, k))
      BY <2>1, <3>1, <3>2, AboveEnded
    <3> QED
      BY <1>1, <2>1, <2>3, <2>4, <3>3
  <2>6. CASE Len(vm) # Last(native).floor + 1
    <3>1. native' = native
      BY <2>1, <2>6
    <3>2. \A i, k : Above(i, k)' <=> Above(i, k)
      BY <3>1, AboveSame DEF Drives, NativeOf
    <3> QED
      BY <1>1, <2>1, <2>3, <2>4, <3>1, <3>2 DEF NativeOf
  <2> QED
    BY <2>5, <2>6
<1>26. CASE UnwindFrame
  <2>1. /\ native # <<>> /\ Last(native).type = "drive" /\ Len(vm) > Last(native).floor
        /\ vm' = Front(vm) /\ native' = native
        /\ measuring' = IF Last(vm).wraps = <<>> THEN measuring ELSE Head(Last(vm).wraps)
    BY <1>0, <1>26 DEF UnwindFrame, Throwing
  <2>2. vm # <<>> /\ Len(native) \in Drives /\ Last(native).floor < Len(vm)
    BY <2>1, DriverHasFrame
  <2>3. /\ Wrapped' = Wrapped \ {Len(vm)} /\ Len(vm') \in Nat
        /\ Len(vm) \in Wrapped <=> Last(vm).wraps # <<>>
        /\ \A k \in Wrapped' : vm'[k] = vm[k]
    BY <2>1, <2>2, WrappedPopped
  <2>4. measuring' = IF Len(vm) \in Wrapped THEN Head(vm[Len(vm)].wraps) ELSE measuring
    BY <2>1, <2>3 DEF Last
  <2> QED
    BY <2>1, <2>2, <2>3, <2>4, ModesUnwrapped
<1>27. CASE UNCHANGED vars
  BY <1>2, <1>27 DEF vars
<1> QED
  BY <1>4, <1>5, <1>6, <1>8, <1>8a, <1>9, <1>10, <1>11, <1>13, <1>14, <1>16, <1>17,
     <1>18, <1>19, <1>20, <1>22, <1>23, <1>24, <1>25, <1>26, <1>27 DEF Step

-----------------------------------------------------------------------------
(* The accumulators.                                                       *)

(* A sequence that is not empty is what is left without its last element,  *)
(* and that.                                                               *)
LEMMA LastApart ==
  ASSUME NEW S, NEW s \in Seq(S), s # <<>>
  PROVE  /\ Front(s) \in Seq(S) /\ Last(s) \in S
         /\ s = Append(Front(s), Last(s))
         /\ \A x \in S : SetLast(s, x) = Append(Front(s), x)
<1> PICK n \in Nat : n = Len(s)
  OBVIOUS
<1> DEFINE p == Front(s)
<1>1. /\ p \in Seq(S) /\ Len(p) = n - 1 /\ n \in Nat \ {0}
      /\ \A i \in 1..(n - 1) : p[i] = s[i]
  BY FrontFacts
<1>2. Last(s) \in S /\ Last(s) = s[n]
  BY <1>1, ElementOfSeq DEF Last
<1> HIDE DEF p
<1>3. \A i \in 1..n : i \in 1..(n - 1) \/ i = n
  OBVIOUS
<1>4. n - 1 + 1 = n
  BY <1>1
<1>5. ASSUME NEW x \in S
      PROVE  /\ Append(p, x) \in Seq(S) /\ Len(Append(p, x)) = n
             /\ Append(p, x)[n] = x
             /\ \A i \in 1..(n - 1) : Append(p, x)[i] = s[i]
  <2>1. /\ Append(p, x) \in Seq(S)
        /\ Append(p, x) # << >>
        /\ Len(Append(p, x)) = Len(p) + 1
        /\ \A i \in 1..Len(p) : Append(p, x)[i] = p[i]
        /\ Append(p, x)[Len(p) + 1] = x
    BY <1>1, AppendProperties
  <2> QED
    BY <1>1, <1>4, <2>1
<1>6. s = Append(p, Last(s))
  <2>1. /\ Append(p, Last(s)) \in Seq(S) /\ Len(Append(p, Last(s))) = n
        /\ Append(p, Last(s))[n] = Last(s)
        /\ \A i \in 1..(n - 1) : Append(p, Last(s))[i] = s[i]
    BY <1>2, <1>5
  <2>2. \A i \in 1..n : s[i] = Append(p, Last(s))[i]
    BY <1>2, <1>3, <2>1
  <2> QED
    BY <2>1, <2>2, SeqEqual
<1>7. ASSUME NEW x \in S PROVE SetLast(s, x) = Append(p, x)
  <2>1. /\ Append(p, x) \in Seq(S) /\ Len(Append(p, x)) = n
        /\ Append(p, x)[n] = x
        /\ \A i \in 1..(n - 1) : Append(p, x)[i] = s[i]
    BY <1>5
  <2>2. /\ SetLast(s, x) \in Seq(S)
        /\ Len(SetLast(s, x)) = Len(s)
        /\ SetLast(s, x)[Len(s)] = x
        /\ \A i \in 1..(Len(s) - 1) : SetLast(s, x)[i] = s[i]
    BY EmptySeq, ExceptSeq DEF SetLast
  <2>3. \A i \in 1..n : SetLast(s, x)[i] = Append(p, x)[i]
    BY <1>3, <2>1, <2>2
  <2> QED
    BY <2>1, <2>2, <2>3, SeqEqual
<1> QED
  BY <1>1, <1>2, <1>6, <1>7 DEF p

(* Activations that have an accumulator to take off again.                 *)
Holds(a) ==
  \/ a.type \in {"block", "measure"}
  \/ a.type = "call" /\ a.handle.decl \in Modules

HoldersIn(s) == {i \in 1..Len(s) : Holds(s[i])}
SplicesIn(v) == {k \in 1..Len(v) : OwnsModuleSplice(v[k])}
WrapsIn(v) == {p \in (1..Len(v)) \X (1..MaxWraps) : p[2] <= Len(v[p[1]].wraps)}

(* What the two stacks hold, and what one element of each adds to it.      *)
NativeHeld(s) == Cardinality(HoldersIn(s))
FramesHeld(v) == Cardinality(SplicesIn(v)) + Cardinality(WrapsIn(v))
Holding(a) == IF Holds(a) THEN 1 ELSE 0
FrameHolding(f) == (IF OwnsModuleSplice(f) THEN 1 ELSE 0) + Len(f.wraps)

WrapsFit(v) == \A k \in 1..Len(v) : Len(v[k].wraps) <= MaxWraps

LEMMA DisjointUnion ==
  ASSUME NEW S, NEW T, IsFiniteSet(S), IsFiniteSet(T), S \cap T = {}
  PROVE  /\ IsFiniteSet(S \cup T)
         /\ Cardinality(S \cup T) = Cardinality(S) + Cardinality(T)
<1>1. /\ IsFiniteSet(S \cup T)
      /\ Cardinality(S \cup T) = Cardinality(S) + Cardinality(T) - Cardinality(S \cap T)
  BY FS_Union
<1>2. Cardinality(S \cap T) = 0
  BY FS_EmptySet
<1>3. Cardinality(S) \in Nat /\ Cardinality(T) \in Nat
  BY FS_CardinalityType
<1> QED
  BY <1>1, <1>2, <1>3

(* The open accumulators are what the two stacks hold.                     *)
LEMMA NativeHeldMeans ==
  ASSUME NEW s \in Seq(Activations)
  PROVE  /\ NativeHeld(s) \in Nat
         /\ NativeHeld(s) =
              Cardinality({i \in 1..Len(s) : s[i].type = "block"})
              + Cardinality({i \in 1..Len(s) : s[i].type = "measure"})
              + Cardinality({i \in {i \in 1..Len(s) : s[i].type = "call"} :
                               s[i].handle.decl \in Modules})
<1> PICK n \in Nat : n = Len(s)
  OBVIOUS
<1> DEFINE B == {i \in 1..n : s[i].type = "block"}
           M == {i \in 1..n : s[i].type = "measure"}
           C == {i \in {i \in 1..n : s[i].type = "call"} : s[i].handle.decl \in Modules}
<1>1. /\ IsFiniteSet(B) /\ IsFiniteSet(M) /\ IsFiniteSet(C) /\ IsFiniteSet(HoldersIn(s))
      /\ Cardinality(HoldersIn(s)) \in Nat
  <2>1. B \in SUBSET (1..n) /\ M \in SUBSET (1..n) /\ C \in SUBSET (1..n)
        /\ HoldersIn(s) \in SUBSET (1..n)
    BY DEF HoldersIn
  <2> QED
    BY <2>1, PlacesFinite
<1>2. HoldersIn(s) = (B \cup M) \cup C
  BY DEF HoldersIn, Holds
<1>3. B \cap M = {} /\ (B \cup M) \cap C = {}
  OBVIOUS
<1> HIDE DEF B, M, C
<1>4. IsFiniteSet(B \cup M) /\ Cardinality(B \cup M) = Cardinality(B) + Cardinality(M)
  BY <1>1, <1>3, DisjointUnion
<1>5. Cardinality((B \cup M) \cup C) = Cardinality(B \cup M) + Cardinality(C)
  BY <1>1, <1>3, <1>4, DisjointUnion
<1> QED
  BY <1>1, <1>2, <1>4, <1>5 DEF NativeHeld, B, M, C

(* What one more activation holds.                                         *)
LEMMA NativeHeldAppend ==
  ASSUME NEW s \in Seq(Activations), NEW x \in Activations
  PROVE  NativeHeld(Append(s, x)) = NativeHeld(s) + Holding(x)
<1> PICK n \in Nat : n = Len(s)
  OBVIOUS
<1> DEFINE t == Append(s, x)
<1>1. /\ Len(t) = n + 1 /\ t[n + 1] = x
      /\ \A i \in 1..n : t[i] = s[i]
  BY AppendProperties
<1>2. \A i : i \in 1..(n + 1) <=> i \in 1..n \/ i = n + 1
  OBVIOUS
<1>3. n + 1 \notin 1..n
  OBVIOUS
<1> HIDE DEF t
<1>4. HoldersIn(t) = {i \in 1..(n + 1) : Holds(t[i])}
      /\ HoldersIn(s) = {i \in 1..n : Holds(s[i])}
  BY <1>1 DEF HoldersIn
<1>5. HoldersIn(t) = IF Holds(x) THEN HoldersIn(s) \cup {n + 1} ELSE HoldersIn(s)
  BY <1>1, <1>2, <1>4, Zenon
<1>6. IsFiniteSet(HoldersIn(s)) /\ n + 1 \notin HoldersIn(s)
  <2>1. HoldersIn(s) \in SUBSET (1..n)
    BY <1>4
  <2> QED
    BY <1>3, <2>1, PlacesFinite
<1>7. NativeHeld(t) = NativeHeld(s) + Holding(x)
  <2>1. NativeHeld(s) \in Nat
    BY NativeHeldMeans
  <2>2. CASE Holds(x)
    BY <1>5, <1>6, <2>2, OneMore DEF NativeHeld, Holding
  <2>3. CASE ~Holds(x)
    BY <1>5, <2>1, <2>3 DEF NativeHeld, Holding
  <2> QED
    BY <2>2, <2>3
<1> QED
  BY <1>7 DEF t

(* What one less leaves, and what changing the last one changes.           *)
LEMMA NativeHeldFront ==
  ASSUME NEW s \in Seq(Activations), s # <<>>
  PROVE  NativeHeld(Front(s)) = NativeHeld(s) - Holding(Last(s))
<1> DEFINE p == Front(s)
           l == Last(s)
<1>1. p \in Seq(Activations) /\ l \in Activations /\ s = Append(p, l)
  BY LastApart
<1> HIDE DEF p, l
<1>2. NativeHeld(s) = NativeHeld(p) + Holding(l)
  BY <1>1, NativeHeldAppend
<1>3. NativeHeld(p) \in Nat /\ Holding(l) \in Nat
  BY <1>1, NativeHeldMeans DEF Holding
<1>4. NativeHeld(p) = NativeHeld(s) - Holding(l)
  BY <1>2, <1>3
<1> QED
  BY <1>4 DEF p, l

LEMMA NativeHeldSetLast ==
  ASSUME NEW s \in Seq(Activations), s # <<>>, NEW x \in Activations,
         Holds(x) <=> Holds(Last(s))
  PROVE  NativeHeld(SetLast(s, x)) = NativeHeld(s)
<1> DEFINE p == Front(s)
           l == Last(s)
<1>1. /\ p \in Seq(Activations) /\ l \in Activations
      /\ s = Append(p, l) /\ SetLast(s, x) = Append(p, x)
  BY LastApart
<1>2. Holding(x) = Holding(l)
  BY DEF Holding
<1> HIDE DEF p, l
<1>3. NativeHeld(s) = NativeHeld(p) + Holding(l)
      /\ NativeHeld(SetLast(s, x)) = NativeHeld(p) + Holding(x)
  BY <1>1, NativeHeldAppend
<1> QED
  BY <1>2, <1>3


(* The same for the frames of the VM, each with the brackets it has open.  *)
LEMMA FramesFinite ==
  ASSUME NEW v \in Seq(VmFrames)
  PROVE  /\ IsFiniteSet(SplicesIn(v)) /\ IsFiniteSet(WrapsIn(v))
         /\ Cardinality(SplicesIn(v)) \in Nat /\ Cardinality(WrapsIn(v)) \in Nat
         /\ FramesHeld(v) \in Nat
<1> PICK n \in Nat : n = Len(v)
  OBVIOUS
<1>1. /\ SplicesIn(v) \in SUBSET (1..n)
      /\ WrapsIn(v) \in SUBSET ((1..n) \X (1..MaxWraps))
  BY DEF SplicesIn, WrapsIn
<1>2. IsFiniteSet(1..n) /\ IsFiniteSet(1..MaxWraps)
  <2>1. MaxWraps \in Int /\ n \in Int /\ 1 \in Int
    BY CallsAssumption
  <2> QED
    BY <2>1, FS_Interval
<1>3. IsFiniteSet((1..n) \X (1..MaxWraps))
  BY <1>2, FS_Product
<1>4. IsFiniteSet(SplicesIn(v)) /\ IsFiniteSet(WrapsIn(v))
  BY <1>1, <1>2, <1>3, FS_Subset
<1>5. Cardinality(SplicesIn(v)) \in Nat /\ Cardinality(WrapsIn(v)) \in Nat
  BY <1>4, FS_CardinalityType
<1> QED
  BY <1>4, <1>5 DEF FramesHeld

(* The brackets of one frame.                                              *)
LEMMA WrapColumn ==
  ASSUME NEW k, NEW c \in Nat
  PROVE  /\ IsFiniteSet({k} \X (1..c))
         /\ Cardinality({k} \X (1..c)) = c
<1>1. IsFiniteSet({k}) /\ Cardinality({k}) = 1
  BY FS_Singleton
<1>2. IsFiniteSet(1..c) /\ Cardinality(1..c) = c
  BY FS_Interval
<1>3. /\ IsFiniteSet({k} \X (1..c))
      /\ Cardinality({k} \X (1..c)) = 1 * c
  <2>1. /\ IsFiniteSet({k} \X (1..c))
        /\ Cardinality({k} \X (1..c)) = Cardinality({k}) * Cardinality(1..c)
    BY <1>1, <1>2, FS_Product, Zenon
  <2> QED
    BY <1>1, <1>2, <2>1
<1> QED
  BY <1>3

LEMMA HeldTogether ==
  ASSUME NEW v, NEW t, NEW h, NEW o \in Nat, NEW c \in Nat,
         Cardinality(SplicesIn(v)) \in Nat, Cardinality(WrapsIn(v)) \in Nat,
         Cardinality(SplicesIn(t)) = Cardinality(SplicesIn(v)) + o,
         Cardinality(WrapsIn(t)) = Cardinality(WrapsIn(v)) + c,
         h = o + c
  PROVE  FramesHeld(t) = FramesHeld(v) + h
BY DEF FramesHeld

LEMMA FramesHeldAppend ==
  ASSUME NEW v \in Seq(VmFrames), NEW f \in VmFrames, Len(f.wraps) <= MaxWraps
  PROVE  FramesHeld(Append(v, f)) = FramesHeld(v) + FrameHolding(f)
<1> PICK n \in Nat : n = Len(v)
  OBVIOUS
<1> PICK c \in Nat : c = Len(f.wraps)
  BY DEF VmFrames
<1> DEFINE t == Append(v, f)
           Column == {n + 1} \X (1..c)
<1>1. /\ Len(t) = n + 1 /\ t[n + 1] = f /\ t \in Seq(VmFrames)
      /\ \A i \in 1..n : t[i] = v[i]
  BY AppendProperties
<1>2. \A i : i \in 1..(n + 1) <=> i \in 1..n \/ i = n + 1
  OBVIOUS
<1>3. n + 1 \notin 1..n
  OBVIOUS
<1>4. \A q : q \in 1..c <=> q \in 1..MaxWraps /\ q <= c
  BY CallsAssumption
<1> HIDE DEF t
<1>5. SplicesIn(t) = {i \in 1..(n + 1) : OwnsModuleSplice(t[i])}
      /\ SplicesIn(v) = {i \in 1..n : OwnsModuleSplice(v[i])}
  BY <1>1 DEF SplicesIn
<1>6. SplicesIn(t) = IF OwnsModuleSplice(f) THEN SplicesIn(v) \cup {n + 1}
                                            ELSE SplicesIn(v)
  BY <1>1, <1>2, <1>5, Zenon
<1>7. WrapsIn(t) = WrapsIn(v) \cup Column
  <2>1. ASSUME NEW i, NEW q
        PROVE  <<i, q>> \in WrapsIn(t) <=> <<i, q>> \in WrapsIn(v) \cup Column
    <3>1. <<i, q>> \in WrapsIn(t) <=>
            i \in 1..(n + 1) /\ q \in 1..MaxWraps /\ q <= Len(t[i].wraps)
      BY <1>1 DEF WrapsIn
    <3>2. <<i, q>> \in WrapsIn(v) <=>
            i \in 1..n /\ q \in 1..MaxWraps /\ q <= Len(v[i].wraps)
      BY DEF WrapsIn
    <3>3. <<i, q>> \in Column <=> i = n + 1 /\ q \in 1..c
      OBVIOUS
    <3> HIDE DEF Column
    <3>4. CASE i \in 1..n
      <4>1. t[i] = v[i] /\ i # n + 1
        BY <1>1, <1>3, <3>4
      <4> QED
        BY <1>2, <3>1, <3>2, <3>3, <3>4, <4>1
    <3>5. CASE i = n + 1
      <4>1. t[i].wraps = f.wraps
        BY <1>1, <3>5
      <4> QED
        BY <1>2, <1>3, <1>4, <3>1, <3>2, <3>3, <3>5, <4>1
    <3>6. CASE i \notin 1..n /\ i # n + 1
      BY <1>2, <3>1, <3>2, <3>3, <3>6
    <3> QED
      BY <3>4, <3>5, <3>6
  <2>2. WrapsIn(t) \subseteq (1..(n + 1)) \X (1..MaxWraps)
        /\ WrapsIn(v) \subseteq (1..n) \X (1..MaxWraps)
    BY <1>1 DEF WrapsIn
  <2>3. ASSUME NEW p \in WrapsIn(t) PROVE p \in WrapsIn(v) \cup Column
    <3>1. PICK i \in 1..(n + 1), q \in 1..MaxWraps : p = <<i, q>>
      BY <2>2
    <3> QED
      BY <2>1, <3>1
  <2>4. ASSUME NEW p \in WrapsIn(v) \cup Column PROVE p \in WrapsIn(t)
    <3>1. PICK i, q : p = <<i, q>>
      BY <2>2
    <3> QED
      BY <2>1, <3>1
  <2> QED
    BY <2>3, <2>4
<1>8. WrapsIn(v) \cap Column = {}
  <2>1. WrapsIn(v) \subseteq (1..n) \X (1..MaxWraps)
    BY DEF WrapsIn
  <2> QED
    BY <1>3, <2>1
<1>9. IsFiniteSet(Column) /\ Cardinality(Column) = c
  BY WrapColumn
<1> HIDE DEF Column
<1>10. Cardinality(WrapsIn(t)) = Cardinality(WrapsIn(v)) + c
  <2>1. Cardinality(WrapsIn(v) \cup Column) = Cardinality(WrapsIn(v)) + Cardinality(Column)
    BY <1>8, <1>9, FramesFinite, DisjointUnion
  <2> QED
    BY <1>7, <1>9, <2>1
<1>11. Cardinality(SplicesIn(t)) =
         Cardinality(SplicesIn(v)) + (IF OwnsModuleSplice(f) THEN 1 ELSE 0)
  <2>1. IsFiniteSet(SplicesIn(v)) /\ n + 1 \notin SplicesIn(v)
        /\ Cardinality(SplicesIn(v)) \in Nat
    BY <1>3, <1>5, FramesFinite
  <2>2. CASE OwnsModuleSplice(f)
    BY <1>6, <2>1, <2>2, OneMore
  <2>3. CASE ~OwnsModuleSplice(f)
    BY <1>6, <2>1, <2>3
  <2> QED
    BY <2>2, <2>3
<1>12. Cardinality(SplicesIn(v)) \in Nat /\ Cardinality(WrapsIn(v)) \in Nat
  BY FramesFinite
<1>13. FramesHeld(t) = FramesHeld(v) + FrameHolding(f)
  <2>1. CASE OwnsModuleSplice(f)
    <3>1. FrameHolding(f) = 1 + c /\ Cardinality(SplicesIn(t)) = Cardinality(SplicesIn(v)) + 1
      BY <1>11, <2>1 DEF FrameHolding
    <3> QED
      BY <1>10, <1>12, <3>1, HeldTogether
  <2>2. CASE ~OwnsModuleSplice(f)
    <3>1. FrameHolding(f) = 0 + c /\ Cardinality(SplicesIn(t)) = Cardinality(SplicesIn(v)) + 0
      BY <1>11, <2>2 DEF FrameHolding
    <3> QED
      BY <1>10, <1>12, <3>1, HeldTogether
  <2> QED
    BY <2>1, <2>2
<1> QED
  BY <1>13 DEF t

LEMMA FrameHoldingNat ==
  ASSUME NEW f \in VmFrames
  PROVE  FrameHolding(f) \in Nat
<1>1. Len(f.wraps) \in Nat
  BY DEF VmFrames
<1>2. CASE OwnsModuleSplice(f)
  BY <1>1, <1>2 DEF FrameHolding
<1>3. CASE ~OwnsModuleSplice(f)
  BY <1>1, <1>3 DEF FrameHolding
<1> QED
  BY <1>2, <1>3

LEMMA FramesHeldFront ==
  ASSUME NEW v \in Seq(VmFrames), v # <<>>, Len(Last(v).wraps) <= MaxWraps
  PROVE  FramesHeld(Front(v)) = FramesHeld(v) - FrameHolding(Last(v))
<1> DEFINE p == Front(v)
           l == Last(v)
<1>1. p \in Seq(VmFrames) /\ l \in VmFrames /\ v = Append(p, l)
  BY LastApart
<1>2. Len(l.wraps) <= MaxWraps
  OBVIOUS
<1> HIDE DEF p, l
<1>3. FramesHeld(v) = FramesHeld(p) + FrameHolding(l)
  BY <1>1, <1>2, FramesHeldAppend
<1>4. FramesHeld(p) \in Nat /\ FrameHolding(l) \in Nat
  BY <1>1, FramesFinite, FrameHoldingNat
<1>5. FramesHeld(p) = FramesHeld(v) - FrameHolding(l)
  BY <1>3, <1>4
<1> QED
  BY <1>5 DEF p, l

LEMMA FramesHeldSetLast ==
  ASSUME NEW v \in Seq(VmFrames), v # <<>>, NEW f \in VmFrames,
         Len(Last(v).wraps) <= MaxWraps, Len(f.wraps) <= MaxWraps
  PROVE  FramesHeld(SetLast(v, f)) =
           FramesHeld(v) - FrameHolding(Last(v)) + FrameHolding(f)
<1> DEFINE p == Front(v)
           l == Last(v)
<1>1. /\ p \in Seq(VmFrames) /\ l \in VmFrames
      /\ v = Append(p, l) /\ SetLast(v, f) = Append(p, f)
  BY LastApart
<1>2. Len(l.wraps) <= MaxWraps
  OBVIOUS
<1> HIDE DEF p, l
<1>3. FramesHeld(v) = FramesHeld(p) + FrameHolding(l)
      /\ FramesHeld(SetLast(v, f)) = FramesHeld(p) + FrameHolding(f)
  BY <1>1, <1>2, FramesHeldAppend
<1>4. /\ FramesHeld(p) \in Nat /\ FrameHolding(l) \in Nat
      /\ FrameHolding(f) \in Nat
  BY <1>1, FramesFinite, FrameHoldingNat
<1>5. FramesHeld(SetLast(v, f)) = FramesHeld(v) - FrameHolding(l) + FrameHolding(f)
  BY <1>3, <1>4
<1> QED
  BY <1>5 DEF l


(* What is open, on both stacks, before and after a step.                  *)
LEMMA FiveOpen ==
  ASSUME NEW a \in Nat, NEW b \in Nat, NEW c \in Nat, NEW d \in Nat, NEW e \in Nat
  PROVE  a + b + c + d + e = (a + b + c) + (d + e)
OBVIOUS

LEMMA OpenMeans ==
  ASSUME native \in Seq(Activations), vm \in Seq(VmFrames)
  PROVE  OpenAccumulators = NativeHeld(native) + FramesHeld(vm)
<1> DEFINE B == Cardinality({i \in 1..Len(native) : native[i].type = "block"})
           M == Cardinality({i \in 1..Len(native) : native[i].type = "measure"})
           C == Cardinality({i \in {i \in 1..Len(native) : native[i].type = "call"} :
                               native[i].handle.decl \in Modules})
           S == Cardinality(SplicesIn(vm))
           W == Cardinality(WrapsIn(vm))
<1>1. OpenAccumulators = B + M + C + S + W
  BY DEF OpenAccumulators, NativeOf, SplicesIn, WrapsOpen, WrapsIn
<1>2. NativeHeld(native) = B + M + C /\ FramesHeld(vm) = S + W
  BY NativeHeldMeans DEF FramesHeld
<1>3. S \in Nat /\ W \in Nat
  BY FramesFinite
<1>4. B \in Nat /\ M \in Nat /\ C \in Nat
  <2> PICK n \in Nat : n = Len(native)
    OBVIOUS
  <2> QED
    BY PlacesFinite
<1> HIDE DEF B, M, C, S, W
<1>5. B + M + C + S + W = (B + M + C) + (S + W)
  BY <1>3, <1>4, FiveOpen
<1> QED
  BY <1>1, <1>2, <1>5

LEMMA OpenMeansNext ==
  ASSUME native' \in Seq(Activations), vm' \in Seq(VmFrames)
  PROVE  OpenAccumulators' = NativeHeld(native') + FramesHeld(vm')
<1> DEFINE B == Cardinality({i \in 1..Len(native') : native'[i].type = "block"})
           M == Cardinality({i \in 1..Len(native') : native'[i].type = "measure"})
           C == Cardinality({i \in {i \in 1..Len(native') : native'[i].type = "call"} :
                               native'[i].handle.decl \in Modules})
           S == Cardinality(SplicesIn(vm'))
           W == Cardinality(WrapsIn(vm'))
<1>1. OpenAccumulators' = B + M + C + S + W
  BY DEF OpenAccumulators, NativeOf, SplicesIn, WrapsOpen, WrapsIn, OwnsModuleSplice
<1>2. NativeHeld(native') = B + M + C /\ FramesHeld(vm') = S + W
  BY NativeHeldMeans DEF FramesHeld
<1>3. S \in Nat /\ W \in Nat
  BY FramesFinite
<1>4. B \in Nat /\ M \in Nat /\ C \in Nat
  <2> PICK n \in Nat : n = Len(native')
    OBVIOUS
  <2> QED
    BY PlacesFinite
<1> HIDE DEF B, M, C, S, W
<1>5. B + M + C + S + W = (B + M + C) + (S + W)
  BY <1>3, <1>4, FiveOpen
<1> QED
  BY <1>1, <1>2, <1>5

(* The sums that follow.                                                   *)
LEMMA LeftBehind ==
  ASSUME tree \in Int, tree' \in Int,
         NativeHeld(native) \in Nat, NativeHeld(native') \in Nat,
         FramesHeld(vm) \in Nat, FramesHeld(vm') \in Nat,
         tree >= 1 + (NativeHeld(native) + FramesHeld(vm)),
         tree' - tree >= (NativeHeld(native') - NativeHeld(native))
                           + (FramesHeld(vm') - FramesHeld(vm))
  PROVE  tree' >= 1 + (NativeHeld(native') + FramesHeld(vm')) /\ tree' >= 0
OBVIOUS

LEMMA Balanced ==
  ASSUME tree \in Int, tree' \in Int,
         NativeHeld(native) \in Nat, NativeHeld(native') \in Nat,
         FramesHeld(vm) \in Nat, FramesHeld(vm') \in Nat,
         tree = 1 + (NativeHeld(native) + FramesHeld(vm)),
         tree' = tree + ((NativeHeld(native') - NativeHeld(native))
                           + (FramesHeld(vm') - FramesHeld(vm)))
  PROVE  tree' = 1 + (NativeHeld(native') + FramesHeld(vm'))
OBVIOUS

(* A step that changes treeStack_ as much as what is open, or leaves more  *)
(* behind while an exception is on its way.                                *)
LEMMA TreeKept ==
  ASSUME Shapes, Accumulators, mode # "idle",
         native' \in Seq(Activations), vm' \in Seq(VmFrames), tree' \in Int,
         WrapsFit(vm'),
         tree' - tree >= (NativeHeld(native') - NativeHeld(native))
                           + (FramesHeld(vm') - FramesHeld(vm)),
         mode' = "run" =>
           /\ mode = "run"
           /\ tree' - tree = (NativeHeld(native') - NativeHeld(native))
                               + (FramesHeld(vm') - FramesHeld(vm))
  PROVE  Accumulators'
<1>0. native \in Seq(Activations) /\ vm \in Seq(VmFrames) /\ tree \in Int
  BY DEF Shapes
<1>1. OpenAccumulators = NativeHeld(native) + FramesHeld(vm)
  BY <1>0, OpenMeans
<1>2. OpenAccumulators' = NativeHeld(native') + FramesHeld(vm')
  BY OpenMeansNext
<1>3. /\ tree >= 1 + OpenAccumulators
      /\ mode = "run" => tree = 1 + OpenAccumulators
  BY DEF Accumulators, TreeBalanced, Running
<1>4. /\ NativeHeld(native) \in Nat /\ NativeHeld(native') \in Nat
      /\ FramesHeld(vm) \in Nat /\ FramesHeld(vm') \in Nat
  BY <1>0, NativeHeldMeans, FramesFinite
<1>5. tree' >= 1 + OpenAccumulators' /\ tree' >= 0
  <2>1. tree >= 1 + (NativeHeld(native) + FramesHeld(vm))
    BY <1>1, <1>3
  <2>2. tree' >= 1 + (NativeHeld(native') + FramesHeld(vm')) /\ tree' >= 0
    BY <1>0, <1>4, <2>1, LeftBehind
  <2> QED
    BY <1>2, <2>2
<1>7. ASSUME mode' = "run" PROVE tree' = 1 + OpenAccumulators'
  <2>1. tree = 1 + (NativeHeld(native) + FramesHeld(vm))
    BY <1>1, <1>3, <1>7
  <2>2. tree' = 1 + (NativeHeld(native') + FramesHeld(vm'))
    BY <1>0, <1>4, <1>7, <2>1, Balanced
  <2> QED
    BY <1>2, <2>2
<1>6. \A k \in 1..Len(vm') : Len(vm'[k].wraps) <= MaxWraps
  BY DEF WrapsFit
<1> QED
  BY <1>5, <1>6, <1>7 DEF Accumulators, TreeBalanced, Running

(* A step of one of the two stacks alone.                                  *)
LEMMA NativeTree ==
  ASSUME Shapes, Accumulators, mode # "idle",
         native' \in Seq(Activations), vm' = vm, tree' \in Int,
         tree' - tree >= NativeHeld(native') - NativeHeld(native),
         mode' = "run" =>
           mode = "run" /\ tree' - tree = NativeHeld(native') - NativeHeld(native)
  PROVE  Accumulators'
<1>0. native \in Seq(Activations) /\ vm \in Seq(VmFrames) /\ tree \in Int
  BY DEF Shapes
<1>1. WrapsFit(vm')
  BY DEF WrapsFit, Accumulators
<1>2. /\ FramesHeld(vm) \in Nat /\ FramesHeld(vm') = FramesHeld(vm)
      /\ NativeHeld(native) \in Nat /\ NativeHeld(native') \in Nat
  BY <1>0, NativeHeldMeans, FramesFinite
<1>3. (NativeHeld(native') - NativeHeld(native)) + (FramesHeld(vm') - FramesHeld(vm))
        = NativeHeld(native') - NativeHeld(native)
  BY <1>2
<1> QED
  BY <1>0, <1>1, <1>3, TreeKept

LEMMA FramesTree ==
  ASSUME Shapes, Accumulators, mode # "idle",
         native' \in Seq(Activations), NativeHeld(native') = NativeHeld(native),
         vm' \in Seq(VmFrames), tree' \in Int, WrapsFit(vm'),
         tree' - tree >= FramesHeld(vm') - FramesHeld(vm),
         mode' = "run" =>
           mode = "run" /\ tree' - tree = FramesHeld(vm') - FramesHeld(vm)
  PROVE  Accumulators'
<1>0. native \in Seq(Activations) /\ vm \in Seq(VmFrames) /\ tree \in Int
  BY DEF Shapes
<1>2. /\ FramesHeld(vm) \in Nat /\ FramesHeld(vm') \in Nat
      /\ NativeHeld(native) \in Nat
  BY <1>0, NativeHeldMeans, FramesFinite
<1>3. (NativeHeld(native') - NativeHeld(native)) + (FramesHeld(vm') - FramesHeld(vm))
        = FramesHeld(vm') - FramesHeld(vm)
  BY <1>2
<1> QED
  BY <1>0, <1>3, TreeKept


(* The brackets of the innermost frame are among those that are open.      *)
LEMMA WrapsOfLast ==
  ASSUME vm \in Seq(VmFrames), vm # <<>>, Len(Last(vm).wraps) <= MaxWraps
  PROVE  /\ Len(Last(vm).wraps) \in Nat /\ WrapsOpen \in Nat
         /\ Len(Last(vm).wraps) <= WrapsOpen
<1> PICK n \in Nat : n = Len(vm)
  OBVIOUS
<1>1. n \in Nat \ {0} /\ Last(vm) = vm[n] /\ vm[n] \in VmFrames
  BY EmptySeq, ElementOfSeq DEF Last
<1> PICK c \in Nat : c = Len(vm[n].wraps)
  BY <1>1 DEF VmFrames
<1>2. n \in 1..n
  BY <1>1
<1>3. IsFiniteSet({n} \X (1..c)) /\ Cardinality({n} \X (1..c)) = c
  BY WrapColumn
<1>4. \A q \in 1..c : q \in 1..MaxWraps /\ q <= c
  BY <1>1, CallsAssumption
<1>5. {n} \X (1..c) \in SUBSET WrapsIn(vm)
  BY <1>2, <1>4 DEF WrapsIn
<1>6. /\ IsFiniteSet(WrapsIn(vm)) /\ Cardinality(WrapsIn(vm)) \in Nat
      /\ WrapsOpen = Cardinality(WrapsIn(vm))
  BY FramesFinite DEF WrapsOpen, WrapsIn
<1>7. Cardinality({n} \X (1..c)) <= Cardinality(WrapsIn(vm))
  BY <1>5, <1>6, FS_Subset
<1> QED
  BY <1>1, <1>3, <1>6, <1>7

(* Nothing is held by the pass alone, nor where there is no frame.         *)
LEMMA NothingHeld ==
  /\ NativeHeld(<<>>) = 0 /\ NativeHeld(<<Top>>) = 0
  /\ FramesHeld(<<>>) = 0
<1>0. Cardinality({}) = 0
  BY FS_EmptySet
<1>1. HoldersIn(<<>>) = {} /\ SplicesIn(<<>>) = {} /\ WrapsIn(<<>>) = {}
  <2>1. Len(<<>>) = 0
    OBVIOUS
  <2>2. 1..0 = {}
    OBVIOUS
  <2> QED
    BY <2>1, <2>2 DEF HoldersIn, SplicesIn, WrapsIn
<1>2. HoldersIn(<<Top>>) = {}
  <2>1. Len(<<Top>>) = 1 /\ <<Top>>[1] = Top
    OBVIOUS
  <2>2. \A i \in 1..1 : i = 1
    OBVIOUS
  <2>3. ~Holds(Top)
    BY DEF Holds, Top
  <2> QED
    BY <2>1, <2>2, <2>3 DEF HoldersIn
<1>3. NativeHeld(<<>>) = Cardinality({}) /\ NativeHeld(<<Top>>) = Cardinality({})
  BY <1>1, <1>2 DEF NativeHeld
<1>4. FramesHeld(<<>>) = Cardinality({}) + Cardinality({})
  BY <1>1 DEF FramesHeld
<1> QED
  BY <1>0, <1>3, <1>4

LEMMA HoldingNat ==
  ASSUME NEW a
  PROVE  Holding(a) \in Nat
BY DEF Holding

(* One more or one less on the stack of C++.                               *)
LEMMA TreePushed ==
  ASSUME Shapes, Accumulators, mode # "idle", NEW x \in Activations,
         native' \in Seq(Activations), tree' \in Int,
         native' = Append(native, x), vm' = vm, mode' = mode,
         tree' = tree + Holding(x)
  PROVE  Accumulators'
<1>0. native \in Seq(Activations) /\ tree \in Int
  BY DEF Shapes
<1>1. NativeHeld(native') = NativeHeld(native) + Holding(x)
  BY <1>0, NativeHeldAppend
<1>2. NativeHeld(native) \in Nat /\ Holding(x) \in Nat
  BY <1>0, NativeHeldMeans, HoldingNat
<1>3. /\ tree' - tree = NativeHeld(native') - NativeHeld(native)
      /\ tree' - tree >= NativeHeld(native') - NativeHeld(native)
  BY <1>0, <1>1, <1>2
<1> QED
  BY <1>3, NativeTree

LEMMA TreePopped ==
  ASSUME Shapes, Accumulators, mode # "idle", native # <<>>,
         native' \in Seq(Activations), tree' \in Int,
         native' = Front(native), vm' = vm, mode' = mode,
         \/ tree' = tree - Holding(Last(native))
         \/ mode # "run" /\ tree' = tree
  PROVE  Accumulators'
<1>0. native \in Seq(Activations) /\ tree \in Int
  BY DEF Shapes
<1>1. NativeHeld(native') = NativeHeld(native) - Holding(Last(native))
  BY <1>0, NativeHeldFront
<1>2. NativeHeld(native) \in Nat /\ Holding(Last(native)) \in Nat
  BY <1>0, NativeHeldMeans, HoldingNat
<1>3. tree' - tree >= NativeHeld(native') - NativeHeld(native)
  BY <1>0, <1>1, <1>2
<1>4. mode' = "run" =>
        mode = "run" /\ tree' - tree = NativeHeld(native') - NativeHeld(native)
  BY <1>0, <1>1, <1>2
<1> QED
  BY <1>3, <1>4, NativeTree

(* One more or one less on the stack of the VM.                            *)
LEMMA TreeFramePushed ==
  ASSUME Shapes, Accumulators, mode # "idle", NEW f \in VmFrames, f.wraps = <<>>,
         native' \in Seq(Activations), vm' \in Seq(VmFrames), tree' \in Int,
         NativeHeld(native') = NativeHeld(native),
         vm' = Append(vm, f), mode' = "run" => mode = "run",
         tree' = tree + FrameHolding(f)
  PROVE  Accumulators'
<1>0. native \in Seq(Activations) /\ vm \in Seq(VmFrames) /\ tree \in Int
  BY DEF Shapes
<1>t. MaxWraps \in Nat
  BY CallsAssumption
<1>1. Len(f.wraps) = 0 /\ Len(f.wraps) <= MaxWraps
  BY <1>t
<1>2. FramesHeld(vm') = FramesHeld(vm) + FrameHolding(f)
  BY <1>0, <1>1, FramesHeldAppend
<1>3. FramesHeld(vm) \in Nat /\ FrameHolding(f) \in Nat
  BY <1>0, FramesFinite, FrameHoldingNat
<1>4. /\ tree' - tree = FramesHeld(vm') - FramesHeld(vm)
      /\ tree' - tree >= FramesHeld(vm') - FramesHeld(vm)
  BY <1>0, <1>2, <1>3
<1>5. WrapsFit(vm')
  <2> PICK n \in Nat : n = Len(vm)
    BY <1>0
  <2>1. /\ Len(vm') = n + 1 /\ vm'[n + 1] = f
        /\ \A k \in 1..n : vm'[k] = vm[k]
    BY <1>0, AppendProperties
  <2>2. \A k \in 1..(n + 1) : k \in 1..n \/ k = n + 1
    OBVIOUS
  <2>3. \A k \in 1..n : Len(vm[k].wraps) <= MaxWraps
    BY DEF Accumulators
  <2> QED
    BY <1>1, <2>1, <2>2, <2>3 DEF WrapsFit
<1> QED
  BY <1>4, <1>5, FramesTree

LEMMA TreeFramePopped ==
  ASSUME Shapes, Accumulators, mode # "idle", vm # <<>>,
         native' \in Seq(Activations), vm' \in Seq(VmFrames), tree' \in Int,
         NativeHeld(native') = NativeHeld(native),
         vm' = Front(vm), mode' = mode,
         tree' = tree - FrameHolding(Last(vm))
  PROVE  Accumulators'
<1>0. native \in Seq(Activations) /\ vm \in Seq(VmFrames) /\ tree \in Int
  BY DEF Shapes
<1> PICK n \in Nat : n = Len(vm)
  BY <1>0
<1>1. n \in Nat \ {0} /\ Last(vm) = vm[n] /\ vm[n] \in VmFrames
  BY <1>0, EmptySeq, ElementOfSeq DEF Last
<1>2. \A k \in 1..n : Len(vm[k].wraps) <= MaxWraps
  BY DEF Accumulators
<1>3. Len(Last(vm).wraps) <= MaxWraps
  BY <1>1, <1>2
<1>4. FramesHeld(vm') = FramesHeld(vm) - FrameHolding(Last(vm))
  BY <1>0, <1>3, FramesHeldFront
<1>5. FramesHeld(vm) \in Nat /\ FrameHolding(Last(vm)) \in Nat
  BY <1>0, <1>1, FramesFinite, FrameHoldingNat
<1>6. /\ tree' - tree = FramesHeld(vm') - FramesHeld(vm)
      /\ tree' - tree >= FramesHeld(vm') - FramesHeld(vm)
  BY <1>0, <1>4, <1>5
<1>7. WrapsFit(vm')
  <2>1. Len(vm') = n - 1 /\ \A k \in 1..(n - 1) : vm'[k] = vm[k]
    BY <1>0, FrontFacts
  <2>2. \A k \in 1..(n - 1) : k \in 1..n
    OBVIOUS
  <2> QED
    BY <1>2, <2>1, <2>2 DEF WrapsFit
<1> QED
  BY <1>6, <1>7, FramesTree

(* The innermost frame changes, and with it the brackets it has open.      *)
LEMMA TreeFrameChanged ==
  ASSUME Shapes, Accumulators, mode # "idle", vm # <<>>, NEW f \in VmFrames,
         FrameOK(f), Len(f.wraps) <= MaxWraps,
         native' = native, vm' \in Seq(VmFrames), tree' \in Int,
         vm' = SetLast(vm, f), mode' = mode,
         tree' = tree - FrameHolding(Last(vm)) + FrameHolding(f)
  PROVE  Accumulators'
<1>0. native \in Seq(Activations) /\ vm \in Seq(VmFrames) /\ tree \in Int
  BY DEF Shapes
<1> PICK n \in Nat : n = Len(vm)
  BY <1>0
<1>1. n \in Nat \ {0} /\ Last(vm) = vm[n] /\ vm[n] \in VmFrames
  BY <1>0, EmptySeq, ElementOfSeq DEF Last
<1>2. \A k \in 1..n : Len(vm[k].wraps) <= MaxWraps
  BY DEF Accumulators
<1>3. Len(Last(vm).wraps) <= MaxWraps
  BY <1>1, <1>2
<1>4. FramesHeld(vm') = FramesHeld(vm) - FrameHolding(Last(vm)) + FrameHolding(f)
  BY <1>0, <1>3, FramesHeldSetLast
<1>5. FramesHeld(vm) \in Nat /\ FrameHolding(Last(vm)) \in Nat /\ FrameHolding(f) \in Nat
  BY <1>0, <1>1, FramesFinite, FrameHoldingNat
<1>6. /\ tree' - tree = FramesHeld(vm') - FramesHeld(vm)
      /\ tree' - tree >= FramesHeld(vm') - FramesHeld(vm)
  BY <1>0, <1>4, <1>5
<1>7. WrapsFit(vm')
  <2>1. /\ Len(vm') = n /\ vm'[n] = f
        /\ \A k \in 1..(n - 1) : vm'[k] = vm[k]
    BY ChangedVm
  <2>2. \A k \in 1..n : k \in 1..(n - 1) \/ k = n
    OBVIOUS
  <2> QED
    BY <1>2, <2>1, <2>2 DEF WrapsFit
<1> QED
  BY <1>0, <1>6, <1>7, FramesTree


(* A driver holds nothing.                                                 *)
LEMMA DriverHoldsNothing ==
  ASSUME NEW s \in Seq(Activations)
  PROVE  /\ \A n \in Nat : NativeHeld(Append(s, Drive(n))) = NativeHeld(s)
         /\ s # <<>> /\ Last(s).type = "drive" =>
              NativeHeld(Front(s)) = NativeHeld(s)
<1>1. NativeHeld(s) \in Nat
  BY NativeHeldMeans
<1>2. ASSUME NEW n \in Nat PROVE NativeHeld(Append(s, Drive(n))) = NativeHeld(s)
  <2>1. Drive(n) \in Activations
    BY ActivationTypes
  <2>2. Holding(Drive(n)) = 0
    BY DEF Holding, Holds, Drive
  <2>3. NativeHeld(Append(s, Drive(n))) = NativeHeld(s) + Holding(Drive(n))
    BY <2>1, NativeHeldAppend
  <2> QED
    BY <1>1, <2>2, <2>3
<1>3. ASSUME s # <<>>, Last(s).type = "drive" PROVE NativeHeld(Front(s)) = NativeHeld(s)
  <2>1. Holding(Last(s)) = 0
    BY <1>3 DEF Holding, Holds
  <2>2. NativeHeld(Front(s)) = NativeHeld(s) - Holding(Last(s))
    BY <1>3, NativeHeldFront
  <2> QED
    BY <1>1, <2>1, <2>2
<1> QED
  BY <1>2, <1>3

(* One more bracket, one less.                                             *)
LEMMA WrapsChanged ==
  ASSUME NEW f \in VmFrames, NEW w \in Seq(BOOLEAN)
  PROVE  /\ OwnsModuleSplice([f EXCEPT !.wraps = w]) <=> OwnsModuleSplice(f)
         /\ [f EXCEPT !.wraps = w].wraps = w
<1>1. f.type = [f EXCEPT !.wraps = w].type /\ [f EXCEPT !.wraps = w].wraps = w
  BY DEF VmFrames
<1> QED
  BY <1>1 DEF OwnsModuleSplice

LEMMA OneMoved ==
  ASSUME NEW p, NEW q, NEW o \in Int, NEW c \in Int, NEW b \in Int,
         p = o + c, q = o + (c + b)
  PROVE  q = p + b
OBVIOUS

LEMMA WrapHolding ==
  ASSUME NEW f \in VmFrames, NEW g \in VmFrames, NEW b \in Int,
         OwnsModuleSplice(g) <=> OwnsModuleSplice(f),
         Len(g.wraps) = Len(f.wraps) + b
  PROVE  FrameHolding(g) = FrameHolding(f) + b
<1> PICK c \in Nat : c = Len(f.wraps)
  BY DEF VmFrames
<1>1. CASE OwnsModuleSplice(f)
  <2>1. FrameHolding(f) = 1 + c /\ FrameHolding(g) = 1 + (c + b)
    BY <1>1 DEF FrameHolding
  <2> QED
    BY <2>1, OneMoved
<1>2. CASE ~OwnsModuleSplice(f)
  <2>1. FrameHolding(f) = 0 + c /\ FrameHolding(g) = 0 + (c + b)
    BY <1>2 DEF FrameHolding
  <2> QED
    BY <2>1, OneMoved
<1> QED
  BY <1>1, <1>2

LEMMA SumMoved ==
  ASSUME NEW t \in Int, NEW p \in Int, NEW q \in Int, NEW b \in Int, q = p + b
  PROVE  t - p + q = t + b
OBVIOUS

LEMMA AccumulatorsKept ==
  ASSUME Shapes, Shapes', DrivesNested, Counted, Accumulators, Step
  PROVE  Accumulators'
<1>0. /\ native # <<>> <=> mode # "idle"
      /\ Running => native # <<>> /\ mode # "idle"
      /\ native \in Seq(Activations) /\ vm \in Seq(VmFrames) /\ tree \in Int
      /\ native' \in Seq(Activations) /\ vm' \in Seq(VmFrames) /\ tree' \in Int
  BY DEF Shapes, Running
<1>w. \A k \in 1..Len(vm) : Len(vm[k].wraps) <= MaxWraps
  BY DEF Accumulators
<1>l. ASSUME vm # <<>> PROVE Last(vm) \in VmFrames /\ Len(Last(vm).wraps) <= MaxWraps
  <2> PICK n \in Nat : n = Len(vm)
    BY <1>0
  <2>1. n \in 1..n /\ Last(vm) = vm[n] /\ vm[n] \in VmFrames
    BY <1>0, <1>l, EmptySeq, ElementOfSeq DEF Last
  <2> QED
    BY <1>w, <2>1
<1>1. CASE Evaluate
  <2>1. native' = <<Top>> /\ mode' = "run" /\ tree' = 1 /\ vm' = <<>>
    BY <1>0, <1>1, NothingOutside DEF Evaluate
  <2>2. OpenAccumulators' = NativeHeld(native') + FramesHeld(vm')
    BY <1>0, OpenMeansNext
  <2>3. OpenAccumulators' = 0
    BY <2>1, <2>2, NothingHeld
  <2>4. Len(vm') = 0 /\ 1..0 = {}
    BY <2>1
  <2>5. tree' >= 0
    BY <2>1
  <2> QED
    BY <2>1, <2>3, <2>4, <2>5 DEF Accumulators, TreeBalanced, Running
<1>2. CASE PassLeft
  <2>1. mode # "idle" /\ mode' = "idle" /\ vm' = vm /\ tree' \in {tree, tree - 1}
    BY <1>2 DEF PassLeft
  <2>2. mode' # "run"
    BY <2>1
  <2>3. tree' >= 0
    <3>1. OpenAccumulators = NativeHeld(native) + FramesHeld(vm)
      BY <1>0, OpenMeans
    <3>2. NativeHeld(native) \in Nat /\ FramesHeld(vm) \in Nat
      BY <1>0, NativeHeldMeans, FramesFinite
    <3>3. OpenAccumulators \in Nat
      BY <3>1, <3>2
    <3>4. tree >= 1 + OpenAccumulators
      BY <2>1 DEF Accumulators
    <3>5. tree >= 1
      BY <1>0, <3>3, <3>4
    <3> QED
      BY <1>0, <2>1, <3>5
  <2> QED
    BY <1>w, <2>1, <2>2, <2>3 DEF Accumulators, TreeBalanced, Running
<1>3. CASE Refused
  <2>1. /\ mode' = "throw" /\ tree' \in {tree, tree + 1} /\ native' = native /\ vm' = vm
        /\ mode # "idle"
    BY <1>0, <1>3 DEF Refused
  <2>2. NativeHeld(native) \in Nat
    BY <1>0, NativeHeldMeans
  <2>3. tree' - tree >= NativeHeld(native') - NativeHeld(native)
    BY <1>0, <2>1, <2>2
  <2> QED
    BY <1>0, <2>1, <2>3, NativeTree
<1>3a. ASSUME NEW d \in Decl, NEW skip \in BOOLEAN, EntryStopped(d, skip)
       PROVE  Accumulators'
  <2>1. /\ mode' = "throw" /\ tree' = tree /\ native' = native /\ vm' = vm
        /\ mode # "idle"
    BY <1>0, <1>3a DEF EntryStopped, StopAtEntry
  <2>2. NativeHeld(native) \in Nat
    BY <1>0, NativeHeldMeans
  <2>3. tree' - tree >= NativeHeld(native') - NativeHeld(native)
    BY <1>0, <2>1, <2>2
  <2> QED
    BY <1>0, <2>1, <2>3, NativeTree
<1>4. ASSUME NEW d \in Decl, NEW catches \in BOOLEAN, NativeEntered(d, catches)
      PROVE  Accumulators'
  <2>1. Call(d, catches) \in Activations
    BY ActivationTypes
  <2>2. Holding(Call(d, catches)) = IF d \in Modules THEN 1 ELSE 0
    BY DEF Holding, Holds, Call, Handle
  <2>3. /\ mode # "idle" /\ mode' = mode /\ vm' = vm
        /\ native' = Append(native, Call(d, catches))
        /\ tree' = tree + Holding(Call(d, catches))
    BY <1>0, <1>4, <2>2 DEF NativeEntered
  <2> QED
    BY <1>0, <2>1, <2>3, TreePushed
<1>5. ASSUME NEW d \in Decl, NativeHopped(d) PROVE Accumulators'
  <2> DEFINE h == [Last(native) EXCEPT !.decl = d, !.hops = @ + 1]
  <2>1. /\ native # <<>> /\ Last(native).type = "call"
        /\ h \in Activations /\ h.type = "call"
        /\ native' = SetLast(native, h)
    BY <1>5, NativeHop
  <2>2. Last(native) \in Activations
    BY <1>0, <2>1, LastApart
  <2>3. h.handle = Last(native).handle
    BY <2>1, <2>2, ActivationKinds DEF CallRecords
  <2> HIDE DEF h
  <2>4. Holds(h) <=> Holds(Last(native))
    BY <2>1, <2>3 DEF Holds
  <2>5. NativeHeld(native') = NativeHeld(native)
    BY <1>0, <2>1, <2>4, NativeHeldSetLast
  <2>6. tree' = tree /\ vm' = vm /\ mode' = mode
    BY <1>5 DEF NativeHopped
  <2>7. NativeHeld(native) \in Nat
    BY <1>0, NativeHeldMeans
  <2>8. /\ tree' - tree = NativeHeld(native') - NativeHeld(native)
        /\ tree' - tree >= NativeHeld(native') - NativeHeld(native)
    BY <1>0, <2>5, <2>6, <2>7
  <2> QED
    BY <1>0, <2>1, <2>6, <2>8, NativeTree
<1>6. ASSUME Running, NEW f \in VmFrames, f.wraps = <<>>, ~OwnsModuleSplice(f),
             NEW below \in Seq(Activations), NativeHeld(below) = NativeHeld(native),
             DriveVm(below, f)
      PROVE  Accumulators'
  <2>1. /\ vm' = Append(vm, f) /\ native' = Append(below, Drive(Len(vm)))
        /\ tree' = tree
    BY <1>6 DEF DriveVm
  <2>2. Len(vm) \in Nat
    BY <1>0
  <2>3. NativeHeld(native') = NativeHeld(native)
    BY <1>6, <2>1, <2>2, DriverHoldsNothing
  <2>4. FrameHolding(f) = 0
    <3>1. Len(f.wraps) = 0
      BY <1>6
    <3> QED
      BY <1>6, <3>1 DEF FrameHolding
  <2>5. tree' = tree + FrameHolding(f)
    BY <1>0, <2>1, <2>4
  <2>6. mode # "idle" /\ mode = "run"
    BY <1>6 DEF Running
  <2> QED
    BY <1>0, <1>6, <2>1, <2>3, <2>5, <2>6, TreeFramePushed
<1>7. CASE RunCompiledBody
  <2> DEFINE s == [Last(native) EXCEPT !.started = TRUE]
             f == VmFrame(IF Last(native).decl \in Functions THEN "entry" ELSE "body",
                          Last(native).decl, NoHandle)
  <2>1. /\ Running /\ Last(native).type = "call"
        /\ s \in Activations /\ s.type = "call"
        /\ f \in VmFrames /\ FrameOK(f) /\ DriveVm(SetLast(native, s), f)
    BY <1>7, BodyStarted
  <2>2. f.wraps = <<>> /\ ~OwnsModuleSplice(f)
    BY DEF VmFrame, OwnsModuleSplice
  <2> HIDE DEF f
  <2>3. native # <<>> /\ Last(native) \in Activations
    BY <1>0, <2>1, LastApart
  <2>4. s.handle = Last(native).handle
    BY <2>1, <2>3, ActivationKinds DEF CallRecords
  <2> HIDE DEF s
  <2>5. Holds(s) <=> Holds(Last(native))
    BY <2>1, <2>4 DEF Holds
  <2>6. NativeHeld(SetLast(native, s)) = NativeHeld(native)
    BY <1>0, <2>1, <2>3, <2>5, NativeHeldSetLast
  <2>7. SetLast(native, s) \in Seq(Activations)
    <3>1. Front(native) \in Seq(Activations) /\ SetLast(native, s) = Append(Front(native), s)
      BY <1>0, <2>1, <2>3, LastApart
    <3> QED
      BY <2>1, <3>1, AppendProperties
  <2> QED
    BY <1>6, <2>1, <2>2, <2>6, <2>7
<1>8. CASE ChunkStarted
  <2>1. PICK type \in {"bare", "body"} :
             DriveVm(native, VmFrame(type, NoDecl, NoHandle))
    BY <1>8 DEF ChunkStarted
  <2> DEFINE f == VmFrame(type, NoDecl, NoHandle)
  <2>2. /\ f \in VmFrames /\ DriveVm(native, f) /\ Running
        /\ f.wraps = <<>> /\ ~OwnsModuleSplice(f)
    BY <1>8, <2>1, FrameTypes, FrameKinds DEF ChunkStarted, VmFrame, OwnsModuleSplice
  <2> HIDE DEF f
  <2> QED
    BY <1>0, <1>6, <2>2
<1>9. ASSUME OpenBlock \/ OpenMeasure PROVE Accumulators'
  <2>1. PICK x \in {Block, Measure(measuring)} :
             /\ native' = Append(native, x) /\ tree' = tree + 1
             /\ vm' = vm /\ mode' = mode
    <3>1. \/ native' = Append(native, Block)
          \/ native' = Append(native, Measure(measuring))
      BY <1>9 DEF OpenBlock, OpenMeasure
    <3>2. tree' = tree + 1 /\ vm' = vm /\ mode' = mode
      BY <1>9 DEF OpenBlock, OpenMeasure
    <3> QED
      BY <3>1, <3>2
  <2>2. mode # "idle"
    BY <1>0, <1>9 DEF OpenBlock, OpenMeasure, WalksStatements, InWalker,
                      VmStatements, InVm
  <2>3. measuring \in BOOLEAN
    BY DEF Shapes
  <2>4. x \in Activations /\ Holding(x) = 1
    BY <2>3, ActivationTypes DEF Holding, Holds, Block, Measure
  <2> QED
    BY <1>0, <2>1, <2>2, <2>4, TreePushed
<1>10. ASSUME NEW f \in VmFrames, f.wraps = <<>>, vm' = Append(vm, f), Running,
              UNCHANGED <<native, mode>>,
              tree' = tree + (IF OwnsModuleSplice(f) THEN 1 ELSE 0)
       PROVE  Accumulators'
  <2>1. FrameHolding(f) = IF OwnsModuleSplice(f) THEN 1 ELSE 0
    <3>1. Len(f.wraps) = 0
      BY <1>10
    <3> QED
      BY <3>1 DEF FrameHolding
  <2>2. tree' = tree + FrameHolding(f)
    BY <1>10, <2>1
  <2>3. NativeHeld(native') = NativeHeld(native)
    BY <1>10
  <2> QED
    BY <1>0, <1>10, <2>2, <2>3, TreeFramePushed
<1>11. ASSUME NEW d \in Decl, NEW type \in {"function", "module"}, FrameEntered(d, type)
       PROVE  Accumulators'
  <2> DEFINE f == VmFrame(type, d, Handle(d, FALSE))
  <2>1. f \in VmFrames /\ f.wraps = <<>> /\ f.type = type
    BY <1>11, FrameTypes DEF FrameEntered, VmFrame
  <2>2. vm' = Append(vm, f) /\ Running /\ native' = native /\ mode' = mode
    BY <1>11 DEF FrameEntered, InVm
  <2> HIDE DEF f
  <2>3. tree' = tree + (IF OwnsModuleSplice(f) THEN 1 ELSE 0)
    <3>1. CASE type = "function"
      <4>1. tree' = tree /\ ~OwnsModuleSplice(f)
        BY <1>11, <2>1, <3>1 DEF FrameEntered, OwnsModuleSplice
      <4> QED
        BY <1>0, <4>1
    <3>2. CASE type = "module"
      <4>1. tree' = tree + 1 /\ OwnsModuleSplice(f)
        BY <1>11, <2>1, <3>2 DEF FrameEntered, OwnsModuleSplice
      <4> QED
        BY <1>0, <4>1
    <3> QED
      BY <3>1, <3>2
  <2> QED
    BY <1>10, <2>1, <2>2, <2>3
<1>12. CASE ChildrenEntered
  <2> DEFINE f == VmFrame("children", NoDecl, NoHandle)
  <2>1. f \in VmFrames /\ f.wraps = <<>> /\ OwnsModuleSplice(f)
    BY FrameTypes DEF VmFrame, OwnsModuleSplice
  <2>2. vm' = Append(vm, f) /\ Running /\ native' = native /\ mode' = mode
        /\ tree' = tree + 1
    BY <1>12 DEF ChildrenEntered, InVm
  <2> HIDE DEF f
  <2> QED
    BY <1>10, <2>1, <2>2
<1>13. ASSUME NEW f \in VmFrames, FrameOK(f), Len(f.wraps) <= MaxWraps, vm # <<>>,
              vm' = SetLast(vm, f), Running, UNCHANGED <<native, mode>>,
              tree' = tree - FrameHolding(Last(vm)) + FrameHolding(f)
       PROVE  Accumulators'
  BY <1>0, <1>13, TreeFrameChanged
<1>14. ASSUME NEW d \in Decl, FrameHopped(d) PROVE Accumulators'
  <2> DEFINE g == [Last(vm) EXCEPT !.decl = d, !.hops = @ + 1]
  <2>1. /\ vm' = SetLast(vm, g) /\ native' = native /\ mode' = mode /\ tree' = tree
        /\ Running
    BY <1>14 DEF FrameHopped, InVm
  <2>2. vm # <<>> /\ g \in VmFrames /\ FrameOK(g) /\ g.wraps = Last(vm).wraps
    BY <1>14, FrameHop
  <2>3. Last(vm) \in VmFrames /\ Len(Last(vm).wraps) <= MaxWraps
    BY <1>l, <2>2
  <2>4. g.type = Last(vm).type
    BY <2>3 DEF VmFrames
  <2> HIDE DEF g
  <2>5. FrameHolding(g) = FrameHolding(Last(vm)) /\ FrameHolding(g) \in Nat
    BY <2>2, <2>4, FrameHoldingNat DEF FrameHolding, OwnsModuleSplice
  <2>6. tree' = tree - FrameHolding(Last(vm)) + FrameHolding(g)
    BY <1>0, <2>1, <2>5
  <2> QED
    BY <1>13, <2>1, <2>2, <2>3, <2>6
<1>15. ASSUME NEW measures \in BOOLEAN, PushWrap(measures) PROVE Accumulators'
  <2> DEFINE w == Append(Last(vm).wraps, measuring)
             g == [Last(vm) EXCEPT !.wraps = w]
  <2>1. vm # <<>> /\ w \in Seq(BOOLEAN) /\ vm' = SetLast(vm, g)
    BY <1>15, WrapPushed
  <2>2. Running /\ native' = native /\ mode' = mode /\ tree' = tree + 1
        /\ WrapsOpen < MaxWraps
    BY <1>15 DEF PushWrap, InVm
  <2>3. Last(vm) \in VmFrames /\ Len(Last(vm).wraps) <= MaxWraps
    BY <1>l, <2>1
  <2>4. Len(w) = Len(Last(vm).wraps) + 1 /\ Len(Last(vm).wraps) \in Nat
    BY <2>3, AppendProperties DEF VmFrames, Shapes
  <2> HIDE DEF w
  <2>5. g \in VmFrames /\ FrameOK(g)
    BY <2>1, Rewrapped
  <2>6. (OwnsModuleSplice(g) <=> OwnsModuleSplice(Last(vm))) /\ g.wraps = w
    BY <2>1, <2>3, WrapsChanged
  <2> HIDE DEF g
  <2>7. Len(g.wraps) <= MaxWraps
    <3>1. Len(Last(vm).wraps) <= WrapsOpen /\ WrapsOpen \in Nat
      BY <1>0, <2>1, <2>3, WrapsOfLast
    <3>2. MaxWraps \in Nat
      BY CallsAssumption
    <3> QED
      BY <2>2, <2>4, <2>6, <3>1, <3>2
  <2>8. tree - FrameHolding(Last(vm)) + FrameHolding(g) = tree + 1
    <3>1. FrameHolding(g) = FrameHolding(Last(vm)) + 1
      BY <2>3, <2>4, <2>5, <2>6, WrapHolding
    <3> QED
      BY <1>0, <2>3, <2>5, <3>1, FrameHoldingNat, SumMoved
  <2> QED
    BY <1>13, <2>1, <2>2, <2>5, <2>7, <2>8
<1>16. CASE PopWrap
  <2> DEFINE w == Front(Last(vm).wraps)
             g == [Last(vm) EXCEPT !.wraps = w]
  <2>1. vm # <<>> /\ w \in Seq(BOOLEAN) /\ vm' = SetLast(vm, g)
    BY <1>16, WrapPopped
  <2>2. Running /\ native' = native /\ mode' = mode /\ tree' = tree - 1
        /\ Last(vm).wraps # <<>>
    BY <1>16 DEF PopWrap, InVm
  <2>3. Last(vm) \in VmFrames /\ Len(Last(vm).wraps) <= MaxWraps
    BY <1>l, <2>1
  <2>4. Last(vm).wraps \in Seq(BOOLEAN)
    BY <2>3 DEF VmFrames
  <2>5. Len(w) = Len(Last(vm).wraps) - 1 /\ Len(Last(vm).wraps) \in Nat
    BY <2>2, <2>4, FrontFacts
  <2> HIDE DEF w
  <2>6. g \in VmFrames /\ FrameOK(g)
    BY <2>1, Rewrapped
  <2>7. (OwnsModuleSplice(g) <=> OwnsModuleSplice(Last(vm))) /\ g.wraps = w
    BY <2>1, <2>3, WrapsChanged
  <2> HIDE DEF g
  <2>8. Len(g.wraps) <= MaxWraps
    <3>1. MaxWraps \in Nat
      BY CallsAssumption
    <3> QED
      BY <2>3, <2>5, <2>7, <3>1
  <2>9. tree - FrameHolding(Last(vm)) + FrameHolding(g) = tree - 1
    <3>1. Len(g.wraps) = Len(Last(vm).wraps) + (-1)
      BY <2>5, <2>7
    <3>2. FrameHolding(g) = FrameHolding(Last(vm)) + (-1)
      BY <2>3, <2>6, <2>7, <3>1, WrapHolding
    <3> QED
      BY <1>0, <2>3, <2>6, <3>2, FrameHoldingNat, SumMoved
  <2> QED
    BY <1>13, <2>1, <2>2, <2>6, <2>8, <2>9
<1>17. CASE BlockClosed
  <2>1. /\ mode # "idle" /\ native # <<>> /\ Last(native).type \in {"block", "measure"}
        /\ native' = Front(native) /\ tree' = tree - 1 /\ vm' = vm /\ mode' = mode
    BY <1>0, <1>17 DEF BlockClosed
  <2>2. Holding(Last(native)) = 1
    BY <2>1 DEF Holding, Holds
  <2>3. tree' = tree - Holding(Last(native))
    BY <2>1, <2>2
  <2> QED
    BY <1>0, <2>1, <2>3, TreePopped
<1>18. CASE CallLeft
  <2>1. /\ mode # "idle" /\ native # <<>> /\ Last(native).type = "call"
        /\ native' = Front(native) /\ vm' = vm /\ mode' = mode
        /\ tree' = tree - (IF /\ Last(native).handle.decl \in Modules
                              /\ Running \/ Last(native).catches
                           THEN 1 ELSE 0)
    BY <1>0, <1>18 DEF CallLeft
  <2>2. Holding(Last(native)) = IF Last(native).handle.decl \in Modules THEN 1 ELSE 0
    BY <2>1 DEF Holding, Holds
  <2>3. CASE Running \/ Last(native).catches
    <3>1. tree' = tree - Holding(Last(native))
      BY <2>1, <2>2, <2>3
    <3> QED
      BY <1>0, <2>1, <3>1, TreePopped
  <2>4. CASE ~(Running \/ Last(native).catches)
    <3>1. tree' = tree /\ mode # "run"
      BY <1>0, <2>1, <2>4 DEF Running
    <3> QED
      BY <1>0, <2>1, <3>1, TreePopped
  <2> QED
    BY <2>3, <2>4
<1>19. CASE UnwindDrive
  <2>1. /\ mode # "idle" /\ native # <<>> /\ Last(native).type = "drive"
        /\ native' = Front(native) /\ vm' = vm /\ mode' = mode /\ tree' = tree
    BY <1>0, <1>19 DEF UnwindDrive, Throwing
  <2>2. Holding(Last(native)) = 0
    BY <2>1 DEF Holding, Holds
  <2>3. tree' = tree - Holding(Last(native))
    BY <1>0, <2>1, <2>2
  <2> QED
    BY <1>0, <2>1, <2>3, TreePopped
<1>20. CASE VmReturn
  <2>1. /\ native # <<>> /\ Last(native).type = "drive" /\ Running /\ mode # "idle"
        /\ vm' = Front(vm) /\ mode' = mode /\ Last(vm).wraps = <<>>
        /\ tree' = tree - (IF OwnsModuleSplice(Last(vm)) THEN 1 ELSE 0)
        /\ native' = native \/ native' = Front(native)
    BY <1>0, <1>20 DEF VmReturn, InVm
  <2>2. vm # <<>>
    BY <2>1, DriverHasFrame
  <2>3. NativeHeld(native') = NativeHeld(native)
    BY <1>0, <2>1, DriverHoldsNothing
  <2>4. FrameHolding(Last(vm)) = IF OwnsModuleSplice(Last(vm)) THEN 1 ELSE 0
    <3>1. Len(Last(vm).wraps) = 0
      BY <2>1
    <3> QED
      BY <3>1 DEF FrameHolding
  <2>5. tree' = tree - FrameHolding(Last(vm))
    BY <2>1, <2>4
  <2> QED
    BY <1>0, <2>1, <2>2, <2>3, <2>5, TreeFramePopped
<1>21. CASE UnwindFrame
  <2>1. /\ native # <<>> /\ Last(native).type = "drive" /\ Len(vm) > Last(native).floor
        /\ vm' = Front(vm) /\ native' = native /\ mode' = mode /\ mode # "idle"
        /\ tree' = tree - Len(Last(vm).wraps)
                     - (IF OwnsModuleSplice(Last(vm)) THEN 1 ELSE 0)
    BY <1>0, <1>21 DEF UnwindFrame, Throwing
  <2>2. vm # <<>> /\ Last(vm) \in VmFrames
    BY <2>1, DriverHasFrame
  <2>3. NativeHeld(native') = NativeHeld(native)
    BY <2>1
  <2>4. tree' = tree - FrameHolding(Last(vm))
    <3> PICK c \in Nat : c = Len(Last(vm).wraps)
      BY <2>2 DEF VmFrames
    <3>1. CASE OwnsModuleSplice(Last(vm))
      <4>1. tree' = tree - c - 1 /\ FrameHolding(Last(vm)) = 1 + c
        BY <2>1, <3>1 DEF FrameHolding
      <4> QED
        BY <1>0, <4>1
    <3>2. CASE ~OwnsModuleSplice(Last(vm))
      <4>1. tree' = tree - c - 0 /\ FrameHolding(Last(vm)) = 0 + c
        BY <2>1, <3>2 DEF FrameHolding
      <4> QED
        BY <1>0, <4>1
    <3> QED
      BY <3>1, <3>2
  <2> QED
    BY <1>0, <2>1, <2>2, <2>3, <2>4, TreeFramePopped
<1>22. CASE UNCHANGED vars
  <2>1. UNCHANGED <<native, vm, tree, mode>>
    BY <1>22 DEF vars
  <2>2. OpenAccumulators' = OpenAccumulators
    BY <2>1 DEF OpenAccumulators, NativeOf, WrapsOpen
  <2> QED
    BY <2>1, <2>2 DEF Accumulators, TreeBalanced, Running
<1> QED
  BY <1>1, <1>2, <1>3, <1>3a, <1>4, <1>5, <1>7, <1>8, <1>9, <1>11, <1>12, <1>14, <1>15,
     <1>16, <1>17, <1>18, <1>19, <1>20, <1>21, <1>22 DEF Step


-----------------------------------------------------------------------------
(* The invariant, and what follows from it.                                *)

LEMMA InitHolds == Init => IInv
<1> SUFFICES ASSUME Init PROVE IInv
  OBVIOUS
<1>1. /\ callStack = <<>> /\ vm = <<>> /\ native = <<>> /\ mode = "idle"
      /\ active = [d \in Decl |-> 0]
      /\ moduleDepth = 0 /\ nativeDepth = 0 /\ driveDepth = 0 /\ tree = 0
      /\ measuring = FALSE /\ crossed = FALSE /\ abandoned = <<>>
  BY DEF Init
<1>2. Len(<<>>) = 0 /\ 1..0 = {} /\ 2..0 = {}
  OBVIOUS
<1>3. /\ \A t : NativeOf(t) = {}
      /\ Brackets = {} /\ ModulesOnStack = {} /\ \A d : Occurrences(d) = {}
  BY <1>1, <1>2 DEF NativeOf, Brackets, ModulesOnStack, Occurrences
<1>4. Cardinality({}) = 0
  BY FS_EmptySet
<1>5. Shapes
  <2>1. callStack \in Seq(Decl) /\ vm \in Seq(VmFrames) /\ native \in Seq(Activations)
    BY <1>1
  <2>2. active \in [Decl -> Nat]
    BY <1>1
  <2>3. {moduleDepth, nativeDepth, driveDepth, tree} \subseteq Int
    BY <1>1
  <2>4. \A k \in 1..Len(vm) : FrameOK(vm[k])
    BY <1>1, <1>2
  <2>5. \A i \in 2..Len(native) : native[i].type # "top"
    BY <1>1, <1>2
  <2>6. abandoned \in Seq([decl : Functions, counted : BOOLEAN])
    BY <1>1
  <2> QED
    BY <1>1, <2>1, <2>2, <2>3, <2>4, <2>5, <2>6 DEF Shapes
<1>6. DrivesNested
  BY <1>1, <1>2, <1>3 DEF DrivesNested, Drives
<1>7. CallsPlaced
  <2> DEFINE none == [i \in {} |-> 0]
  <2>1. /\ none \in [NativeOf("call") -> 1..Len(callStack)]
        /\ none \in [Brackets -> 1..Len(callStack)]
    BY <1>3
  <2>2. InCallOrder(none, none) /\ NamesRunning(none, none)
    BY <1>1, <1>2, <1>3 DEF InCallOrder, NamesRunning
  <2> QED
    BY <2>1, <2>2 DEF CallsPlaced, Placed
<1>8. Counted
  <2>1. Len(callStack) = Cardinality(NativeOf("call")) + Cardinality(Brackets)
                           + Len(abandoned)
    <3>1. /\ Len(callStack) = 0 /\ Cardinality(NativeOf("call")) = 0
          /\ Cardinality(Brackets) = 0 /\ Len(abandoned) = 0
      BY <1>1, <1>2, <1>3, <1>4
    <3> QED
      BY <3>1
  <2>2. ASSUME NEW D PROVE Entered(D) = 0
    <3>1. /\ {i \in NativeOf("call") : native[i].handle.decl \in D} = {}
          /\ {k \in Brackets : vm[k].handle.decl \in D} = {}
      BY <1>3
    <3>2. {a \in 1..Len(abandoned) : abandoned[a].decl \in D} = {}
      BY <1>1, <1>2
    <3>3. Entered(D) = Cardinality({}) + Cardinality({}) + Cardinality({})
      BY <3>1, <3>2 DEF Entered
    <3> QED
      BY <1>4, <3>3
  <2>3. CountersExact
    <3>1. CountedAbandoned = {}
      BY <1>1, <1>2 DEF CountedAbandoned
    <3>2. Entered(Modules) = 0 /\ Cardinality(ModulesOnStack) = 0
      BY <1>3, <1>4, <2>2
    <3>3. /\ Cardinality(NativeOf("call")) = 0 /\ Cardinality(NativeOf("drive")) = 0
          /\ Cardinality(CountedAbandoned) = 0
      BY <1>3, <1>4, <3>1
    <3> QED
      BY <1>1, <3>2, <3>3 DEF CountersExact
  <2>4. ActiveDeclsExact
    BY <1>1, <1>3, <1>4, <2>2 DEF ActiveDeclsExact
  <2> QED
    BY <2>1, <2>3, <2>4 DEF Counted
<1>9. WithinLimits
  <2>1. /\ 0 <= MaxUserCallDepth /\ 0 <= MaxModuleCallDepth
        /\ 0 <= MaxDriveVmNativeDepth + 1 /\ 0 <= MaxVmCallStackDepth + 0
    BY LimitTypes
  <2>2. ~Running
    BY <1>1 DEF Running
  <2> QED
    BY <1>1, <1>2, <1>3, <2>1, <2>2 DEF WithinLimits, Drives
<1>10. SavedModes /\ MeasuringScoped
  BY <1>1, <1>2, <1>3 DEF SavedModes, MeasuringScoped
<1>11. Accumulators
  <2>1. tree >= 0 /\ ~Running
    BY <1>1 DEF Running
  <2> QED
    BY <1>1, <1>2, <2>1 DEF Accumulators, TreeBalanced
<1> QED
  BY <1>5, <1>6, <1>7, <1>8, <1>9, <1>10, <1>11 DEF IInv

LEMMA StepHolds == IInv /\ [Next]_vars => IInv'
<1> SUFFICES ASSUME IInv, [Next]_vars PROVE IInv'
  OBVIOUS
<1>1. /\ Shapes /\ DrivesNested /\ CallsPlaced /\ Counted /\ WithinLimits
      /\ SavedModes /\ MeasuringScoped /\ Accumulators
  BY DEF IInv
<1>2. Step
  BY <1>1, StepCases
<1>3. Shapes'
  BY <1>1, <1>2, ShapesKept
<1>4. DrivesNested'
  BY <1>1, <1>2, DrivesKept
<1>5. CallsPlaced'
  BY <1>1, <1>2, PlacedKept
<1>6. Counted'
  BY <1>1, <1>2, CountedKept
<1>7. WithinLimits'
  BY <1>1, <1>2, LimitsKept
<1>8. SavedModes' /\ MeasuringScoped'
  BY <1>1, <1>2, ModesKept
<1>9. Accumulators'
  BY <1>1, <1>2, <1>3, AccumulatorsKept
<1> QED
  BY <1>3, <1>4, <1>5, <1>6, <1>7, <1>8, <1>9 DEF IInv

LEMMA InvariantTypes == IInv => TypeOK
<1> SUFFICES ASSUME IInv PROVE TypeOK
  OBVIOUS
<1>1. Shapes /\ Counted /\ Accumulators
  BY DEF IInv
<1>2. moduleDepth \in Nat /\ nativeDepth \in Nat /\ driveDepth \in Nat
  <2>1. /\ moduleDepth = Entered(Modules)
        /\ nativeDepth = Cardinality(NativeOf("call")) + Cardinality(CountedAbandoned)
        /\ driveDepth = Cardinality(NativeOf("drive"))
    BY <1>1 DEF Counted, CountersExact
  <2>2. Entered(Modules) \in Nat
    BY <1>1, EnteredMeans
  <2>3. /\ Cardinality(NativeOf("call")) \in Nat
        /\ Cardinality(NativeOf("drive")) \in Nat
        /\ Cardinality(CountedAbandoned) \in Nat
    BY <1>1, CountedFinite
  <2> QED
    BY <2>1, <2>2, <2>3
<1>3. tree \in Nat
  BY <1>1 DEF Shapes, Accumulators
<1> QED
  BY <1>1, <1>2, <1>3 DEF TypeOK, Shapes

LEMMA InvariantAccounts == IInv => CallsAccounted
<1> SUFFICES ASSUME IInv PROVE CallsAccounted
  OBVIOUS
<1>1. /\ Shapes /\ DrivesNested /\ CallsPlaced /\ Counted /\ WithinLimits
  BY DEF IInv
<1>2. CountersExact /\ ActiveDeclsExact
  BY <1>1 DEF Counted
<1>3. Running => native # <<>>
  BY <1>1 DEF Shapes, Running
<1>4. ASSUME InWalker, Last(native).type = "call"
      PROVE  Last(callStack) = Last(native).decl
  <2>1. /\ native # <<>> /\ Placed
        /\ ~Last(native).started \/ Last(native).decl \notin Compiled
    BY <1>1, <1>3, <1>4 DEF InWalker, Awaiting, CallsPlaced
  <2> QED
    BY <1>1, <1>4, <2>1, TopIsNative
<1>5. ASSUME InVm, Last(vm).type \in {"function", "entry", "module"}
      PROVE  Last(callStack) = Last(vm).decl
  <2>1. Running /\ native # <<>> /\ Last(native).type = "drive" /\ Placed
    BY <1>1, <1>3, <1>5 DEF InVm, CallsPlaced
  <2>2. /\ Len(native) \in Drives /\ Last(native).floor < Len(vm) /\ vm # <<>>
        /\ Len(vm) \in Nat \ {0}
    BY <1>1, <2>1, DriverHasFrame
  <2>3. CASE Last(vm).type = "entry"
    BY <1>1, <2>1, <2>2, <2>3, TopIsEntry
  <2>4. CASE Last(vm).type \in {"function", "module"}
    <3>1. Len(vm) \in 1..Len(vm)
      BY <2>2
    <3>2. FrameOK(Last(vm))
      BY <1>1, <3>1 DEF Shapes, Last
    <3>3. Last(vm).handle # NoHandle
      BY <2>4, <3>2 DEF FrameOK
    <3> QED
      BY <1>1, <2>1, <2>2, <3>3, TopIsBracket
  <2> QED
    BY <1>5, <2>3, <2>4
<1>6. CallStackIsOpenCalls
  BY <1>1, <1>4, <1>5 DEF Counted, CallStackIsOpenCalls
<1>7. DepthsBounded
  <2>1. /\ Cardinality(NativeOf("call")) <= MaxUserCallDepth
        /\ Entered(Modules) <= MaxModuleCallDepth
    <3>1. /\ nativeDepth = Cardinality(NativeOf("call"))
                            + Cardinality(CountedAbandoned)
          /\ nativeDepth <= MaxUserCallDepth
          /\ moduleDepth = Entered(Modules) /\ moduleDepth <= MaxModuleCallDepth
      BY <1>1, <1>2 DEF WithinLimits, CountersExact
    <3>2. Cardinality(NativeOf("call")) \in Nat /\ Cardinality(CountedAbandoned) \in Nat
      BY <1>1, CountedFinite
    <3> QED
      BY <3>1, <3>2, LimitTypes
  <2>2. driveDepth <= MaxDriveVmNativeDepth + 1 /\ driveDepth \in Int
    BY <1>1, LimitTypes DEF WithinLimits, Shapes
  <2>3. Cardinality(NativeOf("drive")) <= MaxDriveVmNativeDepth + 1
    BY <1>2, <2>2 DEF CountersExact
  <2>4. Len(vm) <= MaxVmCallStackDepth + MaxDriveVmNativeDepth + 1
    <3>1. Len(vm) <= MaxVmCallStackDepth + driveDepth /\ Len(vm) \in Nat
      BY <1>1 DEF WithinLimits, Shapes
    <3> QED
      BY <2>2, <3>1, LimitTypes
  <2> QED
    BY <2>1, <2>3, <2>4 DEF DepthsBounded
<1> QED
  BY <1>2, <1>6, <1>7 DEF CallsAccounted

LEMMA InvariantCleans == IInv => IdleClean
<1> SUFFICES ASSUME IInv, mode = "idle" PROVE IdleClean
  BY DEF IdleClean
<1>1. /\ Shapes /\ DrivesNested /\ Counted /\ MeasuringScoped
  BY DEF IInv
<1>2. native = <<>> /\ callStack \in Seq(Decl) /\ measuring \in BOOLEAN
  BY <1>1 DEF Shapes
<1>3. vm = <<>> /\ \A t : t # "top" => NativeOf(t) = {}
  BY <1>1, <1>2, NothingOutside
<1>4. /\ NativeOf("call") = {} /\ NativeOf("drive") = {} /\ NativeOf("measure") = {}
  BY <1>3
<1>5. Len(<<>>) = 0 /\ 1..0 = {} /\ Cardinality({}) = 0
  BY FS_EmptySet
<1>6. Brackets = {}
  BY <1>3, <1>5 DEF Brackets
<1>7. Len(callStack) = Len(abandoned)
  <2>1. Len(callStack) = Cardinality({}) + Cardinality({}) + Len(abandoned)
    BY <1>1, <1>4, <1>6 DEF Counted
  <2> QED
    BY <1>1, <1>5, <2>1, CountedFinite
<1>8. ASSUME NEW D PROVE Entered(D) = Cardinality(LeftIn(D))
  <2>1. CallsIn(D) = {} /\ FramesIn(D) = {}
    BY <1>4, <1>6 DEF CallsIn, FramesIn
  <2> QED
    BY <1>1, <1>5, <2>1, EnteredMeans
<1>9. moduleDepth = 0
  <2>1. LeftIn(Modules) = {}
    <3>1. \A a \in 1..Len(abandoned) : abandoned[a] \in [decl : Functions, counted : BOOLEAN]
      BY <1>1, ElementOfSeq DEF Shapes
    <3> QED
      BY <3>1, CallsAssumption DEF LeftIn
  <2>2. moduleDepth = Entered(Modules)
    BY <1>1 DEF Counted, CountersExact
  <2> QED
    BY <1>5, <1>8, <2>1, <2>2
<1>10. nativeDepth = Cardinality(CountedAbandoned) /\ driveDepth = 0
  <2>1. /\ nativeDepth = Cardinality(NativeOf("call")) + Cardinality(CountedAbandoned)
        /\ driveDepth = Cardinality(NativeOf("drive"))
    BY <1>1 DEF Counted, CountersExact
  <2>2. Cardinality(NativeOf("call")) = 0 /\ Cardinality(NativeOf("drive")) = 0
    BY <1>4, <1>5
  <2>3. Cardinality(CountedAbandoned) \in Nat
    BY <1>1, CountedFinite
  <2> QED
    BY <2>1, <2>2, <2>3
<1>11. ~measuring
  BY <1>1, <1>3, <1>4, <1>5 DEF MeasuringScoped
<1>12. ASSUME ~crossed, NEW d \in Decl
       PROVE  active[d] = Cardinality({a \in 1..Len(abandoned) : abandoned[a].decl = d})
  <2>1. active[d] = Entered({d})
    BY <1>1, <1>12 DEF Counted, ActiveDeclsExact
  <2>2. LeftIn({d}) = {a \in 1..Len(abandoned) : abandoned[a].decl = d}
    BY DEF LeftIn
  <2> QED
    BY <1>8, <2>1, <2>2
<1> QED
  BY <1>3, <1>7, <1>9, <1>10, <1>11, <1>12 DEF IdleClean

(* The invariant holds of every evaluator, wherever the host stops it.     *)
THEOREM Invariance == Spec => []IInv
BY InitHolds, StepHolds, PTL DEF Spec

(* Every variable keeps its type: no counter goes below zero and the       *)
(* records on the two stacks are those the operations push.                *)
THEOREM TypeCorrect == Spec => []TypeOK
BY Invariance, InvariantTypes, PTL

(* Call stack, counters and the bag of active declarations agree with the  *)
(* calls that are open, for any mixture of engines, any declarations and   *)
(* any limits, and the limits bound what they are meant to bound           *)
(* (user_calls.cpp:700-790, bytecode_vm.cpp:560-612).                      *)
THEOREM CallsStayAccounted == Spec => []CallsAccounted
BY Invariance, InvariantAccounts, PTL

(* What a bracket pushed or switched on is undone by whatever ends it, at  *)
(* any depth of brackets and engines.                                      *)
THEOREM BracketsStayBalanced == Spec => []BracketsBalanced
<1>1. IInv => BracketsBalanced
  BY DEF IInv, Accumulators, BracketsBalanced
<1> QED
  BY <1>1, Invariance, PTL

(* However an evaluation ended, all it leaves to the next one is a place   *)
(* on the call stack, in the bag and among the native calls for each call  *)
(* the host stopped at its body entry (user_calls.cpp:753).                *)
THEOREM IdleStaysClean == Spec => []IdleClean
BY Invariance, InvariantCleans, PTL
=============================================================================

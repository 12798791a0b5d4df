----------------------------- MODULE BytecodeVm -----------------------------
(***************************************************************************)
(* bytecode_vm.cpp, the expression half: one call of a compiled function,  *)
(* instruction by instruction, beside the value the AST interpreter gives  *)
(* the same call.  The compiled engine is an optimisation: a program must  *)
(* not be able to tell which engine ran it.                                *)
(*                                                                         *)
(* A frame is one VmFrame: the chunk and which of its codes it runs (seg 0 *)
(* the body, i the default of parameter i), its operand stack, slots,      *)
(* accumulators, iteration lists and context; bound, the parameters given  *)
(* by arguments; dflt, the parameter whose default comes next.             *)
(***************************************************************************)
EXTENDS TreeWalker, BytecodeCompiler

LOCAL INSTANCE SequencesExt

CONSTANTS
    Programs,    \* the bodies of main to run
    Call         \* the statement expression: a call of main

VARIABLES
    mainBody,    \* the body of main: the program under way
    chunks,      \* what it was compiled to, by declaration
    expected,    \* what the interpreter makes of it: [v, out, err]
    m,           \* the compiled run's memory
    vmCallStack, \* the frames, innermost last
    answer       \* the value of the call, once there is one

program == <<mainBody, chunks, expected>>
vars == <<mainBody, chunks, expected, m, vmCallStack, answer>>

\* The chunks of the file: its functions, every literal that was compiled
\* with them, and the statement expression Call that runs main.
WithLiterals(fns) ==
    LET ids == UNION {DOMAIN fns[f].lits : f \in DOMAIN fns}
        OwnerOf(id) == CHOOSE f \in DOMAIN fns : id \in DOMAIN fns[f].lits
    IN  [d \in DOMAIN fns \cup ids |-> IF d \in DOMAIN fns THEN fns[d] ELSE fns[OwnerOf(d)].lits[d]]
CompileProgram(main) ==
    WithLiterals([d \in Functions \cup {"top"} |->
        CompileFunctionLike(IF d = "top" THEN << >> ELSE ParamsOf(d),
                            CASE d = "top" -> Call [] d = "main" -> main [] OTHER -> Library[d].body, d, << >>, {})])

\* The file's own level: nothing bound but what Globals says.
FirstMemory(main) == OpenContext([main |-> main, levels |-> << >>, out |-> << >>, err |-> FALSE], 0, 0, {}).m
FileCtx == [let |-> 1, dyn |-> 2, scope |-> {}]

Interpreted(main) ==
    LET r == Eval(Call, FirstMemory(main), FileCtx) IN [v |-> Plain(r.v), out |-> r.m.out, err |-> r.m.err]

----------------------------------------------------------------------------
(* Frames.                                                                 *)

ChunkSlots(chunk) == [i \in 1..chunk.slots |-> Undef]
ChunkLists(chunk) == [i \in 1..chunk.iters |-> << >>]

\* hop: a tail call may take this frame over.  A bare frame is an
\* expression's, not a call's.  nested (history): the call was not isolated.
NewFrame(decl, ctx, hop) ==
    [chunk |-> decl, seg |-> 0, pc |-> 1, slots |-> ChunkSlots(chunks[decl]), stack |-> << >>, accum |-> << >>,
     iters |-> ChunkLists(chunks[decl]), ctx |-> ctx, bound |-> {}, dflt |-> 1, hop |-> hop,
     nested |-> FALSE]

Top == vmCallStack[Len(vmCallStack)]
Chunk == chunks[Top.chunk]
Code == IF Top.seg = 0 THEN Chunk.code ELSE Chunk.dcode[Top.seg]
DefaultsDone == Top.dflt > Len(Chunk.ps)
Running == vmCallStack # << >> /\ ~m.err

\* The next instruction is one of these.
At(ops) == Running /\ DefaultsDone /\ Top.pc <= Len(Code) /\ Code[Top.pc][1] \in ops
Ins == Code[Top.pc]

Drop(s, n) == SubSeq(s, 1, Len(s) - n)
Popped == [Top EXCEPT !.stack = Front(@), !.pc = @ + 1]
Operand == Last(Top.stack)
Args(n) == SubSeq(Top.stack, Len(Top.stack) - n + 1, Len(Top.stack))

Step(f, mm) == /\ vmCallStack' = [vmCallStack EXCEPT ![Len(vmCallStack)] = f]
               /\ m' = mm
               /\ UNCHANGED <<program, answer>>
Push(f, v) == [f EXCEPT !.stack = Append(@, v)]
\* n operands taken, one value given back.
Replace(n, r) == Step([Top EXCEPT !.stack = Append(Drop(@, n), r.v), !.pc = @ + 1], r.m)

----------------------------------------------------------------------------
(* Instructions.                                                           *)

PushConst == At({"PushConst"}) /\ Replace(0, R(Ins[2], m))
LoadLocal == At({"LoadLocal"}) /\ Replace(0, R(Top.slots[Ins[2]], m))
StoreLocal == At({"StoreLocal"}) /\ Step([Popped EXCEPT !.slots[Ins[2]] = Operand], m)

LoadDyn ==
    /\ At({"LoadDyn"})
    /\ LET v == IF Find(m, Top.ctx.let, Ins[2]) # NotFound THEN Find(m, Top.ctx.let, Ins[2])
                ELSE Find(m, Top.ctx.dyn, Ins[2])
       IN  IF v # NotFound THEN Replace(0, R(v, m))
           ELSE Replace(0, R(Undef, IF Ins[3] THEN Emit(m, <<"unknown variable", Ins[2]>>) ELSE m))

StoreDyn == At({"StoreDyn"}) /\ Step(Popped, Bind(m, Top.ctx.dyn, Ins[2], Operand))
WarnDuplicateLet == At({"WarnDuplicateLet"}) /\ Step(Popped, Emit(m, <<"duplicate", Ins[2], Plain(Operand)>>))
LoadFree == At({"LoadFree", "LoadFreeNoWarn"}) /\ Replace(0, EvalIdentifier(m, Top.ctx, Ins[2], Ins[1] = "LoadFree"))

\* No call a literal was written in is still findable by its slots once the
\* literal carries its captures: they are read by name.
CapturedValue(x) == LET v == Find(m, Top.ctx.let, x) IN IF v = NotFound THEN Undef ELSE v
LoadUpvalue == At({"LoadUpvalue"}) /\ Replace(0, R(CapturedValue(Ins[2].x), m))

\* A closure takes copies of what it captures; under the names it knows
\* itself by, it finds itself.
MakeClosure ==
    /\ At({"MakeClosure"})
    /\ LET site == Chunk.sites[Ins[2]]
           opened == OpenLevel(m, IF site.def THEN Top.ctx.let ELSE 0)
           level == Len(opened.levels)
           closure == Closure(site.lit, level, Chunk.scope)
           names == {cap.x : cap \in site.caps}
           ValueOf(x) == LET cap == CHOOSE c \in site.caps : c.x = x
                         IN  IF cap.self THEN closure
                             ELSE IF cap.decl = Chunk.self THEN Top.slots[cap.slot] ELSE CapturedValue(x)
       IN  Step([Push(Top, closure) EXCEPT !.pc = @ + 1],
                [opened EXCEPT !.levels[level].names = [x \in names |-> ValueOf(x)]])

\* A closure that was made before what it captures was stored learns it now.
PatchClosureCapture ==
    /\ At({"PatchClosureCapture"})
    /\ LET consumer == Top.slots[Ins[2]]
       IN  Step([Top EXCEPT !.pc = @ + 1],
                IF consumer.t = "fn" /\ consumer.let # 0 THEN Bind(m, consumer.let, Ins[3], Top.slots[Ins[4]]) ELSE m)

BinaryOp == At({"BinaryOp"}) /\ Replace(2, ApplyBinaryOp(m, Ins[2], Args(2)[1], Args(2)[2]))
RangeOp == At({"Range"}) /\ Replace(2, ApplyRange(m, Args(2)[1], Args(2)[2]))
BuildList == At({"BuildList"}) /\ Replace(Ins[2], R(List(Args(Ins[2])), m))

Jump == At({"Jump"}) /\ Step([Top EXCEPT !.pc = Ins[2]], m)
\* Mutant: the condition is only looked at, not popped.
JumpIfPeeks == /\ At({"JumpIfFalse", "JumpIfTrue"})
               /\ Step([Top EXCEPT !.pc = IF Truthy(Operand) = (Ins[1] = "JumpIfTrue") THEN Ins[2] ELSE @ + 1], m)
JumpIf == /\ At({"JumpIfFalse", "JumpIfTrue"})
          /\ Step([Popped EXCEPT !.pc = IF Truthy(Operand) = (Ins[1] = "JumpIfTrue") THEN Ins[2] ELSE @], m)

OpenLocalScope ==
    /\ At({"OpenLocalScope"})
    /\ Step([Top EXCEPT !.pc = @ + 1,
                        !.slots = [i \in DOMAIN @ |-> IF i \in Ins[2]..Ins[3] THEN Undef ELSE @[i]]], m)

AccumOpen == At({"AccumOpen"}) /\ Step([Top EXCEPT !.accum = Append(@, << >>), !.pc = @ + 1], m)
AccumAppendOne == At({"AccumAppendOne"}) /\ Step([Popped EXCEPT !.accum[Len(Top.accum)] = Append(@, Operand)], m)
AccumAppendEach == At({"AccumAppendEach"}) /\ Step([Popped EXCEPT !.accum[Len(Top.accum)] = AppendEach(@, Operand)], m)
AccumClose == /\ At({"AccumClose"})
              /\ Step([Push(Top, List(Last(Top.accum))) EXCEPT !.accum = Front(@), !.pc = @ + 1], m)
AccumMergeEach ==
    /\ At({"AccumMergeEach"})
    /\ LET inner == Last(Top.accum)
           Merged[i \in 0..Len(inner)] == IF i = 0 THEN Last(Front(Top.accum)) ELSE AppendEach(Merged[i - 1], inner[i])
       IN  Step([Top EXCEPT !.accum = Append(Drop(@, 2), Merged[Len(inner)]), !.pc = @ + 1], m)

\* An iteration list holds what is left of it.
IterMaterialize == At({"IterMaterialize"}) /\ Step([Popped EXCEPT !.iters[Ins[2]] = ExpandIterable(Operand)], m)
IterNext ==
    /\ At({"IterNext"})
    /\ LET left == Top.iters[Ins[4]]
       IN  IF left = << >> THEN Step([Top EXCEPT !.pc = Ins[2]], m)
           ELSE Step([Top EXCEPT !.slots[Ins[3]] = left[1], !.iters[Ins[4]] = Tail(left), !.pc = @ + 1], m)

\* Mutant: the counter is compared but never stored.
CheckIterLimitUncounted == /\ At({"CheckIterLimit"})
                           /\ Step([Top EXCEPT !.pc = @ + 1],
                                   IF Top.slots[Ins[2]].n > CForLimit THEN Raise(m, <<"too many iterations">>) ELSE m)
CheckIterLimit ==
    /\ At({"CheckIterLimit"})
    /\ LET n == Top.slots[Ins[2]].n + 1
       IN  Step([Top EXCEPT !.slots[Ins[2]] = Num(n), !.pc = @ + 1],
                IF n > CForLimit THEN Raise(m, <<"too many iterations">>) ELSE m)

Echo == /\ At({"Echo"})
        /\ Step([Top EXCEPT !.stack = Drop(@, Ins[2]), !.pc = @ + 1],
                Emit(m, <<"echo", Plain(List(Args(Ins[2])))>>))

AssertFail == /\ At({"AssertFail"})
              /\ Step([Top EXCEPT !.stack = Drop(@, Ins[2])],
                      Raise(m, <<"assertion failed", Plain(List(Args(Ins[2])))>>))

CallBuiltin == At({"CallBuiltin"}) /\ Replace(Ins[3], R(EvalBuiltin(Ins[2], Args(Ins[3])), m))

----------------------------------------------------------------------------
(* Calls.                                                                  *)

\* A frame together with the memory, as its parameters are being bound:
\* given, parameter |-> value, and extra, the $-variables beside them.
F(f, mm) == [f |-> f, m |-> mm]

BindParams(fm, given, extra) ==
    LET ps == chunks[fm.f.chunk].ps
        Holds(s) == {p \in DOMAIN given : ps[p].slot = s}
        dyn == {ps[p].x : p \in Holds(0)}
        ValueOf(x) == IF x \in DOMAIN extra THEN extra[x] ELSE given[CHOOSE p \in Holds(0) : ps[p].x = x]
    IN  [fm EXCEPT !.f.slots = [s \in DOMAIN @ |-> IF Holds(s) = {} THEN @[s] ELSE given[CHOOSE p \in Holds(s) : TRUE]],
                   !.m.levels[fm.f.ctx.dyn].names =
                       [x \in DOMAIN @ \cup dyn \cup DOMAIN extra |->
                           IF x \in dyn \cup DOMAIN extra THEN ValueOf(x) ELSE @[x]]]
SetParam(fm, p, v) == BindParams(fm, [q \in {p} |-> v], << >>)

\* What is wrong with the arguments, in their order.
WarnArgs(plan) ==
    LET wrong == SelectSeq(plan, LAMBDA a : a.warn # "")
        Line(a) == IF a.warn = "named" THEN <<"not a parameter", a.x>> ELSE <<"too many arguments">>
    IN  [m EXCEPT !.out = @ \o [i \in DOMAIN wrong |-> Line(wrong[i])]]

\* Arguments whose callee is known only now, to names: a later value for a
\* name replaces an earlier one.
BuildBoundArgs(names, args, ps) ==
    LET Place(i) == Cardinality({j \in 1..i : names[j] = ""})
        NameOf(i) == IF names[i] # "" THEN names[i] ELSE IF Place(i) <= Len(ps) THEN ps[Place(i)].x ELSE ""
        LastOf(x) == CHOOSE i \in DOMAIN names : NameOf(i) = x /\ \A j \in (i + 1)..Len(names) : NameOf(j) # x
    IN  [x \in {NameOf(i) : i \in DOMAIN names} \ {""} |-> args[LastOf(x)]]

BindBoundArgsIntoFrame(ps, bound) ==
    [given |-> [p \in {q \in DOMAIN ps : ps[q].x \in DOMAIN bound} |-> bound[ps[p].x]],
     extra |-> [x \in {y \in DOMAIN bound : IsDollar(y) /\ ~Declares(ps, y)} |-> bound[x]]]

\* Arguments whose callee was known when the call was compiled: by the plan.
BindPlannedArgsIntoFrame(plan, args) ==
    LET LastOf(I) == args[CHOOSE i \in I : \A j \in I : j <= i]
    IN  [given |-> [p \in UNION {plan[i].to : i \in DOMAIN plan} |-> LastOf({i \in DOMAIN plan : p \in plan[i].to})],
         extra |-> [x \in {plan[i].x : i \in {j \in DOMAIN plan : plan[j].dyn}} |->
                       LastOf({i \in DOMAIN plan : plan[i].dyn /\ plan[i].x = x})]]

OpenDecls == {vmCallStack[i].chunk : i \in DOMAIN vmCallStack}

\* A literal without captures runs inside the caller's context while the
\* declaration it is written in is being called; every other callee is
\* isolated from its caller.
RunsNested(decl, capturedLet) == capturedLet = 0 /\ chunks[decl].within \cap OpenDecls # {}
CalleeContext(mm, decl, capturedLet) ==
    CallCtxFor(mm, Top.ctx, IF RunsNested(decl, capturedLet) THEN Top.ctx.let ELSE capturedLet, chunks[decl].scope)

\* A tail call reuses the caller's frame where it may.
HopsUncaptured(decl, capturedLet, tail) == tail /\ Top.hop /\ capturedLet = 0 /\ ~RunsNested(decl, capturedLet)  \* mutant
Hops(decl, capturedLet, tail) == tail /\ Top.hop /\ ~RunsNested(decl, capturedLet)

\* popped: the caller's frame without the call's operands; to: where the
\* arguments go.  (x \in {e} names the value of e.)
EnterCallee(popped, decl, capturedLet, plan, to, hops) ==
    \E opened \in {CalleeContext(WarnArgs(plan), decl, capturedLet)} :
    \E frame \in {[NewFrame(decl, opened.c, TRUE) EXCEPT !.bound = DOMAIN to.given,
             !.nested = IF hops THEN Top.nested ELSE RunsNested(decl, capturedLet)]} :
    \E entered \in {BindParams(F(frame, opened.m), to.given, to.extra)} :
        /\ vmCallStack' = Append(IF hops THEN Front(vmCallStack)
                                 ELSE [vmCallStack EXCEPT ![Len(vmCallStack)] = popped], entered.f)
        /\ m' = entered.m
        /\ UNCHANGED <<program, answer>>

\* A tail call that cannot hop binds by name what it had planned by place.
CallFn ==
    /\ At({"CallFn", "CallFnTail"})
    /\ \E decl \in {Ins[2]}, names \in {Ins[3]}, plan \in {Ins[4]}, args \in {Args(Len(Ins[3]))},
          hops \in {Hops(Ins[2], 0, Ins[1] = "CallFnTail")}, ps \in {ParamsOf(Ins[2])} :
       \E to \in {IF Ins[1] = "CallFnTail" /\ ~hops THEN BindBoundArgsIntoFrame(ps, BuildBoundArgs(names, args, ps))
                  ELSE BindPlannedArgsIntoFrame(plan, args)} :
            EnterCallee([Top EXCEPT !.stack = Drop(@, Len(names))], decl, 0, plan, to, hops)

\* A literal without a chunk is interpreted.
InterpretCallee(n, callee, bound) ==
    \E warned \in {WarnArgs(PlanCallSiteArgs(Ins[3], callee.lit.ps))} :
    \E in \in {CallCtxFor(warned, Top.ctx, callee.let, callee.scope \cup ParamNames(callee.lit.ps))} :
    \E mm \in {BindCallArgsInto(callee.lit.ps, bound, in.m, in.c)} :
    \E r \in {Eval(callee.lit.body, mm, in.c)} : Replace(n + 1, r)

CallDynamic ==
    /\ At({"CallDynamic", "CallDynamicTail"})
    /\ LET n == Len(Ins[3])
           callee == Last(Drop(Top.stack, n))
           bound == BuildBoundArgs(Ins[3], Args(n), callee.lit.ps)
       IN  CASE callee.t # "fn" ->
                  Replace(n + 1, R(Undef, IF Ins[2] = "" THEN m ELSE Emit(m, <<"unknown function", Ins[2]>>)))
             [] callee.t = "fn" /\ callee.lit.id \in DOMAIN chunks ->
                  EnterCallee([Top EXCEPT !.stack = Drop(@, n + 1)], callee.lit.id, callee.let,
                              PlanCallSiteArgs(Ins[3], callee.lit.ps), BindBoundArgsIntoFrame(callee.lit.ps, bound),
                              Hops(callee.lit.id, callee.let, Ins[1] = "CallDynamicTail"))
             [] OTHER -> InterpretCallee(n, callee, bound)

\* The next parameter: given, without a default, or its default's code is
\* run in a frame of its own, over a copy of the slots and the same context.
ApplyDefault ==
    /\ Running /\ ~DefaultsDone
    /\ LET p == Top.dflt
           fm == F([Top EXCEPT !.dflt = @ + 1], m)
       IN  IF p \in Top.bound THEN Step(fm.f, m)
           ELSE IF Chunk.dcode[p] = << >> THEN Step(SetParam(fm, p, Undef).f, SetParam(fm, p, Undef).m)
           ELSE /\ vmCallStack' = Append(vmCallStack,
                        [NewFrame(Top.chunk, Top.ctx, FALSE) EXCEPT !.seg = p, !.slots = Top.slots,
                                                                    !.dflt = Len(Chunk.ps) + 1])
                /\ UNCHANGED <<program, m, answer>>

\* The code has run out: the value goes to the caller, to the parameter
\* whose default it is, or out.
Complete ==
    /\ Running /\ DefaultsDone /\ Top.pc > Len(Code)
    /\ LET v == IF Top.stack = << >> THEN Undef ELSE Operand
           under == Front(vmCallStack)
           caller == Last(under)
           given == SetParam(F([caller EXCEPT !.dflt = @ + 1], m), caller.dflt, v)
       IN  /\ vmCallStack' = IF under = << >> THEN << >>
                             ELSE [under EXCEPT ![Len(under)] =
                                    IF Top.seg = 0 THEN [Push(caller, v) EXCEPT !.pc = @ + 1] ELSE given.f]
           /\ m' = IF Top.seg = 0 THEN m ELSE given.m
           /\ answer' = IF under = << >> THEN v ELSE answer
    /\ UNCHANGED program

\* An exception unwinds every frame.
Teardown == /\ m.err /\ vmCallStack # << >>
            /\ vmCallStack' = << >>
            /\ answer' = Undef
            /\ UNCHANGED <<program, m>>

Finished == vmCallStack = << >> /\ UNCHANGED vars

Init == /\ mainBody \in Programs
        /\ chunks = CompileProgram(mainBody)
        /\ expected = Interpreted(mainBody)
        /\ m = LetChildCtx(FirstMemory(mainBody), FileCtx).m
        /\ vmCallStack = << NewFrame("top", LetChildCtx(FirstMemory(mainBody), FileCtx).c, FALSE) >>
        /\ answer = NotFound

Next == \/ PushConst \/ LoadLocal \/ StoreLocal \/ LoadDyn \/ StoreDyn \/ WarnDuplicateLet
        \/ LoadFree \/ LoadUpvalue \/ MakeClosure \/ PatchClosureCapture
        \/ BinaryOp \/ RangeOp \/ BuildList \/ Jump \/ JumpIf \/ OpenLocalScope
        \/ AccumOpen \/ AccumAppendOne \/ AccumAppendEach \/ AccumClose \/ AccumMergeEach
        \/ IterMaterialize \/ IterNext \/ CheckIterLimit \/ Echo \/ AssertFail \/ CallBuiltin
        \/ CallFn \/ CallDynamic \/ ApplyDefault \/ Complete \/ Teardown \/ Finished

\* One thread runs the loop and nothing in it waits: as long as a frame is
\* left, instructions go on being executed.  (This is weak fairness of Next:
\* that a step is always possible is what the deadlock check says.)
Progress == []<>(vmCallStack = << >>) \/ []<><<Next>>_vars

Spec == Init /\ [][Next]_vars /\ Progress

----------------------------------------------------------------------------
(* Properties.                                                             *)

\* Where control is after the jumps that start at pc.
RECURSIVE LandsAt(_, _)
LandsAt(code, pc) == IF pc <= Len(code) /\ code[pc][1] = "Jump" THEN LandsAt(code, code[pc][2]) ELSE pc

\* The two engines cannot be told apart: when the compiled run is over, its
\* value and the lines it wrote are those of the interpreter
\* (bytecode_compiler.cpp against expr_eval.cpp, user_calls.cpp).
EnginesAgree ==
    answer # NotFound =>
        /\ m.out = expected.out
        /\ m.err = expected.err
        /\ m.err \/ Plain(answer) = expected.v

\* A body that has run to its end leaves exactly its value on the operand
\* stack and no accumulator open, whatever jumps, loops and tail calls it
\* took: a frame goes back to the pool for the next call (bytecode_vm.cpp:575-609).
FramesFinishClean ==
    Running /\ DefaultsDone /\ Top.pc > Len(Code) => Len(Top.stack) = 1 /\ Top.accum = << >>

\* A tail call does not deepen the stack: a call that waits under another
\* isolated one still has something to do with its result
\* (bytecode_vm.cpp:961-1092).
WaitingCallsHaveWork ==
    \A i \in 1..(Len(vmCallStack) - 1) :
        LET f == vmCallStack[i]
            callee == vmCallStack[i + 1]
        IN  f.hop /\ callee.seg = 0 /\ ~callee.nested
            => LandsAt(chunks[f.chunk].code, f.pc + 1) <= Len(chunks[f.chunk].code)

\* Every evaluation ends: the loop guard stops what the script would not.
Terminates == <>(vmCallStack = << >>)

\* Frames neither leave anything behind nor wait for nothing.
FramesClean == FramesFinishClean /\ WaitingCallsHaveWork
=============================================================================

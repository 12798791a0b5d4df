----------------------------- MODULE StatementVm -----------------------------
(***************************************************************************)
(* The statement half of bytecode_compiler.cpp and bytecode_vm.cpp: a list *)
(* of statements to a program for the virtual machine; and the statements  *)
(* of a file, compiled and run instruction by instruction, beside the CSG  *)
(* tree the AST interpreter builds from the same statements.               *)
(*                                                                         *)
(* A compilation in progress is [code, iters, reassigned]: the buffer      *)
(* being filled (jump targets count from 1), the iteration lists handed    *)
(* out, and the merged assignments to warn about.  An instruction is a     *)
(* tuple that starts with its opcode; where the code keeps a site in a     *)
(* table, the instruction carries it.  Expr stands for the code of an      *)
(* expression (BytecodeCompiler).                                          *)
(*                                                                         *)
(* A frame is one VmFrame.  ctxs is its chain of contexts, the current one *)
(* last; wraps and csgs are the wrappers it has open (builtinWrapStack,    *)
(* csgWrapStack).  runs says what it runs: "list" is a list some native    *)
(* code asked for, "module" a module's body, "block" a forwarded block,    *)
(* "operand" one statement of a block that is forwarded child by child.    *)
(***************************************************************************)
EXTENDS StatementWalker

LOCAL INSTANCE SequencesExt

----------------------------------------------------------------------------
(* The compiler.                                                           *)

RECURSIVE CompileRun(_, _), CompileStatement(_, _), CompileArgs(_, _), CompileLetBinds(_, _, _),
          CompileDims(_, _, _), CompileOperands(_, _)

Out(cs, ins) == [cs EXCEPT !.code = Append(@, ins)]
Here(cs) == Len(cs.code) + 1

\* The jump emitted at instruction `at` lands on the next one emitted.
LandHere(cs, at) == [cs EXCEPT !.code[at][2] = Here(cs)]

CompileRun(ss, cs) == IF ss = << >> THEN cs ELSE CompileRun(Tail(ss), CompileStatement(ss[1], cs))
CompileStatementList(ss, cs) == CompileRun(RunOrder(ss), [cs EXCEPT !.reassigned = @ \cup Reassigned(ss)])
CompileBlockLeftOpen(ss, cs) == CompileStatementList(ss, Out(cs, <<"OpenLetScope">>))  \* mutant: the scope is not closed
CompileBlock(ss, cs) == Out(CompileStatementList(ss, Out(cs, <<"OpenLetScope">>)), <<"CloseExprScope">>)

\* Expressions of a statement run in a scope of their own.
CompileIsolatedExpr(e, cs) == Out(Out(Out(cs, <<"OpenExprScope">>), <<"Expr", e>>), <<"CloseExprScope">>)
CompileArgs(args, cs) == IF args = << >> THEN cs ELSE CompileArgs(Tail(args), CompileIsolatedExpr(args[1].e, cs))

\* The message is evaluated only where the condition has failed.
CompileAssert(s, cs, jumpFail) ==
    LET passed == Out(IF s.body = << >> THEN cs ELSE Out(cs, <<"AssertPass", s>>), <<"Jump", 0>>)
        failed == CompileArgs([i \in DOMAIN s.msg |-> [x |-> "", e |-> s.msg[i]]], LandHere(passed, jumpFail))
    IN  LandHere(Out(failed, <<"AssertFail", Len(s.msg)>>), Here(passed) - 1)

CompileLetBinds(s, i, cs) ==
    IF i > Len(s.binds) THEN cs
    ELSE CompileLetBinds(s, i + 1,
             Out(CompileIsolatedExpr(s.binds[i].e, cs),
                 <<IF RepeatsEarlierLetName(s.binds, i) THEN "WarnDuplicateLet" ELSE "StoreLetVar", s.binds[i].x>>))

EmitBuiltinWrap(s, ss, cs) ==
    Out(CompileBlock(ss, Out(cs, <<"PushBuiltinWrap", s>>)), <<"PopBuiltinWrap">>)

\* One group per operand; a block that is forwarded child by child makes as
\* many as it has children, known only at run time.
CompileOperands(ss, cs) ==
    IF ss = << >> THEN cs
    ELSE CompileOperands(Tail(ss),
             IF IsSeparatingChildrenCall(ss[1]) THEN Out(cs, <<"CsgGroupChildren", ss[1]>>)
             ELSE Out(CompileRun(<< ss[1] >>, Out(cs, <<"CsgGroupStart">>)), <<"CsgGroupEnd", ss[1]>>))
EmitOperandGroups(ss, cs) == CompileOperands(Geometry(ss), CompileStatementList(Assignments(ss), cs))

EmitCsgWrap(s, cs) ==
    Out(Out(EmitOperandGroups(s.body, Out(Out(cs, <<"PushCsgWrap", s>>), <<"OpenLetScope">>)), <<"CloseExprScope">>),
        <<"PopCsgWrap">>)

\* for and intersection_for: an inner range is evaluated once per value of
\* the outer ones, in the scope that value was bound in.
CompileDim(s, d, cs, top) ==
    LandHere(Out(CompileDims(s, d + 1, Out([cs EXCEPT !.iters = @ + 1], <<"ForIterNext", 0, s.binds[d].x, cs.iters + 1>>)),
                 <<"ForIterEnd", top>>), top)
CompileDims(s, d, cs) ==
    IF d > Len(s.binds)
    THEN IF s.k = "for" THEN CompileStatementList(s.body, cs) ELSE EmitOperandGroups(s.body, cs)
    ELSE CompileDim(s, d, Out(cs, <<"NativeIterMaterialize", s.binds[d].e, cs.iters + 1>>), Here(cs) + 1)

\* The false arm starts behind the jump that ends the true one.
CompileIfForgotten(s, cs, jumpFalse) ==  \* mutant: only a branch that is run is recorded
    LandHere(Out(CompileBlock(s.a, cs), <<"SetLastIfTaken", TRUE>>), jumpFalse)
CompileIf(s, cs, jumpFalse) ==
    LET true == Out(Out(CompileBlock(s.a, cs), <<"SetLastIfTaken", TRUE>>), <<"Jump", 0>>)
    IN  LandHere(Out(LandHere(true, jumpFalse), <<"SetLastIfTaken", FALSE>>), Here(true) - 1)
CompileIfElse(s, cs, jumpFalse) ==
    LET true == Out(CompileBlock(s.a, cs), <<"Jump", 0>>)
    IN  LandHere(CompileBlock(s.b, LandHere(true, jumpFalse)), Here(true) - 1)

CompileCall(s, cs) ==
    CASE Declared(s.name) -> Out(cs, <<"CallModule", s>>)
      [] ~Declared(s.name) /\ s.name \in Wrappers -> EmitBuiltinWrap(s, s.body, cs)
      [] ~Declared(s.name) /\ s.name = "children" -> Out(cs, <<"CallChildren", s>>)
      [] ~Declared(s.name) /\ s.name \in CsgOps -> EmitCsgWrap(s, cs)
      [] OTHER -> Out(cs, <<"NativeStatement", s>>)

CompileStatement(s, cs) ==
    CASE s.k = "assign" -> Out(CompileIsolatedExpr(s.e, cs), <<"StoreModuleVar", s.x, s.at>>)
      [] s.k = "call" -> CompileCall(s, cs)
      [] s.k = "modifier" -> IF s.how = "disable" THEN Out(cs, <<"NativeStatement", s>>)
                             ELSE EmitBuiltinWrap(s, << s.s >>, cs)
      [] s.k = "if" -> CompileIf(s, Out(cs, <<"NativeCondJumpIfFalse", 0, s.c>>), Here(cs))
      [] s.k = "ifelse" -> CompileIfElse(s, Out(cs, <<"NativeCondJumpIfFalse", 0, s.c>>), Here(cs))
      [] s.k = "for" -> CompileDims(s, 1, cs)
      [] s.k = "ifor" -> Out(CompileDims(s, 1, Out(cs, <<"PushCsgWrap", s>>)), <<"PopCsgWrap">>)
      [] s.k = "let" -> Out(CompileStatementList(s.body, CompileLetBinds(s, 1, Out(cs, <<"OpenLetScope">>))),
                            <<"CloseExprScope">>)
      [] s.k = "echo" -> Out(CompileArgs(s.args, cs), <<"Echo", s>>)
      [] s.k = "assert" -> CompileAssert(s, Out(CompileIsolatedExpr(s.cond, cs), <<"JumpIfFalse", 0>>),
                                         Here(CompileIsolatedExpr(s.cond, cs)))

CompileChildrenList(ss) == CompileStatementList(ss, [code |-> << >>, iters |-> 0, reassigned |-> {}])

----------------------------------------------------------------------------
(* The virtual machine.                                                    *)

CONSTANT Files      \* the statement lists to run

VARIABLES
    file,        \* the list under way
    expected,    \* the memory the interpreter leaves
    m,           \* the compiled run's memory
    vmCallStack, \* the frames, innermost last
    chunks       \* childrenListChunkCache_: which statements a key's chunk was compiled from

vars == <<file, expected, m, vmCallStack, chunks>>

RootCtx == [let |-> 1, dyn |-> 2, scope |-> {}, kids |-> << >>, from |-> << >>]
FirstMemory == [levels |-> <<[up |-> 0, names |-> << >>], [up |-> 0, names |-> << >>]>>, out |-> << >>, err |-> FALSE,
                tree |-> << << >> >>, calls |-> << >>, rands |-> 0, assigned |-> << >>, reassigned |-> {},
                lastIfTaken |-> FALSE]

\* A frame as it is taken from the pool and reset.
NewFrame(runs, ss, c) ==
    LET chunk == CompileChildrenList(ss)
    IN  [runs |-> runs, code |-> chunk.code, pc |-> 1, stack |-> << >>, iters |-> [i \in 1..chunk.iters |-> << >>],
         ctxs |-> << c >>, wraps |-> << >>, csgs |-> << >>, todo |-> << >>, before |-> 0, calls |-> 0]
OwnsSplice(f) == f.runs \in {"module", "block"}

Top == Last(vmCallStack)
Ctx == Last(Top.ctxs)
Running == vmCallStack # << >> /\ ~m.err
Ins == Top.code[Top.pc]
At(ops) == Running /\ Top.pc <= Len(Top.code) /\ Ins[1] \in ops
Operand1 == Last(Top.stack)
Drop(s, n) == SubSeq(s, 1, Len(s) - n)

\* The frame and the memory after an instruction that stays in its frame.
Step(frame, mm) == /\ vmCallStack' = [vmCallStack EXCEPT ![Len(vmCallStack)] = frame]
                   /\ m' = mm
                   /\ UNCHANGED <<file, expected, chunks>>
Advance(frame, mm) == Step([frame EXCEPT !.pc = @ + 1], mm)
Call(frame, mm) == /\ vmCallStack' = Append(vmCallStack, frame)
                   /\ m' = mm
                   /\ UNCHANGED <<file, expected, chunks>>
Throw(mm) == Step(Top, mm)
WithReassigned(mm, ss) == [mm EXCEPT !.reassigned = @ \cup CompileChildrenList(ss).reassigned]

----------------------------------------------------------------------------
(* Scopes, assignments, messages.                                          *)

OpenScope == /\ At({"OpenExprScope", "OpenLetScope"})
             /\ LET in == ChildCtx(m, Ctx) IN Advance([Top EXCEPT !.ctxs = Append(@, in.c)], in.m)
CloseExprScope == At({"CloseExprScope"}) /\ Advance([Top EXCEPT !.ctxs = Front(@)], m)
Expr == /\ At({"Expr"})
        /\ \E r \in {StatementValue(Ins[2], m, Ctx)} :
              IF r.m.err THEN Throw(r.m) ELSE Advance([Top EXCEPT !.stack = Append(@, r.v)], r.m)

StoreModuleVar ==
    /\ At({"StoreModuleVar"})
    /\ Advance([Top EXCEPT !.stack = Front(@)],
               StoreAssignment(IF IsDollar(Ins[2]) THEN m ELSE WarnOverwritten(m, Ctx, Ins[2]), Ctx, Ins[2], Operand1, Ins[3]))
StoreLetVar == /\ At({"StoreLetVar"})
               /\ Advance([Top EXCEPT !.stack = Front(@)], BindLetName(m, Ctx, Ins[2], Operand1))
WarnDuplicateLet == /\ At({"WarnDuplicateLet"})
                    /\ Advance([Top EXCEPT !.stack = Front(@)], Emit(m, <<"duplicate", Ins[2], Plain(Operand1)>>))

\* echo and assert run their block as a list of its own.
RunChildren(frame, ss, mm) ==
    IF ss = << >> THEN Advance(frame, mm)
    ELSE /\ vmCallStack' = [vmCallStack EXCEPT ![Len(vmCallStack)] = frame] \o << NewFrame("list", ss, Ctx) >>
         /\ m' = WithReassigned(mm, ss)
         /\ UNCHANGED <<file, expected, chunks>>
Echo == /\ At({"Echo"})
        /\ LET n == Len(Ins[2].args)
               vs == SubSeq(Top.stack, Len(Top.stack) - n + 1, Len(Top.stack))
           IN  RunChildren([Top EXCEPT !.stack = Drop(@, n)], Ins[2].body, Emit(m, <<"echo", Plain(List(vs))>>))
AssertPass == At({"AssertPass"}) /\ RunChildren(Top, Ins[2].body, m)
AssertFail == /\ At({"AssertFail"})
              /\ Throw(Raise(m, <<"assertion failed",
                                  Plain(List(SubSeq(Top.stack, Len(Top.stack) - Ins[2] + 1, Len(Top.stack))))>>))

----------------------------------------------------------------------------
(* Branches and loops.                                                     *)

Jump == At({"Jump"}) /\ Step([Top EXCEPT !.pc = Ins[2]], m)
JumpIfFalse == /\ At({"JumpIfFalse"})
               /\ Step([Top EXCEPT !.stack = Front(@), !.pc = IF Truthy(Operand1) THEN @ + 1 ELSE Ins[2]], m)
NativeCondJumpIfFalse ==
    /\ At({"NativeCondJumpIfFalse"})
    /\ \E r \in {StatementValue(Ins[3], m, Ctx)} :
          IF r.m.err THEN Throw(r.m) ELSE Step([Top EXCEPT !.pc = IF Truthy(r.v) THEN @ + 1 ELSE Ins[2]], r.m)
SetLastIfTaken == At({"SetLastIfTaken"}) /\ Advance(Top, [m EXCEPT !.lastIfTaken = Ins[2]])

\* An iteration list holds what is left of it.
NativeIterMaterialize ==
    /\ At({"NativeIterMaterialize"})
    /\ \E r \in {StatementValue(Ins[2], m, Ctx)} :
          IF r.m.err THEN Throw(r.m) ELSE Advance([Top EXCEPT !.iters[Ins[3]] = ExpandIterable(r.v)], r.m)
ForIterNext ==
    /\ At({"ForIterNext"})
    /\ LET left == Top.iters[Ins[4]]
           in == ChildCtx(m, Ctx)
       IN  IF left = << >> THEN Step([Top EXCEPT !.pc = Ins[2]], m)
           ELSE Advance([Top EXCEPT !.ctxs = Append(@, in.c), !.iters[Ins[4]] = Tail(left)],
                        Bind(in.m, in.c.let, Ins[3], left[1]))
ForIterEnd == At({"ForIterEnd"}) /\ Step([Top EXCEPT !.ctxs = Front(@), !.pc = Ins[2]], m)

----------------------------------------------------------------------------
(* Wrappers.  The list a wrapper collects is pushed when it opens.         *)

NativeStatement ==
    /\ At({"NativeStatement"})
    /\ \E mm \in {EvalStatement(Ins[2], m, Ctx)} : IF mm.err THEN Throw(mm) ELSE Advance(Top, mm)

\* A modifier has no arguments, and no context of its own.
PushBuiltinWrap ==
    /\ At({"PushBuiltinWrap"})
    /\ \E s \in {Ins[2]} :
       IF s.k = "modifier"
       THEN Advance([Top EXCEPT !.wraps = Append(@, [s |-> s.how, own |-> FALSE, args |-> << >>, before |-> m.rands])],
                    PushTree(m))
       ELSE \E in \in {ResolveCallArgs(s.args, m, Ctx)} :
            IF in.m.err THEN Throw(in.m)
            ELSE Advance([Top EXCEPT !.ctxs = Append(@, in.c),
                                     !.wraps = Append(@, [s |-> s.name, own |-> TRUE, args |-> in.a, before |-> m.rands])],
                         PushTree(in.m))
PopBuiltinWrap ==
    /\ At({"PopBuiltinWrap"})
    /\ \E w \in {Last(Top.wraps)} :
       Advance([Top EXCEPT !.wraps = Front(@), !.ctxs = IF w.own THEN Front(@) ELSE @],
               MakeNode(m, w.before, w.s, w.args, << >>))

PushCsgWrap ==
    /\ At({"PushCsgWrap"})
    /\ \E s \in {Ins[2]} :
       IF s.k = "ifor"
       THEN Advance([Top EXCEPT !.csgs = Append(@, [s |-> "intersection_for", own |-> FALSE, args |-> << >>,
                                                    before |-> m.rands, groups |-> << >>, start |-> 0])], PushTree(m))
       ELSE \E in \in {ResolveCallArgs(s.args, m, Ctx)} :
            IF in.m.err THEN Throw(in.m)
            ELSE Advance([Top EXCEPT !.ctxs = Append(@, in.c),
                                     !.csgs = Append(@, [s |-> s.name, own |-> TRUE, args |-> in.a, before |-> m.rands,
                                                         groups |-> << >>, start |-> 0])], PushTree(in.m))
PopCsgWrap ==
    /\ At({"PopCsgWrap"})
    /\ \E w \in {Last(Top.csgs)} :
       Advance([Top EXCEPT !.csgs = Front(@), !.ctxs = IF w.own THEN Front(@) ELSE @],
               MakeNode(m, w.before, w.s, w.args, w.groups))

CsgGroupStart == At({"CsgGroupStart"}) /\ Advance([Top EXCEPT !.csgs[Len(Top.csgs)].start = TreeSize(m)], m)
CsgGroupEnd ==
    /\ At({"CsgGroupEnd"})
    /\ Advance([Top EXCEPT !.csgs[Len(Top.csgs)].groups =
                   @ \o Operand(m, Last(Top.csgs).start, EmptyStatementIsAnOperand(Ins[2], m.lastIfTaken), IsBackground(Ins[2]))], m)

\* The statements a forwarded block stands for are known here; each of them
\* is then run as a list of its own, and makes a group.
CsgGroupChildren ==
    /\ At({"CsgGroupChildren"}) /\ Top.todo = << >>
    /\ \E r \in {ExpandSeparatingChildren(Ins[2], m, Ctx)} :
       CASE r.m.err -> Throw(r.m)
         [] ~r.m.err /\ r.v = << >> -> Advance(Top, r.m)
         [] OTHER -> Step([Top EXCEPT !.todo = r.v], r.m)
CsgGroupNext ==
    /\ At({"CsgGroupChildren"}) /\ Top.todo # << >>
    /\ vmCallStack' = [vmCallStack EXCEPT ![Len(vmCallStack)] =
                          [Top EXCEPT !.todo = Tail(@), !.csgs[Len(Top.csgs)].start = TreeSize(m)]]
                      \o << NewFrame("operand", << Top.todo[1] >>, Ctx) >>
    /\ UNCHANGED <<file, expected, m, chunks>>

----------------------------------------------------------------------------
(* Calls.                                                                  *)

CallModule ==
    /\ At({"CallModule"})
    /\ \E s \in {Ins[2]} : \E in \in {OpenModuleCall(s, m, Ctx)} :
       IF in.m.err THEN Throw(in.m)
       ELSE Call([NewFrame("module", Modules[s.name].body, in.c) EXCEPT !.before = in.m.rands, !.calls = Len(m.calls)],
                 WithReassigned(EnterModule(PushTree(in.m), s.name), Modules[s.name].body))

\* A forwarded list is compiled once and found again by its key.
LookupOrCompile(fwd) == [k \in DOMAIN chunks \cup {fwd.key} |-> IF k \in DOMAIN chunks THEN chunks[k] ELSE fwd.stmts]
RunForwarded(fwd, mm) ==
    /\ chunks' = LookupOrCompile(fwd)
    /\ vmCallStack' = Append(vmCallStack, [NewFrame("block", chunks'[fwd.key], fwd.c) EXCEPT !.before = m.rands])
    /\ m' = WithReassigned(PushTree(mm), chunks'[fwd.key])
    /\ UNCHANGED <<file, expected>>
CallChildren ==
    /\ At({"CallChildren"})
    /\ \E in \in {ResolveCallArgs(Ins[2].args, m, Ctx)} : \E fwd \in {PrepareChildrenForward(in.a, in.m, in.c)} :
       CASE fwd.m.err -> Throw(fwd.m)
         [] ~fwd.m.err /\ fwd.v.none -> Advance(Top, fwd.m)
         [] OTHER -> RunForwarded(fwd.v, fwd.m)

\* The list has run out.  What a call drew is spliced once the call is over.
Returned(caller, f) ==
    IF f.runs # "operand" THEN [caller EXCEPT !.pc = @ + 1]
    ELSE [caller EXCEPT !.pc = IF caller.todo = << >> THEN @ + 1 ELSE @,
                        !.csgs[Len(caller.csgs)].groups = @ \o Operand(m, Last(caller.csgs).start, FALSE, FALSE)]
Complete ==
    /\ Running /\ Top.pc > Len(Top.code)
    /\ LET under == Front(vmCallStack)
           left == IF Top.runs = "module" THEN ExitModule(m, Top.calls) ELSE m
       IN  /\ vmCallStack' = IF under = << >> THEN << >> ELSE [under EXCEPT ![Len(under)] = Returned(Last(under), Top)]
           /\ m' = IF OwnsSplice(Top) THEN SpliceModuleChildren(left, Top.before) ELSE left
    /\ UNCHANGED <<file, expected, chunks>>

\* An exception takes the frames down one by one, with the lists they had
\* pushed and the call they had entered.
ListsOf(f) == Len(f.wraps) + Len(f.csgs) + (IF OwnsSplice(f) THEN 1 ELSE 0)
TeardownOfPlainLists ==  \* mutant: the lists of CSG modules stay behind
    /\ m.err /\ vmCallStack # << >>
    /\ vmCallStack' = Front(vmCallStack)
    /\ m' = [m EXCEPT !.tree = Drop(@, ListsOf([Top EXCEPT !.csgs = << >>])),
                      !.calls = IF Top.runs = "module" THEN SubSeq(@, 1, Top.calls) ELSE @]
    /\ UNCHANGED <<file, expected, chunks>>
Teardown == /\ m.err /\ vmCallStack # << >>
            /\ vmCallStack' = Front(vmCallStack)
            /\ m' = [m EXCEPT !.tree = Drop(@, ListsOf(Top)),
                              !.calls = IF Top.runs = "module" THEN SubSeq(@, 1, Top.calls) ELSE @]
            /\ UNCHANGED <<file, expected, chunks>>

Finished == vmCallStack = << >> /\ UNCHANGED vars

Init == /\ file \in Files
        /\ expected = EvalChildren(file, FirstMemory, RootCtx)
        /\ m = WithReassigned(FirstMemory, file)
        /\ vmCallStack = << NewFrame("list", file, RootCtx) >>
        /\ chunks = << >>

Next == \/ OpenScope \/ CloseExprScope \/ Expr \/ StoreModuleVar \/ StoreLetVar \/ WarnDuplicateLet
        \/ Echo \/ AssertPass \/ AssertFail \/ Jump \/ JumpIfFalse \/ NativeCondJumpIfFalse \/ SetLastIfTaken
        \/ NativeIterMaterialize \/ ForIterNext \/ ForIterEnd \/ NativeStatement
        \/ PushBuiltinWrap \/ PopBuiltinWrap \/ PushCsgWrap \/ PopCsgWrap
        \/ CsgGroupStart \/ CsgGroupEnd \/ CsgGroupChildren \/ CsgGroupNext
        \/ CallModule \/ CallChildren \/ Complete \/ Teardown \/ Finished

Spec == Init /\ [][Next]_vars

----------------------------------------------------------------------------
(* Properties.                                                             *)

\* The two engines build the same geometry: when the compiled run is over,
\* its tree - every node, its children and operand groups, the calls it was
\* made in and whether it may be cached - its lines and its random draws are
\* those of the interpreter (stmt_eval.cpp, csg_resolve.cpp against
\* bytecode_compiler.cpp, bytecode_vm.cpp).
StatementsAgree ==
    vmCallStack = << >> =>
        /\ m.tree = expected.tree
        /\ m.out = expected.out
        /\ m.err = expected.err
        /\ m.rands = expected.rands
        /\ m.calls = expected.calls
        /\ expected.reassigned \subseteq m.reassigned

\* Every list on the tree stack belongs to someone who will take it off:
\* the file's own, and one for each wrapper, CSG module, module call and
\* forwarded block under way, also while an exception passes through
\* (bytecode_vm.cpp:481-528).
TreeListsOwned ==
    LET Owned[i \in 0..Len(vmCallStack)] == IF i = 0 THEN 1 ELSE Owned[i - 1] + ListsOf(vmCallStack[i])
    IN  Len(m.tree) = Owned[Len(vmCallStack)]

\* A frame that has run to its end has closed every scope and wrapper it
\* opened (bytecode_vm.cpp:575-602 drops whatever is left).
FramesCloseScopes ==
    Running /\ Top.pc > Len(Top.code) =>
        Len(Top.ctxs) = 1 /\ Top.stack = << >> /\ Top.wraps = << >> /\ Top.csgs = << >> /\ Top.todo = << >>

\* The levels a level's lookups go through.
RECURSIVE Enclosing(_)
Enclosing(l) == IF l = 0 THEN {} ELSE {l} \cup Enclosing(m.levels[l].up)

\* A block is run with the variables of the place it was written in, however
\* often it is handed on: no local scope of a module that forwards it, or of
\* one it was handed through, encloses it (user_calls.cpp:991-1027).  A
\* module sees no local of its caller unless it is nested in it.
BlocksStayLexical ==
    \A i \in 2..Len(vmCallStack) :
        LET caller == vmCallStack[i - 1].ctxs
            callee == vmCallStack[i].ctxs[1]
        IN  /\ vmCallStack[i].runs = "block" => caller[1].let \notin Enclosing(callee.let)
            /\ vmCallStack[i].runs = "module" /\ Modules[m.calls[vmCallStack[i].calls + 1]].within = {}
               => m.levels[callee.let].up = 0

\* Whatever a frame opened, a node list or a scope, is closed by the frame
\* or by the exception that ends it.
FramesBalanced == TreeListsOwned /\ FramesCloseScopes
=============================================================================

-------------------------- MODULE BytecodeCompiler --------------------------
(***************************************************************************)
(* bytecode_compiler.cpp, the expression half: an expression to a stack    *)
(* program, names to slots.                                                *)
(*                                                                         *)
(* A compilation in progress is a record:                                  *)
(*   code            the buffer being filled (jump targets count from 1)   *)
(*   slot, iter      the slots and the iteration lists handed out so far   *)
(*   ups             the names read from an enclosing declaration          *)
(*   sites           the closure sites: [lit, caps, def]                   *)
(*   lits            the literals that have a chunk of their own           *)
(*   self, encl      the declaration, and the levels it is nested in       *)
(*   scope           the parameter names its lexical scope declares        *)
(* A compile scope is a sequence of frames, name |-> slot, innermost last. *)
(* A captured name is [decl, slot, x, self].  An instruction is a tuple    *)
(* that starts with its opcode.                                            *)
(***************************************************************************)
EXTENDS ExprMemory, FiniteSets

LOCAL INSTANCE SequencesExt

RECURSIVE CompileExpr(_, _, _, _), CompileEach(_, _, _),
          CompileElements(_, _, _), CompileForDims(_, _, _, _), CompileInits(_, _, _),
          CompileIncrs(_, _, _), CompileLetClauses(_, _, _, _), CompileLetrecClauses(_, _, _),
          CompileFunctionLike(_, _, _, _, _), CompileDefaults(_, _, _), ResolveEnclosing(_, _),
          LetrecCandidates(_), Resolve(_, _), DeclareMissing(_, _, _)

Out(cs, ins) == [cs EXCEPT !.code = Append(@, ins)]
Here(cs) == Len(cs.code) + 1

\* The jump emitted at instruction `at` lands on the next one emitted.
LandHere(cs, at) == [cs EXCEPT !.code[at][2] = Here(cs)]

----------------------------------------------------------------------------
(* Names.                                                                  *)

Resolve(sc, x) == IF sc = << >> THEN 0
                  ELSE IF x \in DOMAIN sc[Len(sc)] THEN sc[Len(sc)][x]
                  ELSE Resolve(SubSeq(sc, 1, Len(sc) - 1), x)

Declare(sc, x, slot) ==
    [sc EXCEPT ![Len(sc)] = [y \in DOMAIN @ \cup {x} |-> IF y = x THEN slot ELSE @[y]]]
PushScope(sc) == Append(sc, << >>)
TakeSlot(cs) == [cs EXCEPT !.slot = @ + 1]

\* The innermost enclosing level that knows x.
ResolveEnclosing(encl, x) ==
    IF encl = << >> THEN NoExpr
    ELSE LET level == encl[Len(encl)]
         IN  IF Resolve(level.sc, x) # 0
             THEN [decl |-> level.decl, slot |-> Resolve(level.sc, x), x |-> x, self |-> FALSE]
             ELSE ResolveEnclosing(SubSeq(encl, 1, Len(encl) - 1), x)

CompileIdentifierLoad(x, cs, sc, warnIfUndef) ==
    LET up == ResolveEnclosing(cs.encl, x)
    IN  CASE IsDollar(x) -> Out(cs, <<"LoadDyn", x, warnIfUndef>>)
          [] ~IsDollar(x) /\ Resolve(sc, x) # 0 -> Out(cs, <<"LoadLocal", Resolve(sc, x)>>)
          [] ~IsDollar(x) /\ Resolve(sc, x) = 0 /\ up # NoExpr ->
               Out([cs EXCEPT !.ups = @ \cup {up}], <<"LoadUpvalue", up>>)
          [] OTHER -> Out(cs, <<IF warnIfUndef THEN "LoadFree" ELSE "LoadFreeNoWarn", x>>)

----------------------------------------------------------------------------
(* Function literals.                                                      *)

ContainsLoadFree(chunk) ==
    \E code \in {chunk.code} \cup {chunk.dcode[i] : i \in DOMAIN chunk.dcode} :
        \E i \in DOMAIN code : code[i][1] = "LoadFree"

\* What a literal captures: its own reads of enclosing names, and those of
\* the literals inside it that reach past it.
EffectiveCaptures(chunk) ==
    chunk.ups \cup UNION {{cap \in chunk.sites[i].caps : cap.decl # chunk.self} : i \in DOMAIN chunk.sites}

\* A literal that captures nothing is one value for the whole program.  A
\* literal that captures and also reads a name nobody binds keeps the
\* defining level, and has no chunk: it is interpreted when called.
LoadFunctionLiteral(e, chunk, cs) ==
    LET caps == EffectiveCaptures(chunk)
        def == ContainsLoadFree(chunk)
        known == IF caps = {} \/ ~def
                 THEN [cs EXCEPT !.lits = [id \in DOMAIN @ \cup DOMAIN chunk.lits \cup {e.id} |->
                                             IF id = e.id THEN chunk
                                             ELSE IF id \in DOMAIN chunk.lits THEN chunk.lits[id] ELSE @[id]]]
                 ELSE cs
    IN  IF caps = {} /\ ~def THEN Out(known, <<"PushConst", Closure(e, 0, chunk.scope)>>)
        ELSE Out([known EXCEPT !.sites = Append(@, [lit |-> e, caps |-> caps, def |-> def])],
                 <<"MakeClosure", Len(known.sites) + 1>>)

CompileFunctionLiteral(e, cs, sc) ==
    LoadFunctionLiteral(
        e, CompileFunctionLike(e.ps, e.body, e.id, Append(cs.encl, [decl |-> cs.self, sc |-> sc]), cs.scope), cs)

\* The literals a let clause can only ever be bound to, or none.
LetrecCandidates(e) ==
    CASE e.k = "fn" -> {e.id}
      [] e.k = "cond" -> IF {} \in {LetrecCandidates(e.a), LetrecCandidates(e.b)} THEN {}
                         ELSE LetrecCandidates(e.a) \cup LetrecCandidates(e.b)
      [] OTHER -> {}

IsLetrecClause(binds, i) == /\ ~IsDollar(binds[i].x) /\ ~RepeatsEarlierLetName(binds, i)
                            /\ LetrecCandidates(binds[i].e) # {}

----------------------------------------------------------------------------
(* let.  The clauses bound to literals get their slots first, so that such *)
(* a literal may name itself or a later one.                               *)

\* st is [cs, sc, pending, waiters]: pending, the slots of letrec clauses not
\* stored yet; waiters, [slot, consumer, x]: once slot is stored, the closure
\* in slot consumer learns its value under x.

\* Of what the literals of a clause captured: slots still pending are left
\* for later, the clause's own slot is the closure itself.
Early(cap, cs, mine, pending) == cap.decl = cs.self /\ cap.slot \in pending /\ cap.slot # mine
SettleCaptures(cs, lits, mine, pending) ==
    [cs EXCEPT !.sites = [n \in DOMAIN @ |->
        IF @[n].lit.id \notin lits THEN @[n]
        ELSE [@[n] EXCEPT !.caps = {[cap EXCEPT !.self = cap.decl = cs.self /\ cap.slot = mine] :
                                       cap \in {c \in @ : ~Early(c, cs, mine, pending)}}]]]
EarlyCaptures(cs, lits, mine, pending) ==
    {[slot |-> cap.slot, consumer |-> mine, x |-> cap.x] :
        cap \in {c \in UNION {cs.sites[n].caps : n \in {k \in DOMAIN cs.sites : cs.sites[k].lit.id \in lits}} :
                    Early(c, cs, mine, pending)}}

PatchWaitersForgotten(cs, told, slot) == cs  \* mutant: waiting closures are never told
PatchWaiters(cs, told, slot) ==
    [cs EXCEPT !.code = @ \o [n \in DOMAIN told |-> <<"PatchClosureCapture", told[n].consumer, told[n].x, slot>>]]

\* The clause's value is on the stack: it is stored where its name says.
StoreLetClause(binds, i, raw, st) ==
    LET x == binds[i].x
        lits == IF IsLetrecClause(binds, i) THEN LetrecCandidates(binds[i].e) ELSE {}
        mine == IF lits = {} THEN 0 ELSE Resolve(st.sc, x)
        cs == SettleCaptures(raw, lits, mine, st.pending)
        waiting == [st EXCEPT !.waiters = @ \cup EarlyCaptures(raw, lits, mine, st.pending)]
        Told(ws) == SetToSeq({w \in ws : w.slot = mine})
    IN  IF RepeatsEarlierLetName(binds, i) THEN [waiting EXCEPT !.cs = Out(cs, <<"WarnDuplicateLet", x>>)]
        ELSE IF IsDollar(x) THEN [waiting EXCEPT !.cs = Out(cs, <<"StoreDyn", x>>)]
        ELSE IF mine = 0 THEN [waiting EXCEPT !.cs = Out(TakeSlot(cs), <<"StoreLocal", raw.slot + 1>>),
                                              !.sc = Declare(@, x, raw.slot + 1)]
        ELSE [waiting EXCEPT !.cs = PatchWaiters(Out(cs, <<"StoreLocal", mine>>), Told(waiting.waiters), mine),
                             !.pending = @ \ {mine}]

CompileLetrecClauses(binds, i, st) ==
    IF i > Len(binds) THEN st
    ELSE CompileLetrecClauses(binds, i + 1,
             StoreLetClause(binds, i, CompileExpr(binds[i].e, st.cs, st.sc, "value"), st))

DeclareLetrec(binds, cs, sc) ==
    LET Declared[i \in 0..Len(binds)] ==
            IF i = 0 THEN [cs |-> cs, sc |-> sc]
            ELSE IF ~IsLetrecClause(binds, i) THEN Declared[i - 1]
            ELSE [cs |-> TakeSlot(Declared[i - 1].cs),
                  sc |-> Declare(Declared[i - 1].sc, binds[i].x, Declared[i - 1].cs.slot + 1)]
    IN  Declared[Len(binds)]

CompileLetOp(e, cs, sc, role) ==
    LET open == Out(cs, <<"OpenLocalScope", cs.slot + 1, 0>>)
        letrec == DeclareLetrec(e.binds, open, PushScope(sc))
        bound == CompileLetrecClauses(e.binds, 1, [cs |-> letrec.cs, sc |-> letrec.sc, waiters |-> {},
                                                   pending |-> (cs.slot + 1)..letrec.cs.slot])
    IN  CompileExpr(e.body, [bound.cs EXCEPT !.code[Here(cs)][3] = bound.cs.slot], bound.sc, role)

----------------------------------------------------------------------------
(* Calls.                                                                  *)

ParamsOf(f) == IF f = "main" THEN MainParams ELSE Library[f].ps

\* Where each argument of a call of a known function goes: the parameters
\* it names, or the callee's $-variables; and what there is to warn about.
PlanCallSiteArgs(names, ps) ==
    [i \in 1..Len(names) |->
        LET at == Cardinality({j \in 1..i : names[j] = ""})
            positional == names[i] = ""
            name == IF positional /\ at <= Len(ps) THEN ps[at].x ELSE names[i]
            to == {p \in 1..Len(ps) : ps[p].x = name}
        IN  [to |-> to, x |-> names[i],
             dyn |-> ~positional /\ to = {} /\ IsDollar(names[i]),
             warn |-> IF positional THEN IF at = Len(ps) + 1 THEN "many" ELSE ""
                      ELSE IF to = {} /\ ~IsDollar(names[i]) THEN "named" ELSE ""]]

CompilePrimaryCall(e, cs, sc, role) ==
    LET name == IF IsIdentifier(e.f) THEN e.f.x ELSE ""
        names == [i \in 1..Len(e.args) |-> e.args[i].x]
        callee == IF name # "" THEN CompileIdentifierLoad(name, cs, sc, FALSE) ELSE CompileExpr(e.f, cs, sc, "value")
        Args(from) == CompileEach([i \in 1..Len(e.args) |-> e.args[i].e], from, sc)
    IN  CASE name \in Functions ->
               Out(Args(cs), <<IF role = "tail" THEN "CallFnTail" ELSE "CallFn", name, names,
                               PlanCallSiteArgs(names, ParamsOf(name))>>)
          [] name \in Builtins \ Functions ->
               Out(IF UndefProbe(e) THEN CompileIdentifierLoad(e.args[1].e.x, cs, sc, FALSE) ELSE Args(cs),
                   <<"CallBuiltin", name, Len(e.args)>>)
          [] OTHER -> Out(Args(callee), <<IF role = "tail" THEN "CallDynamicTail" ELSE "CallDynamic", name, names>>)

----------------------------------------------------------------------------
(* List comprehensions: every element appends to the open accumulator.     *)

ClauseKinds == {"for", "cfor", "if", "ifelse", "letc", "each"}

CompileElements(es, cs, sc) ==
    IF es = << >> THEN cs ELSE CompileElements(Tail(es), CompileExpr(es[1], cs, sc, "element"), sc)

CompileListLiteral(e, cs, sc) ==
    IF \E i \in DOMAIN e.es : e.es[i].k \in ClauseKinds
    THEN Out(CompileElements(e.es, Out(cs, <<"AccumOpen">>), sc), <<"AccumClose">>)
    ELSE Out(CompileEach(e.es, cs, sc), <<"BuildList", Len(e.es)>>)

CompileForDims(e, depth, cs, sc) ==
    IF depth > Len(e.binds) THEN CompileExpr(e.body, cs, sc, "element")
    ELSE LET iter == cs.iter + 1
             range == CompileExpr(e.binds[depth].e, [cs EXCEPT !.iter = iter], sc, "value")
             top == Out(TakeSlot(range), <<"IterMaterialize", iter>>)
             next == Out(top, <<"IterNext", 0, top.slot, iter>>)
             body == CompileForDims(e, depth + 1, next, Declare(sc, e.binds[depth].x, top.slot))
         IN  LandHere(Out(body, <<"Jump", Here(top)>>), Here(top))

\* The inits of a C-style loop, each in a slot of its own.
CompileInits(binds, cs, sc) ==
    IF binds = << >> THEN [cs |-> cs, sc |-> sc]
    ELSE LET r == TakeSlot(CompileExpr(binds[1].e, cs, sc, "value"))
         IN  CompileInits(Tail(binds), Out(r, <<"StoreLocal", r.slot>>), Declare(sc, binds[1].x, r.slot))

\* An increment of a name no scope knows makes it a variable of the loop.
DeclareMissing(binds, cs, sc) ==
    IF binds = << >> THEN [cs |-> cs, sc |-> sc]
    ELSE IF Resolve(sc, binds[1].x) # 0 THEN DeclareMissing(Tail(binds), cs, sc)
    ELSE DeclareMissing(Tail(binds), TakeSlot(cs), Declare(sc, binds[1].x, cs.slot + 1))

CompileIncrs(binds, cs, sc) ==
    IF binds = << >> THEN cs
    ELSE CompileIncrs(Tail(binds), Out(CompileExpr(binds[1].e, cs, sc, "value"),
                                       <<"StoreLocal", Resolve(sc, binds[1].x)>>), sc)

CompileCFor(e, cs, sc) ==
    LET inits == CompileInits(e.inits, cs, PushScope(sc))
        vars == DeclareMissing(e.incrs, inits.cs, inits.sc)
        counted == TakeSlot(vars.cs)
        top == Out(Out(counted, <<"PushConst", Num(0)>>), <<"StoreLocal", counted.slot>>)
        cond == CompileExpr(e.cond, top, vars.sc, "value")
        limit == Out(Out(cond, <<"JumpIfFalse", 0>>), <<"CheckIterLimit", counted.slot>>)
        body == CompileIncrs(e.incrs, CompileExpr(e.body, limit, vars.sc, "element"), vars.sc)
    IN  LandHere(Out(body, <<"Jump", Here(top)>>), Here(cond))

CompileIf(e, cs, sc) ==
    LET cond == CompileExpr(e.c, cs, sc, "value")
        then == CompileExpr(e.a, Out(cond, <<"JumpIfFalse", 0>>), sc, "element")
        else == LandHere(Out(then, <<"Jump", 0>>), Here(cond))
    IN  IF e.k = "if" THEN LandHere(then, Here(cond))
        ELSE LandHere(CompileExpr(e.b, else, sc, "element"), Here(then))

\* The clauses of a let in a comprehension: no letrec.
CompileLetClauses(binds, i, cs, sc) ==
    IF i > Len(binds) THEN [cs |-> cs, sc |-> sc]
    ELSE LET x == binds[i].x
             r == CompileExpr(binds[i].e, cs, sc, "value")
         IN  IF RepeatsEarlierLetName(binds, i) THEN CompileLetClauses(binds, i + 1, Out(r, <<"WarnDuplicateLet", x>>), sc)
             ELSE IF IsDollar(x) THEN CompileLetClauses(binds, i + 1, Out(r, <<"StoreDyn", x>>), sc)
             ELSE CompileLetClauses(binds, i + 1, Out(TakeSlot(r), <<"StoreLocal", r.slot + 1>>),
                                    Declare(sc, x, r.slot + 1))

CompileListLet(e, cs, sc) ==
    LET open == Out(cs, <<"OpenLocalScope", cs.slot + 1, 0>>)
        bound == CompileLetClauses(e.binds, 1, open, PushScope(sc))
    IN  CompileExpr(e.body, [bound.cs EXCEPT !.code[Here(cs)][3] = bound.cs.slot], bound.sc, "element")

CompileEachElement(e, cs, sc) ==
    IF e.body.k \in ClauseKinds
    THEN Out(CompileExpr(e.body, Out(cs, <<"AccumOpen">>), sc, "element"), <<"AccumMergeEach">>)
    ELSE Out(CompileExpr(e.body, cs, sc, "value"), <<"AccumAppendEach">>)

CompileListElement(e, cs, sc) ==
    CASE e.k = "for" -> CompileForDims(e, 1, cs, PushScope(sc))
      [] e.k = "cfor" -> CompileCFor(e, cs, sc)
      [] e.k \in {"if", "ifelse"} -> CompileIf(e, cs, sc)
      [] e.k = "letc" -> CompileListLet(e, cs, sc)
      [] e.k = "each" -> CompileEachElement(e, cs, sc)
      [] OTHER -> Out(CompileExpr(e, cs, sc, "value"), <<"AccumAppendOne">>)

----------------------------------------------------------------------------
(* Expressions.  The role of an expression is what becomes of its value:   *)
(* it stays on the stack ("value"), is what the body returns ("tail"), or  *)
(* goes to the open accumulator ("element").                               *)

CompileEach(es, cs, sc) ==
    IF es = << >> THEN cs ELSE CompileEach(Tail(es), CompileExpr(es[1], cs, sc, "value"), sc)

CompileTernary(e, cs, sc, role) ==
    LET cond == CompileExpr(e.c, cs, sc, "value")
        then == CompileExpr(e.a, Out(cond, <<"JumpIfFalse", 0>>), sc, role)
        else == LandHere(Out(then, <<"Jump", 0>>), Here(cond))
    IN  LandHere(CompileExpr(e.b, else, sc, role), Here(then))

\* Both operands jump to the short result; falling through gives the long one.
CompileLogical(e, cs, sc, jump, short) ==
    LET left == CompileExpr(e.a, cs, sc, "value")
        right == CompileExpr(e.b, Out(left, <<jump, 0>>), sc, "value")
        long == Out(Out(right, <<jump, 0>>), <<"PushConst", Bool(~short)>>)
        out == Out(long, <<"Jump", 0>>)
    IN  LandHere(Out(LandHere(LandHere(out, Here(left)), Here(right)), <<"PushConst", Bool(short)>>), Here(long))

CompileAssert(e, cs, sc) ==
    LET cond == CompileExpr(e.cond, cs, sc, "value")
        pass == Out(Out(cond, <<"JumpIfFalse", 0>>), <<"Jump", 0>>)
        msg == CompileEach(e.msg, LandHere(pass, Here(cond)), sc)
    IN  LandHere(Out(msg, <<"AssertFail", Len(e.msg)>>), Here(cond) + 1)

CompileExpr(e, cs, sc, role) ==
    IF role = "element" THEN CompileListElement(e, cs, sc) ELSE
    CASE e.k = "const" -> Out(cs, <<"PushConst", e.v>>)
      [] e.k = "id" -> CompileIdentifierLoad(e.x, cs, sc, TRUE)
      [] e.k = "list" -> CompileListLiteral(e, cs, sc)
      [] e.k = "fn" -> CompileFunctionLiteral(e, cs, sc)
      [] e.k = "call" -> CompilePrimaryCall(e, cs, sc, role)
      [] e.k = "let" -> CompileLetOp(e, cs, sc, role)
      [] e.k = "echo" -> CompileExpr(e.body, Out(CompileEach(e.args, cs, sc), <<"Echo", Len(e.args)>>), sc, role)
      [] e.k = "assert" -> CompileExpr(e.body, CompileAssert(e, cs, sc), sc, role)
      [] e.k = "op" -> Out(CompileEach(<<e.a, e.b>>, cs, sc), <<"BinaryOp", e.op>>)
      [] e.k = "range" -> Out(CompileEach(<<e.a, e.b>>, cs, sc), <<"Range">>)
      [] e.k = "cond" -> CompileTernary(e, cs, sc, role)
      [] e.k = "and" -> CompileLogical(e, cs, sc, "JumpIfFalse", FALSE)
      [] e.k = "or" -> CompileLogical(e, cs, sc, "JumpIfTrue", TRUE)

----------------------------------------------------------------------------
(* A function or a literal: its parameters take the first slots, except    *)
(* $-parameters; a default sees no local name at all.                      *)

SetDefault(cs) == [cs EXCEPT !.dcode = Append(@, cs.code), !.code = << >>]
CompileDefaults(ps, i, cs) ==
    IF i > Len(ps) THEN cs
    ELSE CompileDefaults(ps, i + 1,
             IF ps[i].d = NoExpr THEN [cs EXCEPT !.dcode = Append(@, << >>)]
             ELSE SetDefault(CompileExpr(ps[i].d, [cs EXCEPT !.code = << >>], << << >> >>, "value")))

ChunkOf(cs, params, body) ==
    [ps |-> params, code |-> cs.code, dcode |-> cs.dcode, slots |-> cs.slot, iters |-> cs.iter, ups |-> cs.ups,
     sites |-> cs.sites, lits |-> cs.lits, self |-> cs.self, body |-> body,
     within |-> {cs.encl[i].decl : i \in DOMAIN cs.encl}, scope |-> cs.scope]

CompileFunctionLike(ps, body, self, encl, outer) ==
    LET SlotOf(i) == Cardinality({j \in 1..i : ~IsDollar(ps[j].x)})
        params == [i \in 1..Len(ps) |-> [x |-> ps[i].x, slot |-> IF IsDollar(ps[i].x) THEN 0 ELSE SlotOf(i)]]
        Scope[i \in 0..Len(ps)] == IF i = 0 THEN << << >> >>
                                   ELSE IF IsDollar(ps[i].x) THEN Scope[i - 1]
                                   ELSE Declare(Scope[i - 1], ps[i].x, SlotOf(i))
        blank == [code |-> << >>, dcode |-> << >>, slot |-> SlotOf(Len(ps)), iter |-> 0, ups |-> {}, sites |-> << >>,
                  lits |-> << >>, self |-> self, encl |-> encl, scope |-> outer \cup ParamNames(ps)]
    IN  ChunkOf(CompileExpr(body, CompileDefaults(ps, 1, blank), Scope[Len(ps)], "tail"), params, body)
=============================================================================

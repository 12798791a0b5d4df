------------------------------ MODULE Debugger ------------------------------
(***************************************************************************)
(* Checkpoints, pauses, fast-continue and cancellation.                    *)
(*                                                                         *)
(* The evaluation thread runs a script and passes a checkpoint             *)
(* (Evaluator::checkDebug) at every statement, loop pass, branch and call  *)
(* site; the checkpoint may call a debug hook, which may block the thread  *)
(* at a prompt.  Another thread (Ctrl+C, the host's Pause and Cancel       *)
(* buttons, a breakpoint toggled in an editor) only ever sets atomic flags *)
(* and the session's own breakpoint table.  Three hosts drive the same     *)
(* evaluator:                                                              *)
(*   "repl"   the command line's --debug prompt (DebugRepl, cli_lib.cpp);  *)
(*   "gui"    debug_evaluate() of the Python bindings, whose session       *)
(*            (external) follows the contract of setFastContinueBreakpoints*)
(*   "plain"  evaluate() without a hook, with a cancel flag.               *)
(*                                                                         *)
(* A script is data: procedures made of operations.  A location is a pair  *)
(* <<file, line>>.                                                         *)
(*   entry at        a function's body checkpoint (enterUserCall)          *)
(*   stmt at kids    a statement; kids are its children's locations        *)
(*   marker at       an expression-level checkpoint                        *)
(*   site at of      the call-site checkpoint of a call inside the         *)
(*                   statement whose own checkpoint is at `of`             *)
(*   forced at       breakpoint()                                          *)
(*   call/tail to    a user call, a tail-call hop                          *)
(*   block/measure to  a block run at the same call depth; the block of a  *)
(*                   render() expression, which runs with measuring_ set   *)
(*   loop to         go back to an operation, or on                        *)
(*   fail at         error() at a location                                 *)
(***************************************************************************)
EXTENDS Integers, Sequences, FiniteSets

CONSTANTS
    Hosts,       \* the hosts of this instance
    Procs,       \* the procedures of the script
    Main,        \* the script's top level, a member of Procs
    Kind,        \* [Procs -> {"function", "module"}]
    Body,        \* [Procs -> sequences of operations]
    Chunk,       \* [Procs -> [o, lo, hi]]: the lines compiled into its chunk
    MainFile,    \* the file given to the debugger
    BreakLocs,   \* the locations a user sets and clears breakpoints at
    Poll,        \* instructions between two looks at the cancel flag
    Nodes,       \* top-level nodes of the generate pass
    Off,         \* no step command, no fast-continue set (std::nullopt)
    MaxRuns,     \* bound: runs of one session
    MaxEdits     \* bound: breakpoint edits, pauses asked for, variables set

ASSUME DebuggerAssumption ==
    /\ Hosts \subseteq {"repl", "gui", "plain"} /\ Main \in Procs
    /\ Kind \in [Procs -> {"function", "module"}]
    /\ Poll \in Nat \ {0} /\ Nodes \in Nat /\ MaxRuns \in Nat /\ MaxEdits \in Nat

(* What a script is: jumps lead to operations, calls and blocks to           *)
(* procedures; a block holds statements, and the lines of a function's       *)
(* statements are among those its chunk was compiled from.                   *)
InChunk(b, p) == b[1] = Chunk[p].o /\ Chunk[p].lo <= b[2] /\ b[2] <= Chunk[p].hi
OperationOK(p, o) ==
    /\ o.op \in {"call", "tail", "block", "measure"} => o.to \in Procs
    /\ o.op \in {"block", "measure"} => Kind[o.to] = "module"
    /\ o.op = "tail" => Body[o.to] # <<>>
    /\ o.op = "loop" => o.to \in 1..(Len(Body[p]) + 1)
    /\ o.op \in {"stmt", "forced"} /\ Kind[p] = "function" => InChunk(o.at, p)
ASSUME ScriptAssumption ==
    \A p \in Procs :
        /\ Len(Body[p]) \in Nat /\ DOMAIN Body[p] = 1..Len(Body[p])
        /\ \A i \in DOMAIN Body[p] : OperationOK(p, Body[p][i])

NoLoc == <<"", -1>>

VARIABLES
    host, phase,                   \* who drives; where the host's loop stands
    frames,                        \* the evaluation's activations, the running one last
    lastStmt,                      \* lastStmtByDepth_
    kids,                          \* lastChildrenPositions_
    fc, skippable,                 \* fastContinueBreakpoints_, fastContinueHookSkippable_
    interrupt, signalDue,          \* the interrupt flag; a request() still to be made
    cancel, ticks,                 \* the cancel flag, cancelTicks_
    breaks, first, step,           \* breakpoints_, breakOnFirst_, stepCmd_ and its origin
    pauseReq, mods, quit, post,    \* pauseRequested_, pendingMods_, quit_, postRunAction_
    here,                          \* where the prompt is: location and call depth
    node,                          \* nodes the generate pass has done
    runs, edits,                   \* how much of the bounds is used
    asked, thrown, late, verdict   \* history: see below

evalVars == <<frames, lastStmt, kids, fc, skippable, ticks, node>>
sessVars == <<first, step, mods, quit, post, here>>
flagVars == <<interrupt, signalDue, cancel>>
history  == <<asked, thrown, late, verdict>>
vars == <<host, phase, evalVars, sessVars, flagVars, breaks, pauseReq, runs, edits, history>>

(* asked   what the user last decided at a prompt that evaluation obeys;
   thrown  the kind of the exception that unwinds evaluation;
   late    VM instructions and generated nodes since the cancel flag was set;
   verdict what the last checkpoint did wrong, if anything. *)

------------------------------------------------------------------------------
(* The running activation.  `vm` says its body runs compiled, `call` that it
   is a CallStackFrame (a block is not), `known` is the breakpoint set the
   evaluator had when it was entered, and `begun` holds the statements that
   passed their checkpoint in it. *)
Known == IF fc = Off THEN {} ELSE fc
Frame(p, vm, call, measuring, known) ==
    [proc |-> p, pc |-> 1, vm |-> vm, call |-> call, measuring |-> measuring,
     known |-> known, begun |-> {}]

Script(h) == [proc |-> Main, pc |-> 1, vm |-> h = "plain", call |-> FALSE,
              measuring |-> FALSE, known |-> {}, begun |-> {}]

Top == frames[Len(frames)]
Ops == Body[Top.proc]
AtEnd == Top.pc > Len(Ops)
Op == Ops[Top.pc]
Depth == Cardinality({i \in DOMAIN frames : frames[i].call})
Measuring == \E i \in DOMAIN frames : frames[i].measuring
Hooked == host # "plain"

Running == phase = "eval" /\ ~ AtEnd
Goto(n) == [frames EXCEPT ![Len(frames)].pc = n]
Advance == Goto(Top.pc + 1)

(* Mutant: the first and the last line of a chunk are not part of it. *)
EligibleInside(p) ==
    \/ ~ Hooked
    \/ /\ fc # Off
       /\ \A b \in fc : ~ (b[1] = Chunk[p].o /\ Chunk[p].lo < b[2] /\ b[2] < Chunk[p].hi)

(* useBytecodeVm and chunkEligibleNow: may this procedure run compiled? *)
Eligible(p) ==
    \/ ~ Hooked
    \/ /\ fc # Off
       /\ \A b \in fc : ~ InChunk(b, p)

(* A compiled function body has no checkpoints but the one at its entry; a
   compiled module body keeps those of its statements. *)
Checked ==
    /\ Op.op \in {"entry", "stmt", "marker", "site", "forced"}
    /\ ~ Top.vm \/ Op.op = "entry" \/ (Kind[Top.proc] = "module" /\ Op.op # "site")

(* The flags checkDebug is called with. *)
Forced == Op.op = "forced"
ExprLevel == Op.op = "marker"
CallSite == Op.op = "site"

(* The statement this call belongs to already stopped on this exact line. *)
LastStmt(d) == IF d \in DOMAIN lastStmt THEN lastStmt[d] ELSE NoLoc
Collapsed == CallSite /\ ~ Forced /\ LastStmt(Depth) = Op.at

(* Hook-skippable mode: nothing needs to inspect this checkpoint. *)
MaySkip == ~ Forced /\ skippable /\ fc # Off
(* Mutant: the interrupt flag is not looked at. *)
SkippedBlindly == MaySkip /\ Op.at \notin fc
Skipped == MaySkip /\ ~ interrupt /\ Op.at \notin fc

(* Mutant: a render() expression's block is checked like any other. *)
IgnoredUnhooked == ~ Hooked
Ignored == Measuring \/ ~ Hooked

LastStmtAfter ==
    IF Ignored \/ Collapsed \/ ExprLevel \/ CallSite THEN lastStmt
    ELSE [d \in DOMAIN lastStmt \union {Depth} |-> IF d = Depth THEN Op.at ELSE lastStmt[d]]

(* The stop that this checkpoint should make, judged by the script alone: a
   call site repeats its statement's stop exactly when it is on its line. *)
Repeats == CallSite /\ Op.at = Op.of /\ Op.of \in Top.begun
Verdict(stops) ==
    IF Ignored \/ ExprLevel THEN "ok"
    ELSE CASE stops /\ Repeats -> "twice"
           [] ~ stops /\ CallSite /\ ~ Repeats /\ ~ MaySkip -> "lost"
           [] ~ stops /\ ~ CallSite /\ Op.at \in Top.known /\ fc # Off /\ Op.at \in fc -> "missed"
           [] OTHER -> "ok"

Begin == IF Op.op \in {"entry", "stmt"} /\ ~ Ignored
         THEN [Advance EXCEPT ![Len(frames)].begun = @ \union {Op.at}] ELSE Advance

(* DebugRepl::debugHook: does the step command in progress stop here? *)
StepHit ==
    /\ step # Off /\ ~ ExprLevel
    /\ \/ step.cmd = "over" /\ Depth <= step.depth /\ Op.at[1] = step.at[1] /\ Op.at[2] # step.at[2]
       \/ step.cmd = "into" /\ Op.at # step.at
       \/ step.cmd = "out" /\ Depth < step.depth
       \/ step.cmd = "child" /\ (Op.at \in step.targets \/ Depth < step.depth)

(* Mutant: a pause request waits for a statement of the main file. *)
ShouldPauseInMain ==
    \/ Forced \/ StepHit
    \/ ~ ExprLevel /\ (Op.at \in breaks \/ ((first \/ pauseReq) /\ Op.at[1] = MainFile /\ Depth = 0))
ShouldPause ==
    \/ Forced \/ pauseReq \/ StepHit
    \/ ~ ExprLevel /\ (Op.at \in breaks \/ (first /\ Op.at[1] = MainFile))

(* The GUI session tells the evaluator what it may skip from now on: with a
   step into anything nothing, with a step over or out no statement. *)
PushFastContinue(s) ==
    IF host # "gui" THEN UNCHANGED <<fc, skippable>>
    ELSE /\ fc' = IF s # Off /\ s.cmd \in {"into", "child"} THEN Off ELSE breaks
         /\ skippable' = (s = Off)

------------------------------------------------------------------------------
Init ==
    /\ host \in Hosts
    /\ phase = IF host = "repl" THEN "prompt" ELSE "eval"
    /\ fc = Off /\ skippable = FALSE /\ kids = {}
    /\ frames = << Script(host) >>
    /\ lastStmt = << >>
    /\ interrupt = FALSE /\ signalDue = FALSE /\ cancel = FALSE
    /\ ticks = 0 /\ node = 0
    /\ breaks \in SUBSET BreakLocs
    /\ first = TRUE /\ step = Off /\ pauseReq = FALSE /\ mods = FALSE
    /\ quit = FALSE /\ post = "none"
    /\ here = [at |-> NoLoc, depth |-> 0]
    /\ runs = 0 /\ edits = 0
    /\ asked = "none" /\ thrown = "none" /\ late = 0 /\ verdict = "ok"

(* cli_lib.cpp: a run has an evaluator of its own; DebugRepl::prepareForRun
   resets the session, all but its breakpoints and the pause flag. *)
(* Mutants: quit_ stays set; variables set at the last prompt stay pending. *)
PrepareStillQuitting ==
    /\ first' = TRUE /\ step' = Off /\ mods' = FALSE
    /\ quit' = quit /\ post' = "none" /\ here' = here
PrepareKeepingMods ==
    /\ first' = TRUE /\ step' = Off /\ mods' = mods
    /\ quit' = FALSE /\ post' = "none" /\ here' = here
PrepareForRun ==
    /\ first' = TRUE /\ step' = Off /\ mods' = FALSE
    /\ quit' = FALSE /\ post' = "none" /\ here' = here
FreshEvaluator ==
    /\ frames' = << Script(host) >>
    /\ lastStmt' = << >>
    /\ fc' = Off /\ skippable' = FALSE /\ kids' = {} /\ ticks' = 0 /\ node' = 0
StartRun ==
    /\ runs < MaxRuns /\ runs' = runs + 1
    /\ phase' = "eval" /\ PrepareForRun /\ FreshEvaluator
    /\ asked' = "none" /\ thrown' = "none" /\ late' = 0 /\ verdict' = "ok"
    /\ UNCHANGED <<host, flagVars, breaks, pauseReq, edits>>

(* DebugRepl::runPrompt *)
PromptRun == phase = "prompt" /\ StartRun
PromptQuit ==
    /\ phase = "prompt" /\ phase' = "over" /\ asked' = "quit"
    /\ UNCHANGED <<host, evalVars, sessVars, flagVars, breaks, pauseReq, runs, edits,
                   thrown, late, verdict>>

(* Evaluation stops here and unwinds every frame. *)
Throw(kind) ==
    /\ phase' = "caught" /\ thrown' = kind /\ frames' = << Head(frames) >>

(* checkDebug, up to the hook *)
CancelSeen == host = "plain" /\ cancel
CheckCancelled ==
    /\ Running /\ Checked /\ CancelSeen /\ Throw("cancel")
    /\ UNCHANGED <<host, lastStmt, kids, fc, skippable, ticks, node, sessVars, flagVars, breaks,
                   pauseReq, runs, edits, asked, late, verdict>>

CheckPassed ==
    /\ Running /\ Checked /\ ~ CancelSeen
    /\ Ignored \/ Collapsed \/ Skipped
    /\ frames' = Begin /\ lastStmt' = LastStmtAfter
    /\ verdict' = Verdict(FALSE)
    /\ UNCHANGED <<host, phase, kids, fc, skippable, ticks, node, sessVars, flagVars, breaks,
                   pauseReq, runs, edits, asked, thrown, late>>

CallsHook == Running /\ Checked /\ ~ CancelSeen /\ ~ Ignored /\ ~ Collapsed /\ ~ Skipped

(* The hook: the flag of a skippable checkpoint is tested and cleared by one
   exchange, the children's locations are left for a `child` command, and the
   hook stops the run, pauses it or lets it go on. *)
Hook ==
    /\ CallsHook
    /\ interrupt' = (interrupt /\ ~ MaySkip)
    /\ lastStmt' = LastStmtAfter
    /\ kids' = IF "kids" \in DOMAIN Op THEN Op.kids ELSE {}
    /\ verdict' = Verdict(TRUE)
    /\ \/ /\ quit /\ Throw("stopped")
          /\ UNCHANGED <<pauseReq, first, step, here, fc, skippable>>
       \/ /\ ~ quit /\ ShouldPause
          /\ phase' = "paused" /\ here' = [at |-> Op.at, depth |-> Depth]
          /\ pauseReq' = FALSE /\ first' = FALSE /\ step' = Off
          /\ frames' = Begin
          /\ UNCHANGED <<fc, skippable, thrown>>
       \/ /\ ~ quit /\ ~ ShouldPause
          /\ frames' = Begin /\ PushFastContinue(step)
          /\ UNCHANGED <<phase, pauseReq, first, step, here, thrown>>
    /\ UNCHANGED <<host, ticks, node, signalDue, cancel, breaks, mods, quit, post, runs, edits,
                   asked, late>>

------------------------------------------------------------------------------
(* The rest of evaluation.  Every operation of a compiled body first counts
   towards the next look at the cancel flag. *)
Polls == host = "plain" /\ Top.vm
(* Mutants: only calls are counted; the counter is not masked. *)
TicksOfCalls == IF Polls /\ Op.op = "call" THEN (ticks + 1) % Poll ELSE IF ticks = 0 THEN 1 ELSE ticks
TicksUnmasked == IF Polls THEN ticks + 1 ELSE ticks
TicksAfter == IF Polls THEN (ticks + 1) % Poll ELSE ticks
PollCancelled ==
    /\ Running /\ Polls /\ TicksAfter = 0 /\ cancel /\ ~ Checked
    /\ Throw("cancel") /\ ticks' = 0
    /\ UNCHANGED <<host, lastStmt, kids, fc, skippable, node, sessVars, flagVars, breaks, pauseReq,
                   runs, edits, asked, late, verdict>>

Unpolled == UNCHANGED <<host, phase, lastStmt, kids, fc, skippable, node, sessVars, flagVars, breaks,
                        pauseReq, runs, edits, asked, thrown>>
Step(fs) ==
    /\ phase = "eval" /\ ~ (Polls /\ TicksAfter = 0 /\ cancel)
    /\ ticks' = TicksAfter
    /\ late' = IF cancel /\ Polls /\ late <= Poll THEN late + 1 ELSE late
    /\ frames' = fs /\ Unpolled

Compiled ==             \* an instruction of a compiled body: no checkpoint
    /\ Running /\ Op.op \in {"stmt", "marker", "site", "forced"} /\ ~ Checked
    /\ verdict' = IF Op.op \in {"stmt", "forced"} /\ Op.at \in Top.known /\ fc # Off /\ Op.at \in fc
                  THEN "missed" ELSE "ok"
    /\ Step(Advance)

CallUser ==             \* evalUserFunction, evalUserModule
    /\ Running /\ Op.op = "call" /\ verdict' = "ok"
    /\ Step(Append(Advance, Frame(Op.to, Eligible(Op.to), TRUE, FALSE, Known)))

(* evalFunctionBodyTrampoline and recordTailCallHop: an interpreted body hops
   only into another interpreted one, in the frame it has; the callee's body
   goes on after its entry checkpoint, which only enterUserCall makes. *)
TailHop ==
    /\ Running /\ Op.op = "tail" /\ Top.vm = Eligible(Op.to) /\ verdict' = "ok"
    /\ Step([frames EXCEPT ![Len(frames)] = [@ EXCEPT !.proc = Op.to, !.known = Known,
                                                     !.pc = 2, !.begun = {}]])
TailCall ==
    /\ Running /\ Op.op = "tail" /\ Top.vm # Eligible(Op.to) /\ verdict' = "ok"
    /\ Step(Append(Advance, Frame(Op.to, Eligible(Op.to), TRUE, FALSE, Known)))

RunBlock ==             \* a child block, children(), a loop body; render() as an expression
    /\ Running /\ Op.op \in {"block", "measure"} /\ verdict' = "ok"
    /\ Step(Append(Advance, Frame(Op.to, Top.vm, FALSE, Op.op = "measure", Top.known)))

Loop ==
    /\ Running /\ Op.op = "loop" /\ verdict' = "ok"
    /\ \E n \in {Op.to, Top.pc + 1} : Step(Goto(n))

Return ==
    /\ phase = "eval" /\ AtEnd /\ Len(frames) > 1
    /\ verdict' = "ok"
    /\ ticks' = ticks /\ late' = late
    /\ frames' = SubSeq(frames, 1, Len(frames) - 1) /\ Unpolled

ResolveDone ==
    /\ phase = "eval" /\ AtEnd /\ Len(frames) = 1 /\ phase' = "generate"
    /\ UNCHANGED <<host, evalVars, sessVars, flagVars, breaks, pauseReq, runs, edits, history>>

(* generateTreeImpl: the flag is looked at between two top-level nodes. *)
GenerateNode ==
    /\ phase = "generate" /\ node < Nodes
    /\ \/ /\ CancelSeen /\ Throw("cancel") /\ UNCHANGED <<node, late>>
       \/ /\ ~ CancelSeen /\ node' = node + 1 /\ UNCHANGED <<phase, frames, thrown, late>>
    /\ UNCHANGED <<host, lastStmt, kids, fc, skippable, ticks, sessVars, flagVars, breaks, pauseReq,
                   runs, edits, asked, verdict>>
GenerateDone ==
    /\ phase = "generate" /\ node = Nodes /\ phase' = "over" /\ thrown' = "done"
    /\ UNCHANGED <<host, evalVars, sessVars, flagVars, breaks, pauseReq, runs, edits, asked, late, verdict>>

(* Evaluator::error: the error hook first, unless the session is quitting. *)
Fail ==
    /\ Running /\ Op.op = "fail" /\ verdict' = "ok"
    /\ IF Hooked /\ ~ quit
       THEN /\ phase' = "errbreak" /\ here' = [at |-> Op.at, depth |-> Depth]
            /\ UNCHANGED <<frames, thrown>>
       ELSE Throw("error") /\ here' = here
    /\ UNCHANGED <<host, lastStmt, kids, fc, skippable, ticks, node, first, step, mods, quit, post,
                   flagVars, breaks, pauseReq, runs, edits, asked, late>>

(* cli_lib.cpp: the catch of EvalError around evaluate().  The bindings hand
   the exception to their caller. *)
Caught ==
    /\ phase = "caught"
    /\ IF host = "repl" /\ thrown = "stopped" /\ post \in {"stop", "restart"}
       THEN \/ /\ post = "stop" /\ phase' = "prompt" /\ post' = "none"
               /\ UNCHANGED <<host, evalVars, first, step, mods, quit, here, flagVars, breaks, pauseReq,
                              runs, edits, history>>
            \/ /\ post = "restart" /\ StartRun
       ELSE /\ phase' = "over" /\ post' = IF thrown = "stopped" THEN "none" ELSE post
            /\ UNCHANGED <<host, evalVars, first, step, mods, quit, here, flagVars, breaks, pauseReq,
                           runs, edits, history>>

------------------------------------------------------------------------------
(* The prompt: DebugRepl::interact, or the GUI's pause.  At an error only the
   inspection matters: whatever is answered, the error is thrown. *)
AtPrompt == phase \in {"paused", "errbreak"}

StepCommand(cmd) ==
    [cmd |-> cmd, at |-> here.at, depth |-> here.depth,
     targets |-> IF cmd = "child" THEN kids ELSE {}]

Leave == IF phase = "errbreak" THEN Throw("error")
         ELSE phase' = "eval" /\ UNCHANGED <<frames, thrown>>

Resume ==               \* continue, step, next, finish, child
    /\ AtPrompt
    /\ \E cmd \in {"continue", "into", "over", "out", "child"} :
         LET s == IF cmd = "continue" THEN step ELSE StepCommand(cmd)
         IN step' = s /\ PushFastContinue(s)
    /\ mods' = FALSE /\ Leave /\ verdict' = "ok"
    /\ UNCHANGED <<host, lastStmt, kids, ticks, node, first, quit, post, here, flagVars, breaks,
                   pauseReq, runs, edits, asked, late>>

StopCommand ==          \* stop, restart, quit
    /\ AtPrompt
    /\ \E cmd \in IF host = "repl" THEN {"stop", "restart", "quit"} ELSE {"stop"} :
         /\ IF host = "repl" THEN quit' = TRUE /\ post' = cmd ELSE UNCHANGED <<quit, post>>
         /\ asked' = IF phase = "paused" THEN cmd ELSE asked
    /\ Throw(IF phase = "paused" THEN "stopped" ELSE "error")
    /\ verdict' = "ok"
    /\ UNCHANGED <<host, lastStmt, kids, fc, skippable, ticks, node, first, step, mods, here, flagVars,
                   breaks, pauseReq, runs, edits, late>>

SetVar ==
    /\ AtPrompt /\ ~ mods /\ edits < MaxEdits /\ edits' = edits + 1 /\ mods' = TRUE
    /\ UNCHANGED <<host, phase, evalVars, first, step, quit, post, here, flagVars, breaks, pauseReq,
                   runs, history>>

(* break and delete at a prompt; in the GUI an editor tab at any moment, whose
   owner then calls request() on the interrupt flag. *)
EditBreak ==
    /\ edits < MaxEdits /\ edits' = edits + 1
    /\ \/ host = "repl" /\ (AtPrompt \/ phase = "prompt")
       \/ host = "gui" /\ phase # "over"
    /\ \E b \in BreakLocs : breaks' = IF b \in breaks THEN breaks \ {b} ELSE breaks \union {b}
    /\ signalDue' = (host = "gui")
    /\ UNCHANGED <<host, phase, evalVars, sessVars, interrupt, cancel, pauseReq, runs, history>>

RequestPause ==         \* Ctrl+C, the Pause button
    /\ edits < MaxEdits /\ edits' = edits + 1
    /\ Hooked /\ phase # "over" /\ pauseReq' = TRUE /\ signalDue' = (host = "gui")
    /\ UNCHANGED <<host, phase, evalVars, sessVars, interrupt, cancel, breaks, runs, history>>

Signal ==               \* FastContinueSignal::request
    /\ signalDue /\ interrupt' = TRUE /\ signalDue' = FALSE
    /\ UNCHANGED <<host, phase, evalVars, sessVars, cancel, breaks, pauseReq, runs, edits, history>>

RequestCancel ==        \* CancelSignal::request
    /\ host = "plain" /\ ~ cancel /\ phase # "over" /\ cancel' = TRUE
    /\ UNCHANGED <<host, phase, evalVars, sessVars, interrupt, signalDue, breaks, pauseReq, runs, edits,
                   history>>

Evaluate ==
    \/ CheckCancelled \/ CheckPassed \/ Hook \/ PollCancelled \/ Compiled
    \/ CallUser \/ TailHop \/ TailCall \/ RunBlock \/ Loop \/ Return \/ Fail
    \/ ResolveDone \/ GenerateNode \/ GenerateDone \/ Caught
User == PromptRun \/ PromptQuit \/ Resume \/ StopCommand \/ SetVar \/ EditBreak
        \/ RequestPause \/ RequestCancel
Next == Evaluate \/ User \/ Signal

------------------------------------------------------------------------------
TypeOK ==
    /\ host \in Hosts
    /\ phase \in {"prompt", "eval", "paused", "errbreak", "generate", "caught", "over"}
    /\ \A i \in DOMAIN frames :
         /\ frames[i].proc \in Procs /\ frames[i].pc \in 1..(Len(Body[frames[i].proc]) + 1)
         /\ frames[i].known \subseteq BreakLocs
    /\ Len(frames) >= 1 /\ DOMAIN lastStmt \subseteq Nat
    /\ fc = Off \/ fc \subseteq BreakLocs
    /\ breaks \subseteq BreakLocs /\ ticks \in 0..(Poll - 1) /\ node \in 0..Nodes
    /\ {skippable, interrupt, signalDue, cancel, first, pauseReq, mods, quit} \subseteq BOOLEAN
    /\ post \in {"none", "stop", "restart", "quit"}

(* Where a script's call sites are.  current[p][i] is the statement whose
   checkpoint was the last at its depth when operation i of p comes, if that is
   known; a call site belongs to it.  hops[p] are the statements that a tail call
   may leave for p: no call of p is on the line of one of them. *)
SitesPlaced(current, hops) ==
    \A p \in Procs :
        /\ current[p][1] = NoLoc
        /\ \A i \in DOMAIN Body[p] :
             LET o == Body[p][i]
                 next == IF o.op = "loop" THEN {i + 1, o.to} ELSE {i + 1}
             IN  /\ \A j \in next :
                      current[p][j] = NoLoc \/
                      CASE o.op \in {"entry", "stmt"} -> current[p][j] = o.at
                        [] o.op \in {"forced", "block"} -> FALSE
                        [] OTHER -> current[p][j] = current[p][i]
                 /\ o.op \in {"site", "tail"} => current[p][i] # NoLoc
                 /\ o.op = "site" => o.of = current[p][i] /\ o.at \notin hops[p]
                 /\ o.op = "tail" => {current[p][i]} \union hops[p] \subseteq hops[o.to]

(* The call-site stop exists so that stepping pauses on a call, and is dropped
   when the statement it belongs to stopped on that very line: no execution of
   a line stops twice, and no call on a line of its own loses its stop - with
   the checkpoints of the callee's body, of child blocks and of a render()
   expression in between (debug_profile.cpp:111-120, evaluator.hpp:734-739). *)
CallSitesStopOnce == verdict \notin {"twice", "lost"}

(* In fast-continue mode no statement on a line the evaluator knew for a
   breakpoint when the body was entered, and still does, runs without the
   hook: neither skipped at a checkpoint nor inside a compiled body. *)
BreakpointsNotMissed == verdict # "missed"

(* The session does what was asked: the program ends only at the end of a
   run, at an error of the script or on a quit; it returns to the first prompt
   only on a stop; and a run that was aborted had been told to. *)
RequestHonoured ==
    /\ phase = "over" => thrown \in {"done", "error", "cancel"} \/ asked \in {"quit", "stop"}
    /\ phase = "over" /\ host = "repl" => thrown \in {"done", "error"} \/ asked = "quit"
    /\ phase = "prompt" => asked = (IF runs = 0 THEN "none" ELSE "stop")

(* A variable set at a prompt is applied on leaving that prompt or never: no
   later statement, run or scope receives it (debug_repl.cpp:659-677). *)
ModsStayAtTheirPrompt == phase \in {"eval", "generate"} => ~ mods

(* After a cancel request at most Poll compiled instructions run. *)
CancelPrompt == late <= Poll

(* A cancel request ends the evaluation, whatever the script loops over, in
   the interpreter, in compiled code and between the nodes of the generate
   pass (evaluator.hpp:773-789). *)
CancelHonoured == cancel ~> phase = "over"

(* A pause request stops the script at a prompt, ends with the run, or finds
   it inside a compiled body, which has no checkpoint. *)
PauseHonoured ==
    pauseReq /\ phase = "eval" ~> AtPrompt \/ phase \in {"prompt", "over"} \/ Top.vm

(* A breakpoint edited while the script runs reaches the evaluator, which can
   be skipping every checkpoint at that moment (evaluator.hpp:741-771). *)
EditsReachEvaluator ==
    phase = "eval" /\ fc # Off /\ fc # breaks ~> fc = Off \/ fc = breaks \/ phase # "eval" \/ Top.vm

(* The evaluation thread and the host's call of request() are scheduled; a
   user need never do anything. *)
Spec == Init /\ [][Next]_vars /\ WF_vars(Evaluate) /\ WF_vars(Signal)

(* Stepping and breakpoints stop where they should and as often. *)
StopsExact == CallSitesStopOnce /\ BreakpointsNotMissed

(* What a prompt was told takes effect once and at once: requests end the run
   they were made in, sets stay at their prompt, a cancel runs no further than
   one polling interval. *)
SessionSound == RequestHonoured /\ ModsStayAtTheirPrompt /\ CancelPrompt

(***************************************************************************)
(* The inductive invariant behind SessionSound.                            *)
(***************************************************************************)
(* Only the command line has a first prompt, only a debugger has prompts,  *)
(* and past the first prompt a run has been made.                          *)
HostsPhases ==
    /\ runs \in Nat
    /\ host = "plain" => phase \notin {"prompt", "paused", "errbreak"}
    /\ phase = "prompt" => host = "repl"
    /\ host = "repl" /\ phase \notin {"prompt", "over"} => runs > 0

(* An evaluation that goes on was not told to end, and one that was ends   *)
(* with what it was told.                                                  *)
RequestPending ==
    /\ phase \in {"eval", "paused", "errbreak", "generate"} => ~ quit
    /\ phase = "caught" =>
         /\ thrown \in {"error", "stopped", "cancel"}
         /\ thrown = "cancel" => host = "plain"
         /\ thrown = "stopped" =>
              /\ host # "plain" /\ asked \in {"stop", "restart", "quit"}
              /\ asked = IF host = "repl" THEN post ELSE "stop"

(* Before a cancel request nothing counts as late, and after it every      *)
(* instruction that does is one towards the next look at the flag.         *)
LateCounted ==
    /\ ticks \in 0..(Poll - 1) /\ late \in 0..(Poll - 1)
    /\ ~ cancel => late = 0
    /\ phase \in {"eval", "paused"} => late <= ticks

SessionInv ==
    RequestHonoured /\ ModsStayAtTheirPrompt /\ HostsPhases /\ RequestPending /\ LateCounted
==============================================================================

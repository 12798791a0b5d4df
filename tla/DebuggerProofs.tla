--------------------------- MODULE DebuggerProofs ---------------------------
(***************************************************************************)
(* SessionSound, for every script, every host and every bound: requests  *)
(* made at a prompt are obeyed and end the run they were made in, sets   *)
(* stay at their prompt, and a cancel request is seen within one polling *)
(* interval.                                                             *)
(*                                                                       *)
(* None of it depends on what the script is: SessionInv speaks of the    *)
(* host's loop, of the exception that unwinds an evaluation and of the two *)
(* counters.  A request that ended an evaluation is still the last one   *)
(* made when its exception reaches the host (RequestPending), and a cancel *)
(* is late by at most the instructions counted since (LateCounted), which  *)
(* the mask keeps below Poll until the flag is looked at.                *)
(*                                                                       *)
(* StopsExact does: StopsInv follows into compiled bodies what the       *)
(* evaluator knew of breakpoints, and SitesInv what lastStmtByDepth_ holds*)
(* for each activation in a statement, however deep it calls in between. *)
(***************************************************************************)
EXTENDS Debugger, FiniteSetTheorems, SequenceTheorems, TLAPS

(* An instruction of a compiled body moves both counters by one, unless  *)
(* the flag was not set, or it would be looked at: LateCounted stays.    *)
LEMMA StepCountsLate ==
  ASSUME LateCounted, NEW fs, Step(fs)
  PROVE  LateCounted'
<1>1. Poll \in Nat \ {0}
  BY DebuggerAssumption
<1>2. UNCHANGED <<phase, cancel>> /\ phase = "eval"
  BY DEF Step, Unpolled, flagVars
<1>3. CASE ~ Polls
  <2>1. UNCHANGED <<ticks, late>>
    BY <1>3 DEF Step, TicksAfter
  <2> QED
    BY <1>2, <2>1 DEF LateCounted
<1>4. CASE Polls
  <2>1. ticks' = (ticks + 1) % Poll
    BY <1>4 DEF Step, TicksAfter
  <2>2. ticks' \in 0..(Poll - 1)
    BY <1>1, <2>1 DEF LateCounted
  <2>3. CASE ~ cancel
    <3>1. late' = late /\ late = 0
      BY <2>3 DEF Step, LateCounted
    <3> QED
      BY <1>1, <1>2, <2>2, <2>3, <3>1 DEF LateCounted
  <2>4. CASE cancel
    <3>1. ticks' # 0
      BY <1>4, <2>4, <2>1 DEF Step, TicksAfter
    <3>2. ticks' = ticks + 1
      BY <1>1, <2>1, <3>1 DEF LateCounted
    <3>3. late' = late + 1
      BY <1>1, <1>4, <2>4 DEF Step, LateCounted
    <3> QED
      BY <1>1, <1>2, <2>2, <2>4, <3>2, <3>3 DEF LateCounted
  <2> QED
    BY <2>3, <2>4
<1> QED
  BY <1>3, <1>4

(* An instruction concerns nothing else of the invariant.                *)
LEMMA StepKeepsSession ==
  ASSUME SessionInv, NEW fs, Step(fs)
  PROVE  SessionInv'
<1>1. LateCounted'
  BY StepCountsLate DEF SessionInv
<1> QED
  BY <1>1 DEF SessionInv, RequestHonoured, ModsStayAtTheirPrompt, HostsPhases, RequestPending, Step, Unpolled, sessVars

(* The invariant holds before the first run.                             *)
LEMMA InitSession ==
  ASSUME Init
  PROVE  SessionInv
BY DebuggerAssumption DEF Init, SessionInv, RequestHonoured, ModsStayAtTheirPrompt, HostsPhases, RequestPending, LateCounted

(* Every action keeps it.                                                *)
LEMMA NextSession ==
  ASSUME SessionInv, [Next]_vars
  PROVE  SessionInv'
<1>0. Poll \in Nat \ {0}
  BY DebuggerAssumption
<1>1. CASE CheckCancelled
  BY <1>0, <1>1 DEF CheckCancelled, Running, Throw, CancelSeen,
     SessionInv, RequestHonoured, ModsStayAtTheirPrompt, HostsPhases, RequestPending, LateCounted,
     evalVars, sessVars, flagVars, history
<1>2. CASE CheckPassed
  BY <1>0, <1>2 DEF CheckPassed, Running,
     SessionInv, RequestHonoured, ModsStayAtTheirPrompt, HostsPhases, RequestPending, LateCounted,
     evalVars, sessVars, flagVars, history
<1>3. CASE Hook
  <2>1. phase = "eval" /\ host # "plain"
    BY <1>3 DEF Hook, CallsHook, Running, Ignored, Hooked
  <2>2. ~ quit
    BY <2>1 DEF SessionInv, RequestPending
  <2>3. phase' \in {"eval", "paused"}
    BY <1>3, <2>1, <2>2 DEF Hook
  <2>4. UNCHANGED <<host, ticks, cancel, mods, quit, post, runs, asked, late>>
    BY <1>3 DEF Hook
  <2> QED
    BY <2>1, <2>2, <2>3, <2>4 DEF SessionInv, RequestHonoured, ModsStayAtTheirPrompt, HostsPhases, RequestPending, LateCounted
<1>4. CASE PollCancelled
  BY <1>0, <1>4 DEF PollCancelled, Running, Polls, Throw,
     SessionInv, RequestHonoured, ModsStayAtTheirPrompt, HostsPhases, RequestPending, LateCounted,
     evalVars, sessVars, flagVars, history
<1>5. CASE Compiled
  BY <1>5, StepKeepsSession DEF Compiled
<1>6. CASE CallUser
  BY <1>6, StepKeepsSession DEF CallUser
<1>7. CASE TailHop
  BY <1>7, StepKeepsSession DEF TailHop
<1>8. CASE TailCall
  BY <1>8, StepKeepsSession DEF TailCall
<1>9. CASE RunBlock
  BY <1>9, StepKeepsSession DEF RunBlock
<1>10. CASE Loop
  BY <1>10, StepKeepsSession DEF Loop
<1>11. CASE Return
  BY <1>0, <1>11 DEF Return, Unpolled,
     SessionInv, RequestHonoured, ModsStayAtTheirPrompt, HostsPhases, RequestPending, LateCounted,
     evalVars, sessVars, flagVars, history
<1>12. CASE Fail
  <2>1. phase = "eval"
    BY <1>12 DEF Fail, Running
  <2>2. \/ phase' = "errbreak" /\ host # "plain"
        \/ phase' = "caught" /\ thrown' = "error"
    BY <1>12 DEF Fail, Throw, Hooked
  <2>3. UNCHANGED <<host, ticks, cancel, mods, quit, post, runs, asked, late>>
    BY <1>12 DEF Fail, flagVars
  <2> QED
    BY <2>1, <2>2, <2>3 DEF SessionInv, RequestHonoured, ModsStayAtTheirPrompt, HostsPhases, RequestPending, LateCounted
<1>13. CASE ResolveDone
  BY <1>0, <1>13 DEF ResolveDone,
     SessionInv, RequestHonoured, ModsStayAtTheirPrompt, HostsPhases, RequestPending, LateCounted,
     evalVars, sessVars, flagVars, history
<1>14. CASE GenerateNode
  BY <1>0, <1>14 DEF GenerateNode, Throw, CancelSeen,
     SessionInv, RequestHonoured, ModsStayAtTheirPrompt, HostsPhases, RequestPending, LateCounted,
     evalVars, sessVars, flagVars, history
<1>15. CASE GenerateDone
  BY <1>0, <1>15 DEF GenerateDone,
     SessionInv, RequestHonoured, ModsStayAtTheirPrompt, HostsPhases, RequestPending, LateCounted,
     evalVars, sessVars, flagVars, history
<1>16. CASE Caught
  BY <1>0, <1>16 DEF Caught, StartRun, PrepareForRun, FreshEvaluator,
     SessionInv, RequestHonoured, ModsStayAtTheirPrompt, HostsPhases, RequestPending, LateCounted,
     evalVars, sessVars, flagVars, history
<1>17. CASE PromptRun
  BY <1>0, <1>17 DEF PromptRun, StartRun, PrepareForRun, FreshEvaluator,
     SessionInv, RequestHonoured, ModsStayAtTheirPrompt, HostsPhases, RequestPending, LateCounted,
     evalVars, sessVars, flagVars, history
<1>18. CASE PromptQuit
  BY <1>0, <1>18 DEF PromptQuit,
     SessionInv, RequestHonoured, ModsStayAtTheirPrompt, HostsPhases, RequestPending, LateCounted,
     evalVars, sessVars, flagVars, history
<1>19. CASE Resume
  <2>1. phase \in {"paused", "errbreak"}
    BY <1>19 DEF Resume, AtPrompt
  <2>2. \/ phase' = "eval" /\ phase = "paused"
        \/ phase' = "caught" /\ thrown' = "error"
    BY <1>19, <2>1 DEF Resume, Leave, Throw
  <2>3. UNCHANGED <<host, ticks, cancel, quit, post, runs, asked, late>> /\ ~ mods'
    BY <1>19 DEF Resume, flagVars
  <2> QED
    BY <2>1, <2>2, <2>3 DEF SessionInv, RequestHonoured, ModsStayAtTheirPrompt, HostsPhases, RequestPending, LateCounted
<1>20. CASE StopCommand
  BY <1>0, <1>20 DEF StopCommand, AtPrompt, Throw,
     SessionInv, RequestHonoured, ModsStayAtTheirPrompt, HostsPhases, RequestPending, LateCounted,
     evalVars, sessVars, flagVars, history
<1>21. CASE SetVar
  BY <1>0, <1>21 DEF SetVar, AtPrompt,
     SessionInv, RequestHonoured, ModsStayAtTheirPrompt, HostsPhases, RequestPending, LateCounted,
     evalVars, sessVars, flagVars, history
<1>22. CASE EditBreak
  BY <1>0, <1>22 DEF EditBreak,
     SessionInv, RequestHonoured, ModsStayAtTheirPrompt, HostsPhases, RequestPending, LateCounted,
     evalVars, sessVars, flagVars, history
<1>23. CASE RequestPause
  BY <1>0, <1>23 DEF RequestPause,
     SessionInv, RequestHonoured, ModsStayAtTheirPrompt, HostsPhases, RequestPending, LateCounted,
     evalVars, sessVars, flagVars, history
<1>24. CASE RequestCancel
  BY <1>0, <1>24 DEF RequestCancel,
     SessionInv, RequestHonoured, ModsStayAtTheirPrompt, HostsPhases, RequestPending, LateCounted,
     evalVars, sessVars, flagVars, history
<1>25. CASE Signal
  BY <1>0, <1>25 DEF Signal,
     SessionInv, RequestHonoured, ModsStayAtTheirPrompt, HostsPhases, RequestPending, LateCounted,
     evalVars, sessVars, flagVars, history
<1>26. CASE UNCHANGED vars
  BY <1>26 DEF vars, SessionInv, RequestHonoured, ModsStayAtTheirPrompt, HostsPhases, RequestPending, LateCounted,
     evalVars, sessVars, flagVars, history
<1> QED
  BY <1>1, <1>2, <1>3, <1>4, <1>5, <1>6, <1>7, <1>8, <1>9, <1>10, <1>11, <1>12, <1>13, <1>14, <1>15, <1>16, <1>17, <1>18, <1>19, <1>20, <1>21, <1>22, <1>23, <1>24, <1>25, <1>26
     DEF Next, Evaluate, User

(* The session is sound, whatever the script, the hosts and the bounds:  *)
(* a program ends and a run is left only as was asked, a variable set at a *)
(* prompt is applied on leaving it or never, and a cancel request is seen  *)
(* within one polling interval (debug_repl.cpp:659-677, cli_lib.cpp's    *)
(* catch of EvalError, evaluator.hpp:773-789).                           *)
THEOREM SessionStaysSound == Spec => []SessionSound
<1>1. Init => SessionInv
  BY InitSession
<1>2. SessionInv /\ [Next]_vars => SessionInv'
  BY NextSession
<1>3. SessionInv => SessionSound
  BY DebuggerAssumption DEF SessionInv, LateCounted, SessionSound, CancelPrompt
<1> QED
  BY <1>1, <1>2, <1>3, PTL DEF Spec


-----------------------------------------------------------------------------
(* Breakpoints and compiled bodies                                       *)

Marks == UNION {{Body[p][i].at : i \in DOMAIN Body[p]} : p \in Procs}
Activations ==
    [proc : Procs, pc : Nat \ {0}, vm : BOOLEAN, call : BOOLEAN, measuring : BOOLEAN,
     known : SUBSET BreakLocs, begun : SUBSET Marks]

(* A function that runs compiled has no line of which the debugger knew  *)
(* for a breakpoint when the body was entered.                           *)
Clear(a) ==
    a.vm /\ Kind[a.proc] = "function" /\ Hooked => \A b \in a.known : ~ InChunk(b, a.proc)

FramesClear(fs) == \A i \in 1..Len(fs) : Clear(fs[i])

(* The evaluator is given breakpoints by a debugger only.                *)
KnowsBreakpoints ==
    /\ breaks \subseteq BreakLocs
    /\ fc # Off => fc \subseteq BreakLocs /\ Hooked

StopsInv ==
    /\ frames \in Seq(Activations) /\ frames # <<>> /\ FramesClear(frames)
    /\ KnowsBreakpoints
    /\ BreakpointsNotMissed

(* Sequences of activations: the running one is there, and changing it,  *)
(* entering another and leaving keep what holds of each.                 *)
LEMMA RunningFrame ==
  ASSUME StopsInv
  PROVE  /\ Len(frames) \in Nat \ {0} /\ Top \in Activations /\ Clear(Top)
         /\ Ops = Body[Top.proc] /\ Top.proc \in Procs /\ Len(Ops) \in Nat
<1>1. frames \in Seq(Activations) /\ frames # <<>> /\ FramesClear(frames)
  BY DEF StopsInv
<1>2. Len(frames) \in Nat \ {0}
  BY <1>1, EmptySeq
<1>3. Top \in Activations
  BY <1>1, <1>2, ElementOfSeq DEF Top
<1>4. Clear(Top)
  BY <1>1, <1>2 DEF FramesClear, Top
<1>5. Top.proc \in Procs
  BY <1>3 DEF Activations
<1> QED
  BY <1>2, <1>3, <1>4, <1>5, ScriptAssumption DEF Ops

LEMMA FrameEntered ==
  ASSUME NEW fs \in Seq(Activations), FramesClear(fs),
         NEW a \in Activations, Clear(a)
  PROVE  /\ Append(fs, a) \in Seq(Activations) /\ Append(fs, a) # <<>>
         /\ FramesClear(Append(fs, a))
<1> PICK n \in Nat : n = Len(fs)
  OBVIOUS
<1>1. /\ Append(fs, a) \in Seq(Activations) /\ Len(Append(fs, a)) = n + 1
      /\ Append(fs, a)[n + 1] = a /\ \A i \in 1..n : Append(fs, a)[i] = fs[i]
  BY AppendProperties
<1>2. ASSUME NEW i \in 1..(n + 1) PROVE Clear(Append(fs, a)[i])
  <2>1. CASE i = n + 1
    BY <1>1, <2>1
  <2>2. CASE i \in 1..n
    BY <1>1, <2>2 DEF FramesClear
  <2> QED
    BY <2>1, <2>2
<1>3. Append(fs, a) # <<>>
  BY <1>1, EmptySeq
<1> QED
  BY <1>1, <1>2, <1>3 DEF FramesClear

LEMMA FrameChanged ==
  ASSUME StopsInv, NEW a \in Activations, Clear(a), NEW fs,
         fs = [frames EXCEPT ![Len(frames)] = a]
  PROVE  fs \in Seq(Activations) /\ fs # <<>> /\ FramesClear(fs)
<1>0. frames \in Seq(Activations) /\ FramesClear(frames)
  BY DEF StopsInv
<1> PICK n \in Nat \ {0} : n = Len(frames)
  BY RunningFrame
<1>1. /\ fs \in Seq(Activations) /\ Len(fs) = n
      /\ fs[n] = a /\ \A i \in 1..(n - 1) : fs[i] = frames[i]
  BY <1>0, ExceptSeq
<1>2. ASSUME NEW i \in 1..n PROVE Clear(fs[i])
  <2>1. CASE i = n
    BY <1>1, <2>1
  <2>2. CASE i \in 1..(n - 1)
    BY <1>0, <1>1, <2>2 DEF FramesClear
  <2> QED
    BY <2>1, <2>2
<1>3. fs # <<>>
  BY <1>1, EmptySeq
<1> QED
  BY <1>1, <1>2, <1>3 DEF FramesClear

LEMMA FrameLeft ==
  ASSUME StopsInv, NEW n \in Nat \ {0}, n <= Len(frames), NEW fs,
         fs = SubSeq(frames, 1, n)
  PROVE  fs \in Seq(Activations) /\ fs # <<>> /\ FramesClear(fs)
<1>0. frames \in Seq(Activations) /\ FramesClear(frames)
  BY DEF StopsInv
<1>1. /\ fs \in Seq(Activations) /\ Len(fs) = n /\ \A i \in 1..n : fs[i] = frames[i]
  BY <1>0, SubSeqProperties
<1>2. \A i \in 1..n : Clear(fs[i])
  BY <1>0, <1>1 DEF FramesClear
<1>3. fs # <<>>
  BY <1>1, EmptySeq
<1> QED
  BY <1>1, <1>2, <1>3 DEF FramesClear


(* What an action must see to.                                           *)
LEMMA StopsKept ==
  ASSUME StopsInv, host' = host, breaks' \in SUBSET BreakLocs,
         fc' = fc \/ (Hooked /\ fc' \in {Off, breaks}),
         frames' \in Seq(Activations), frames' # <<>>, FramesClear(frames'),
         verdict' # "missed"
  PROVE  StopsInv'
<1>1. FramesClear(frames)'
  BY DEF FramesClear, Clear, Hooked
<1>2. KnowsBreakpoints'
  BY DEF StopsInv, KnowsBreakpoints, Hooked
<1> QED
  BY <1>1, <1>2 DEF StopsInv, BreakpointsNotMissed

LEMMA StopsSame ==
  ASSUME StopsInv, host' = host, breaks' = breaks, fc' = fc,
         frames' = frames, verdict' # "missed"
  PROVE  StopsInv'
BY StopsKept DEF StopsInv, KnowsBreakpoints

(* An exception leaves the script's own activation.                      *)
LEMMA StopsAfterThrow ==
  ASSUME StopsInv, NEW k, Throw(k), host' = host, breaks' = breaks, fc' = fc,
         verdict' # "missed"
  PROVE  StopsInv'
<1>1. frames' = <<frames[1]>>
  BY DEF Throw, StopsInv
<1>2. frames[1] \in Activations /\ Clear(frames[1])
  <2>1. 1 \in 1..Len(frames)
    BY RunningFrame
  <2> QED
    BY <2>1, ElementOfSeq DEF StopsInv, FramesClear
<1>3. frames' \in Seq(Activations) /\ frames' # <<>> /\ FramesClear(frames')
  BY <1>1, <1>2 DEF FramesClear
<1> QED
  BY <1>3, StopsKept DEF StopsInv, KnowsBreakpoints

(* The operation about to run is one of its procedure's.                 *)
LEMMA RunningOperation ==
  ASSUME StopsInv, Running
  PROVE  /\ Top.pc \in DOMAIN Ops /\ Top.pc \in 1..Len(Ops)
         /\ OperationOK(Top.proc, Op) /\ Op.at \in Marks
<1>1. /\ Top \in Activations /\ Ops = Body[Top.proc] /\ Top.proc \in Procs
      /\ Len(Ops) \in Nat
  BY RunningFrame
<1>2. Top.pc \in 1..Len(Ops)
  BY <1>1 DEF Running, AtEnd, Activations
<1>3. DOMAIN Ops = 1..Len(Ops) /\ \A i \in DOMAIN Ops : OperationOK(Top.proc, Ops[i])
  BY <1>1, ScriptAssumption
<1>4. Op.at \in Marks
  BY <1>1, <1>2, <1>3 DEF Marks, Op
<1> QED
  BY <1>2, <1>3, <1>4 DEF Op

(* Going on in the running activation.                                   *)
LEMMA Moved ==
  ASSUME StopsInv, NEW n \in Nat \ {0}
  PROVE  Goto(n) \in Seq(Activations) /\ Goto(n) # <<>> /\ FramesClear(Goto(n))
<1> DEFINE a == [Top EXCEPT !.pc = n]
<1>1. Top \in Activations /\ Clear(Top)
  BY RunningFrame
<1>2. a \in Activations /\ Clear(a)
  BY <1>1 DEF Activations, Clear
<1>3. Goto(n) = [frames EXCEPT ![Len(frames)] = a]
  BY DEF Goto, Top
<1> HIDE DEF a
<1> QED
  BY <1>2, <1>3, FrameChanged

LEMMA Advanced ==
  ASSUME StopsInv
  PROVE  /\ Advance \in Seq(Activations) /\ Advance # <<>> /\ FramesClear(Advance)
<1>1. Top.pc + 1 \in Nat \ {0}
  BY RunningFrame DEF Activations
<1> QED
  BY <1>1, Moved DEF Advance

LEMMA ChangedActivation ==
  ASSUME NEW a \in Activations, NEW n \in Nat \ {0}, NEW bs \in SUBSET Marks
  PROVE  [a EXCEPT !.pc = n, !.begun = bs] \in Activations
<1>1. [a EXCEPT !.pc = n] \in Activations
  BY DEF Activations
<1> QED
  BY <1>1 DEF Activations

LEMMA Begun ==
  ASSUME StopsInv, Running
  PROVE  Begin \in Seq(Activations) /\ Begin # <<>> /\ FramesClear(Begin)
<1>1. CASE Begin = Advance
  BY <1>1, Advanced
<1>2. CASE Begin # Advance
  <2> DEFINE a == [Top EXCEPT !.pc = Top.pc + 1, !.begun = @ \union {Op.at}]
  <2>1. Top \in Activations /\ Clear(Top) /\ Len(frames) \in Nat \ {0}
    BY RunningFrame
  <2>2. Op.at \in Marks
    BY RunningOperation
  <2>3. a \in Activations
    <3> DEFINE bs == Top.begun \union {Op.at}
    <3>1. bs \in SUBSET Marks
      BY <2>1, <2>2 DEF Activations
    <3>2. a = [Top EXCEPT !.pc = Top.pc + 1, !.begun = bs]
      OBVIOUS
    <3>3. Top.pc + 1 \in Nat \ {0}
      BY <2>1 DEF Activations
    <3> HIDE DEF a, bs
    <3> QED
      BY <2>1, <3>1, <3>2, <3>3, ChangedActivation
  <2>4. Clear(a)
    BY <2>1 DEF Activations, Clear
  <2>5. Begin = [Advance EXCEPT ![Len(frames)].begun = @ \union {Op.at}]
    BY <1>2 DEF Begin
  <2>6. frames \in Seq(Activations)
    BY DEF StopsInv
  <2>7. Begin = [frames EXCEPT ![Len(frames)] = a]
    BY <2>1, <2>5, <2>6 DEF Advance, Goto, Top, Activations
  <2> HIDE DEF a
  <2> QED
    BY <2>3, <2>4, <2>7, FrameChanged
<1> QED
  BY <1>1, <1>2

(* Entering another activation, compiled only if it may be.              *)
LEMMA FreshClear ==
  ASSUME StopsInv, NEW p \in Procs, NEW vm \in BOOLEAN, NEW call \in BOOLEAN,
         NEW m \in BOOLEAN, vm => Eligible(p)
  PROVE  /\ Frame(p, vm, call, m, Known) \in Activations
         /\ Clear(Frame(p, vm, call, m, Known))
<1>1. Known \in SUBSET BreakLocs
  BY DEF Known, StopsInv, KnowsBreakpoints
<1>2. vm /\ Hooked => \A b \in Known : ~ InChunk(b, p)
  BY DEF Eligible, Known
<1> QED
  BY <1>1, <1>2 DEF Frame, Activations, Clear


(* An operation that passes no checkpoint.                               *)
LEMMA StepKept ==
  ASSUME StopsInv, NEW fs, Step(fs), verdict' # "missed",
         fs \in Seq(Activations), fs # <<>>, FramesClear(fs)
  PROVE  StopsInv'
BY StopsKept DEF Step, Unpolled, StopsInv, KnowsBreakpoints

(* A compiled function has no statement on a line the debugger knew.     *)
LEMMA CompiledStops ==
  ASSUME StopsInv, Compiled
  PROVE  StopsInv'
<1>1. /\ Top \in Activations /\ Clear(Top) /\ Top.proc \in Procs
  BY RunningFrame
<1>2. Running /\ ~ Checked /\ Step(Advance)
  BY DEF Compiled
<1>3. OperationOK(Top.proc, Op)
  BY <1>2, RunningOperation
<1>4. ASSUME Op.op \in {"stmt", "forced"}, Op.at \in Top.known, fc # Off, Op.at \in fc
      PROVE  FALSE
  <2>1. Top.vm /\ Kind[Top.proc] # "module"
    BY <1>2, <1>4 DEF Checked
  <2>2. Kind[Top.proc] = "function"
    BY <1>1, <2>1, DebuggerAssumption
  <2>3. Hooked
    BY <1>4 DEF StopsInv, KnowsBreakpoints
  <2> QED
    BY <1>1, <1>3, <1>4, <2>1, <2>2, <2>3 DEF Clear, OperationOK
<1>5. verdict' # "missed"
  BY <1>4 DEF Compiled
<1> QED
  BY <1>2, <1>5, Advanced, StepKept

(* A checkpoint that goes by unseen is not at a breakpoint.              *)
LEMMA CheckpointStops ==
  ASSUME StopsInv, CheckPassed
  PROVE  StopsInv'
<1>1. Running /\ (Ignored \/ Collapsed \/ Skipped) /\ verdict' = Verdict(FALSE)
  BY DEF CheckPassed
<1>2. Verdict(FALSE) # "missed"
  <2>1. CASE Ignored \/ ExprLevel
    BY <2>1 DEF Verdict
  <2>2. CASE ~ (Ignored \/ ExprLevel) /\ CallSite
    BY <2>2 DEF Verdict
  <2>3. CASE ~ (Ignored \/ ExprLevel) /\ ~ CallSite
    <3>1. Op.at \notin fc
      BY <1>1, <2>3 DEF Collapsed, Skipped
    <3> QED
      BY <2>3, <3>1 DEF Verdict
  <2> QED
    BY <2>1, <2>2, <2>3
<1>3. frames' = Begin
  BY DEF CheckPassed
<1>4. UNCHANGED <<host, fc, breaks>>
  BY DEF CheckPassed
<1>5. frames' \in Seq(Activations) /\ frames' # <<>> /\ FramesClear(frames')
  BY <1>1, <1>3, Begun
<1> QED
  BY <1>1, <1>2, <1>4, <1>5, StopsKept DEF StopsInv, KnowsBreakpoints

(* A checkpoint that calls the hook stops there if it has to.            *)
LEMMA HookStops ==
  ASSUME StopsInv, Hook
  PROVE  StopsInv'
<1>1. Running /\ Hooked
  BY DEF Hook, CallsHook, Ignored
<1>2. verdict' # "missed"
  <2>1. verdict' = Verdict(TRUE)
    BY DEF Hook
  <2>2. Verdict(TRUE) # "missed"
    BY DEF Verdict
  <2> QED
    BY <2>1, <2>2
<1>3. host' = host /\ breaks' = breaks
  BY DEF Hook
<1>4. fc' = fc \/ fc' \in {Off, breaks}
  BY DEF Hook, PushFastContinue
<1>5. (\E k : Throw(k) /\ fc' = fc) \/ frames' = Begin
  BY DEF Hook
<1>6. CASE frames' = Begin
  <2>1. frames' \in Seq(Activations) /\ frames' # <<>> /\ FramesClear(frames')
    BY <1>1, <1>6, Begun
  <2> QED
    BY <1>1, <1>2, <1>3, <1>4, <2>1, StopsKept DEF StopsInv, KnowsBreakpoints
<1>7. CASE \E k : Throw(k) /\ fc' = fc
  BY <1>2, <1>3, <1>7, StopsAfterThrow
<1> QED
  BY <1>5, <1>6, <1>7

(* Calls, tail calls and blocks.                                         *)
LEMMA CallStops ==
  ASSUME StopsInv, CallUser \/ TailCall
  PROVE  StopsInv'
<1>1. Running /\ Op.op \in {"call", "tail"} /\ verdict' = "ok"
      /\ Step(Append(Advance, Frame(Op.to, Eligible(Op.to), TRUE, FALSE, Known)))
  BY DEF CallUser, TailCall
<1>2. Op.to \in Procs
  BY <1>1, RunningOperation DEF OperationOK
<1>3. /\ Frame(Op.to, Eligible(Op.to), TRUE, FALSE, Known) \in Activations
      /\ Clear(Frame(Op.to, Eligible(Op.to), TRUE, FALSE, Known))
  <2>1. CASE Eligible(Op.to)
    <3>1. /\ Frame(Op.to, TRUE, TRUE, FALSE, Known) \in Activations
          /\ Clear(Frame(Op.to, TRUE, TRUE, FALSE, Known))
      BY <1>2, <2>1, FreshClear
    <3>2. Eligible(Op.to) = TRUE
      BY <2>1
    <3> QED
      BY <3>1, <3>2, Zenon
  <2>2. CASE ~ Eligible(Op.to)
    <3>1. /\ Frame(Op.to, FALSE, TRUE, FALSE, Known) \in Activations
          /\ Clear(Frame(Op.to, FALSE, TRUE, FALSE, Known))
      BY <1>2, FreshClear
    <3>2. Eligible(Op.to) = FALSE
      BY <2>2 DEF Eligible
    <3> QED
      BY <3>1, <3>2, Zenon
  <2> QED
    BY <2>1, <2>2
<1>4. Advance \in Seq(Activations) /\ FramesClear(Advance)
  BY Advanced
<1> DEFINE fs == Append(Advance, Frame(Op.to, Eligible(Op.to), TRUE, FALSE, Known))
<1>5. fs \in Seq(Activations) /\ fs # <<>> /\ FramesClear(fs)
  BY <1>3, <1>4, FrameEntered
<1> HIDE DEF fs
<1>6. Step(fs)
  BY <1>1 DEF fs
<1> QED
  BY <1>1, <1>5, <1>6, StepKept

(* The activation a hop leaves behind, and the one of a block.           *)
LEMMA HoppedActivation ==
  ASSUME NEW a \in Activations, NEW p \in Procs, NEW k \in SUBSET BreakLocs
  PROVE  [a EXCEPT !.proc = p, !.known = k, !.pc = 2, !.begun = {}] \in Activations
<1>1. [a EXCEPT !.proc = p] \in Activations
  BY DEF Activations
<1>2. [a EXCEPT !.proc = p, !.known = k] \in Activations
  BY <1>1 DEF Activations
<1>3. {} \in SUBSET Marks /\ 2 \in Nat \ {0}
  OBVIOUS
<1>4. [[a EXCEPT !.proc = p, !.known = k] EXCEPT !.pc = 2, !.begun = {}] \in Activations
  BY <1>2, <1>3, ChangedActivation
<1> QED
  BY <1>4

LEMMA BlockActivation ==
  ASSUME NEW p \in Procs, Kind[p] = "module", NEW v \in BOOLEAN, NEW m \in BOOLEAN,
         NEW k \in SUBSET BreakLocs
  PROVE  /\ Frame(p, v, FALSE, m, k) \in Activations
         /\ Clear(Frame(p, v, FALSE, m, k))
BY DEF Frame, Activations, Clear

LEMMA HopStops ==
  ASSUME StopsInv, TailHop
  PROVE  StopsInv'
<1> DEFINE a == [Top EXCEPT !.proc = Op.to, !.known = Known, !.pc = 2, !.begun = {}]
           fs == [frames EXCEPT ![Len(frames)] = a]
<1>1. Running /\ Op.op = "tail" /\ Top.vm = Eligible(Op.to) /\ verdict' = "ok"
  BY DEF TailHop
<1>2. Op.to \in Procs
  BY <1>1, RunningOperation DEF OperationOK
<1>3. Top \in Activations
  BY RunningFrame
<1>4. Known \in SUBSET BreakLocs
  BY DEF Known, StopsInv, KnowsBreakpoints
<1>5. a \in Activations
  BY <1>2, <1>3, <1>4, HoppedActivation
<1>6. a.vm = Top.vm /\ a.proc = Op.to /\ a.known = Known
  BY <1>3 DEF Activations
<1>7. Clear(a)
  BY <1>1, <1>6 DEF Clear, Eligible, Known
<1>8. Step(fs)
  BY DEF TailHop, Top
<1> HIDE DEF a
<1>9. fs \in Seq(Activations) /\ fs # <<>> /\ FramesClear(fs)
  BY <1>5, <1>7, FrameChanged
<1> QED
  BY <1>1, <1>8, <1>9, StepKept

LEMMA BlockStops ==
  ASSUME StopsInv, RunBlock
  PROVE  StopsInv'
<1> DEFINE a == Frame(Op.to, Top.vm, FALSE, Op.op = "measure", Top.known)
           fs == Append(Advance, a)
<1>1. Running /\ Op.op \in {"block", "measure"} /\ verdict' = "ok" /\ Step(fs)
  BY DEF RunBlock
<1>2. Op.to \in Procs /\ Kind[Op.to] = "module"
  BY <1>1, RunningOperation DEF OperationOK
<1>3. Top \in Activations
  BY RunningFrame
<1>4. a \in Activations /\ Clear(a)
  <2>1. Top.vm \in BOOLEAN /\ Top.known \in SUBSET BreakLocs
    BY <1>3 DEF Activations
  <2>2. (Op.op = "measure") \in BOOLEAN
    OBVIOUS
  <2> QED
    BY <1>2, <2>1, <2>2, BlockActivation, Zenon
<1> HIDE DEF a
<1>5. Advance \in Seq(Activations) /\ FramesClear(Advance)
  BY Advanced
<1>6. fs \in Seq(Activations) /\ fs # <<>> /\ FramesClear(fs)
  BY <1>4, <1>5, FrameEntered
<1> HIDE DEF fs
<1> QED
  BY <1>1, <1>6, StepKept

LEMMA LoopStops ==
  ASSUME StopsInv, Loop
  PROVE  StopsInv'
<1>1. Running /\ Op.op = "loop" /\ verdict' = "ok"
  BY DEF Loop
<1>2. PICK n \in {Op.to, Top.pc + 1} : Step(Goto(n))
  BY DEF Loop
<1>3. /\ Top \in Activations /\ Top.proc \in Procs /\ Len(Body[Top.proc]) \in Nat
  BY RunningFrame
<1>4. Op.to \in 1..(Len(Body[Top.proc]) + 1)
  BY <1>1, RunningOperation DEF OperationOK
<1>5. n \in Nat \ {0}
  BY <1>3, <1>4 DEF Activations
<1> QED
  BY <1>1, <1>2, <1>5, Moved, StepKept

LEMMA ReturnStops ==
  ASSUME StopsInv, Return
  PROVE  StopsInv'
<1> PICK n \in Nat \ {0} : n = Len(frames)
  BY RunningFrame
<1>1. n - 1 \in Nat \ {0}
  BY DEF Return
<1>2. frames' = SubSeq(frames, 1, n - 1)
  BY DEF Return
<1>3. n - 1 <= Len(frames)
  OBVIOUS
<1>4. frames' \in Seq(Activations) /\ frames' # <<>> /\ FramesClear(frames')
  BY <1>1, <1>2, <1>3, FrameLeft
<1>5. UNCHANGED <<host, fc, breaks>> /\ verdict' = "ok"
  BY DEF Return, Unpolled
<1> QED
  BY <1>4, <1>5, StopsKept DEF StopsInv, KnowsBreakpoints

(* A run begins in the script's own activation, and with no breakpoints. *)
LEMMA ScriptStarts ==
  ASSUME NEW h
  PROVE  /\ <<Script(h)>> \in Seq(Activations) /\ <<Script(h)>> # <<>>
         /\ ((h = "plain") = ~ Hooked) => FramesClear(<<Script(h)>>)
<1>1. Script(h) \in Activations
  BY DebuggerAssumption DEF Script, Activations
<1>2. ((h = "plain") = ~ Hooked) => Clear(Script(h))
  BY DEF Script, Clear
<1> QED
  BY <1>1, <1>2 DEF FramesClear

LEMMA RunStops ==
  ASSUME StopsInv, StartRun
  PROVE  StopsInv'
<1>1. /\ frames' = <<Script(host)>> /\ fc' = Off /\ verdict' = "ok"
      /\ UNCHANGED <<host, breaks>>
  BY DEF StartRun, FreshEvaluator
<1>2. ((host = "plain") = ~ Hooked)
  BY DEF Hooked
<1>3. frames' \in Seq(Activations) /\ frames' # <<>> /\ FramesClear(frames')
  BY <1>1, <1>2, ScriptStarts
<1>4. FramesClear(frames)'
  BY <1>1, <1>3 DEF FramesClear, Clear, Hooked
<1> QED
  BY <1>1, <1>3, <1>4 DEF StopsInv, KnowsBreakpoints, BreakpointsNotMissed


LEMMA ResumeStops ==
  ASSUME StopsInv, Resume
  PROVE  StopsInv'
<1>1. UNCHANGED <<host, breaks>> /\ verdict' = "ok"
  BY DEF Resume
<1>2. fc' = fc \/ (Hooked /\ fc' \in {Off, breaks})
  BY DEF Resume, PushFastContinue, Hooked
<1>3. frames' = frames \/ frames' = SubSeq(frames, 1, 1)
  <2>1. frames' = frames \/ frames' = <<Head(frames)>>
    BY DEF Resume, Leave, Throw
  <2>2. <<Head(frames)>> = SubSeq(frames, 1, 1)
    BY RunningFrame DEF StopsInv
  <2> QED
    BY <2>1, <2>2
<1>4. frames' \in Seq(Activations) /\ frames' # <<>> /\ FramesClear(frames')
  <2>1. CASE frames' = frames
    BY <2>1 DEF StopsInv
  <2>2. CASE frames' = SubSeq(frames, 1, 1)
    <3> PICK n \in Nat \ {0} : n = 1
      OBVIOUS
    <3>1. n <= Len(frames) /\ frames' = SubSeq(frames, 1, n)
      BY <2>2, RunningFrame
    <3> QED
      BY <3>1, FrameLeft
  <2> QED
    BY <1>3, <2>1, <2>2
<1> QED
  BY <1>1, <1>2, <1>4, StopsKept DEF StopsInv, KnowsBreakpoints

LEMMA EditStops ==
  ASSUME StopsInv, EditBreak
  PROVE  StopsInv'
<1>1. PICK b \in BreakLocs :
        breaks' = IF b \in breaks THEN breaks \ {b} ELSE breaks \union {b}
  BY DEF EditBreak
<1>2. breaks' \in SUBSET BreakLocs
  BY <1>1 DEF StopsInv, KnowsBreakpoints
<1>3. UNCHANGED <<host, frames, fc, verdict>>
  BY DEF EditBreak, evalVars, history
<1> QED
  BY <1>2, <1>3, StopsKept DEF StopsInv, BreakpointsNotMissed

LEMMA InitStops ==
  ASSUME Init
  PROVE  StopsInv
<1>1. frames = <<Script(host)>> /\ fc = Off /\ breaks \in SUBSET BreakLocs
      /\ verdict = "ok"
  BY DEF Init
<1>2. (host = "plain") = ~ Hooked
  BY DEF Hooked
<1> QED
  BY <1>1, <1>2, ScriptStarts DEF StopsInv, KnowsBreakpoints, BreakpointsNotMissed

(* Every action keeps it.                                                *)
LEMMA NextStops ==
  ASSUME StopsInv, [Next]_vars
  PROVE  StopsInv'
<1>0. verdict # "missed"
  BY DEF StopsInv, BreakpointsNotMissed
<1>1. CASE CheckPassed \/ Hook \/ Compiled
  BY <1>1, CheckpointStops, HookStops, CompiledStops
<1>2. CASE CallUser \/ TailCall \/ TailHop \/ RunBlock \/ Loop \/ Return
  BY <1>2, CallStops, HopStops, BlockStops, LoopStops, ReturnStops
<1>3. CASE CheckCancelled
  BY <1>0, <1>3, StopsAfterThrow DEF CheckCancelled
<1>4. CASE PollCancelled
  BY <1>0, <1>4, StopsAfterThrow DEF PollCancelled
<1>5. CASE StopCommand
  <2>1. PICK k : Throw(k)
    BY <1>5 DEF StopCommand
  <2>2. UNCHANGED <<host, breaks, fc>> /\ verdict' = "ok"
    BY <1>5 DEF StopCommand
  <2> QED
    BY <2>1, <2>2, StopsAfterThrow
<1>6. CASE Fail
  <2>1. UNCHANGED <<host, breaks, fc>> /\ verdict' = "ok"
    BY <1>6 DEF Fail
  <2>2. frames' = frames \/ Throw("error")
    BY <1>6 DEF Fail
  <2> QED
    BY <2>1, <2>2, StopsSame, StopsAfterThrow
<1>7. CASE GenerateNode
  <2>1. UNCHANGED <<host, breaks, fc, verdict>>
    BY <1>7 DEF GenerateNode
  <2>2. frames' = frames \/ Throw("cancel")
    BY <1>7 DEF GenerateNode
  <2> QED
    BY <1>0, <2>1, <2>2, StopsSame, StopsAfterThrow
<1>8. CASE PromptRun
  BY <1>8, RunStops DEF PromptRun
<1>9. CASE Caught
  <2>1. StartRun \/ UNCHANGED <<host, breaks, fc, frames, verdict>>
    BY <1>9 DEF Caught, evalVars, history
  <2> QED
    BY <1>0, <2>1, RunStops, StopsSame
<1>10. CASE Resume \/ EditBreak
  BY <1>10, ResumeStops, EditStops
<1>11. CASE ResolveDone \/ GenerateDone \/ PromptQuit \/ SetVar
  <2>1. UNCHANGED <<host, breaks, fc, frames, verdict>>
    BY <1>11 DEF ResolveDone, GenerateDone, PromptQuit, SetVar, evalVars, history
  <2> QED
    BY <1>0, <2>1, StopsSame
<1>12. CASE RequestPause \/ RequestCancel \/ Signal
  <2>1. UNCHANGED <<host, breaks, fc, frames, verdict>>
    BY <1>12 DEF RequestPause, RequestCancel, Signal, evalVars, history
  <2> QED
    BY <1>0, <2>1, StopsSame
<1>13. CASE UNCHANGED vars
  <2>1. UNCHANGED <<host, breaks, fc, frames, verdict>>
    BY <1>13 DEF vars, evalVars, history
  <2> QED
    BY <1>0, <2>1, StopsSame
<1> QED
  BY <1>1, <1>2, <1>3, <1>4, <1>5, <1>6, <1>7, <1>8, <1>9, <1>10, <1>11, <1>12, <1>13
     DEF Next, Evaluate, User

(* Whatever the script and whatever is edited while it runs: a statement *)
(* on a line the evaluator knew for a breakpoint when the body was entered *)
(* calls the hook - it is not in a compiled body, and no checkpoint skips  *)
(* it (evaluator.hpp:1623-1660, debug_profile.cpp:134-153).              *)
THEOREM BreakpointsStayKept == Spec => []BreakpointsNotMissed
<1>1. Init => StopsInv
  BY InitStops
<1>2. StopsInv /\ [Next]_vars => StopsInv'
  BY NextStops
<1>3. StopsInv => BreakpointsNotMissed
  BY DEF StopsInv
<1> QED
  BY <1>1, <1>2, <1>3, PTL DEF Spec


-----------------------------------------------------------------------------
(* Call sites                                                            *)

(* At(ls, d) is what lastStmtByDepth_ holds at depth d, and DepthOf(fs, i) *)
(* the depth at which activation i runs.                                 *)
At(ls, d) == IF d \in DOMAIN ls THEN ls[d] ELSE NoLoc
DepthOf(fs, i) == Cardinality({k \in 1..i : fs[k].call})

(* An interpreted activation in which checkpoints count has passed the   *)
(* statement it is in, or has been hopped into and still has the statement*)
(* of the body before it.                                                *)
Heard(fs, i) == ~ fs[i].vm /\ \A k \in 1..i : ~ fs[k].measuring
Follows(current, hops, a, loc) ==
    \/ loc = current[a.proc][a.pc] /\ loc \in a.begun
    \/ a.begun = {} /\ loc \in hops[a.proc]
Placed(current, hops, fs, ls, i) ==
    Heard(fs, i) /\ current[fs[i].proc][fs[i].pc] # NoLoc =>
        Follows(current, hops, fs[i], At(ls, DepthOf(fs, i)))

(* An activation below a block of its own depth knows of no statement.   *)
Resumes(current, fs, i) ==
    fs[i + 1].call \/ fs[i + 1].measuring \/ current[fs[i].proc][fs[i].pc] = NoLoc

AllPlaced(current, hops, fs, ls) ==
    /\ \A i \in 1..Len(fs) : Placed(current, hops, fs, ls, i)
    /\ \A i \in 1..(Len(fs) - 1) : Resumes(current, fs, i)
Live == Hooked /\ phase \in {"eval", "paused", "errbreak"}
SitesInv(current, hops) ==
    /\ CallSitesStopOnce
    /\ Live => AllPlaced(current, hops, frames, lastStmt)
LEMMA DepthGrows ==
  ASSUME NEW fs, NEW n \in Nat, NEW i \in 1..(n - 1)
  PROVE  fs[i + 1].call => DepthOf(fs, i) # DepthOf(fs, n)
<1> DEFINE S == {k \in 1..i : fs[k].call}
           T == {k \in 1..n : fs[k].call}
<1>1. IsFiniteSet(1..n) /\ T \subseteq 1..n
  BY FS_Interval
<1>2. IsFiniteSet(T) /\ S \subseteq T
  BY <1>1, FS_Subset
<1>3. Cardinality(S) = Cardinality(T) => S = T
  BY <1>2, FS_Subset
<1>4. fs[i + 1].call => i + 1 \in T /\ i + 1 \notin S
  OBVIOUS
<1> QED
  BY <1>3, <1>4 DEF DepthOf

LEMMA SameDepth ==
  ASSUME NEW fs, NEW gs, NEW i \in Nat, \A k \in 1..i : fs[k].call = gs[k].call
  PROVE  DepthOf(fs, i) = DepthOf(gs, i)
<1>1. {k \in 1..i : fs[k].call} = {k \in 1..i : gs[k].call}
  OBVIOUS
<1> QED
  BY <1>1 DEF DepthOf

LEMMA DepthIs ==
  ASSUME frames \in Seq(Activations)
  PROVE  Depth = DepthOf(frames, Len(frames))
<1>1. {i \in DOMAIN frames : frames[i].call} = {k \in 1..Len(frames) : frames[k].call}
  OBVIOUS
<1> QED
  BY <1>1 DEF Depth, DepthOf

(* What holds of an activation depends on the ones below it and on itself.  *)
LEMMA PlacedSame ==
  ASSUME NEW current, NEW hops, NEW fs, NEW gs, NEW ls, NEW i \in Nat \ {0},
         \A k \in 1..i : fs[k] = gs[k], Placed(current, hops, fs, ls, i)
  PROVE  Placed(current, hops, gs, ls, i)
<1>1. i \in 1..i /\ fs[i] = gs[i]
  OBVIOUS
<1>2. DepthOf(gs, i) = DepthOf(fs, i)
  BY SameDepth
<1>3. Heard(gs, i) => Heard(fs, i)
  BY <1>1 DEF Heard
<1> QED
  BY <1>1, <1>2, <1>3 DEF Placed

(* The running activation changes and may note a statement at its depth: *)
(* one below it at the same depth is not waiting for a statement there.  *)
LEMMA OthersPlaced ==
  ASSUME StopsInv, NEW current, NEW hops, AllPlaced(current, hops, frames, lastStmt),
         NEW n \in Nat \ {0}, n = Len(frames), NEW a, NEW fs, fs = [frames EXCEPT ![n] = a],
         a.call = frames[n].call, a.measuring = frames[n].measuring,
         NEW ls, \/ ls = lastStmt
                 \/ ~ Measuring /\ \A d : d # Depth => At(ls, d) = At(lastStmt, d),
         Placed(current, hops, fs, ls, n)
  PROVE  AllPlaced(current, hops, fs, ls)
<1>1. frames \in Seq(Activations)
  BY DEF StopsInv
<1>2. Len(fs) = n /\ fs[n] = a /\ \A i \in 1..(n - 1) : fs[i] = frames[i]
  BY <1>1
<1>3. /\ \A i \in 1..n : Placed(current, hops, frames, lastStmt, i)
      /\ \A i \in 1..(n - 1) : Resumes(current, frames, i)
  BY DEF AllPlaced
<1>4. ASSUME NEW i \in 1..(n - 1) PROVE Placed(current, hops, fs, ls, i)
  <2>1. Placed(current, hops, frames, ls, i)
    <3>1. CASE ls = lastStmt
      BY <1>3, <3>1
    <3>2. CASE ~ Measuring /\ \A d : d # Depth => At(ls, d) = At(lastStmt, d)
      <4>1. Resumes(current, frames, i) /\ Placed(current, hops, frames, lastStmt, i)
        BY <1>3
      <4>2. i + 1 \in DOMAIN frames
        BY <1>1
      <4>3. ~ frames[i + 1].measuring
        BY <3>2, <4>2 DEF Measuring
      <4>4. frames[i + 1].call => DepthOf(frames, i) # Depth
        BY <1>1, DepthGrows, DepthIs
      <4>5. CASE frames[i + 1].call
        <5>1. At(ls, DepthOf(frames, i)) = At(lastStmt, DepthOf(frames, i))
          BY <3>2, <4>4, <4>5
        <5> QED
          BY <4>1, <5>1 DEF Placed
      <4>6. CASE ~ frames[i + 1].call
        BY <4>1, <4>3, <4>6 DEF Resumes, Placed
      <4> QED
        BY <4>5, <4>6
    <3> QED
      BY <3>1, <3>2
  <2>2. i \in Nat \ {0} /\ \A k \in 1..i : frames[k] = fs[k]
    BY <1>2
  <2> QED
    BY ONLY <2>1, <2>2, PlacedSame
<1>5. ASSUME NEW i \in 1..(n - 1) PROVE Resumes(current, fs, i)
  <2>1. Resumes(current, frames, i) /\ fs[i] = frames[i]
    BY <1>2, <1>3
  <2>2. fs[i + 1].call = frames[i + 1].call /\ fs[i + 1].measuring = frames[i + 1].measuring
    <3>1. CASE i + 1 = n
      BY <1>2, <3>1
    <3>2. CASE i + 1 # n
      <4>1. i + 1 \in 1..(n - 1)
        BY <3>2
      <4> QED
        BY <1>2, <4>1
    <3> QED
      BY <3>1, <3>2
  <2> QED
    BY <2>1, <2>2 DEF Resumes
<1>6. \A i \in 1..n : Placed(current, hops, fs, ls, i)
  <2>1. \A i \in 1..n : i = n \/ i \in 1..(n - 1)
    OBVIOUS
  <2> QED
    BY <1>4, <2>1
<1> QED
  BY <1>2, <1>5, <1>6 DEF AllPlaced

(* An activation that has not begun is in no statement yet.              *)
LEMMA EntrantPlaced ==
  ASSUME NEW current, NEW hops, SitesPlaced(current, hops),
         NEW gs \in Seq(Activations), NEW n \in Nat \ {0}, n = Len(gs), NEW ls,
         AllPlaced(current, hops, gs, ls), NEW a, a.proc \in Procs, a.pc = 1,
         a.call \/ a.measuring \/ current[gs[n].proc][gs[n].pc] = NoLoc
  PROVE  AllPlaced(current, hops, Append(gs, a), ls)
<1> DEFINE fs == Append(gs, a)
<1>1. Len(fs) = n + 1 /\ fs[n + 1] = a /\ \A i \in 1..n : fs[i] = gs[i]
  BY AppendProperties
<1> HIDE DEF fs
<1>2. ASSUME NEW i \in 1..(n + 1) PROVE Placed(current, hops, fs, ls, i)
  <2>1. CASE i = n + 1
    <3>1. current[a.proc][a.pc] = NoLoc
      BY DEF SitesPlaced
    <3> QED
      BY <1>1, <2>1, <3>1 DEF Placed
  <2>2. CASE i \in 1..n
    <3>1. Placed(current, hops, gs, ls, i) /\ \A k \in 1..i : gs[k] = fs[k]
      BY <1>1, <2>2 DEF AllPlaced
    <3> QED
      BY <2>2, <3>1, PlacedSame
  <2> QED
    BY <2>1, <2>2
<1>3. ASSUME NEW i \in 1..n PROVE Resumes(current, fs, i)
  <2>1. CASE i = n
    BY <1>1, <2>1 DEF Resumes
  <2>2. CASE i \in 1..(n - 1)
    <3>1. Resumes(current, gs, i) /\ gs[i] = fs[i] /\ gs[i + 1] = fs[i + 1]
      BY <1>1, <2>2 DEF AllPlaced
    <3> QED
      BY <3>1 DEF Resumes
  <2> QED
    BY <2>1, <2>2
<1>4. Len(fs) - 1 = n
  BY <1>1
<1>5. AllPlaced(current, hops, fs, ls)
  BY <1>1, <1>2, <1>3, <1>4 DEF AllPlaced
<1> QED
  BY <1>5 DEF fs

LEMMA LeftPlaced ==
  ASSUME NEW current, NEW hops, NEW gs \in Seq(Activations), NEW ls, AllPlaced(current, hops, gs, ls),
         NEW n \in Nat \ {0}, n <= Len(gs)
  PROVE  AllPlaced(current, hops, SubSeq(gs, 1, n), ls)
<1> DEFINE fs == SubSeq(gs, 1, n)
<1>1. Len(fs) = n /\ \A i \in 1..n : fs[i] = gs[i]
  BY SubSeqProperties
<1> HIDE DEF fs
<1>2. ASSUME NEW i \in 1..n PROVE Placed(current, hops, fs, ls, i)
  <2>1. Placed(current, hops, gs, ls, i) /\ \A k \in 1..i : gs[k] = fs[k]
    BY <1>1 DEF AllPlaced
  <2> QED
    BY <2>1, PlacedSame
<1>3. ASSUME NEW i \in 1..(n - 1) PROVE Resumes(current, fs, i)
  <2>1. Resumes(current, gs, i) /\ gs[i] = fs[i] /\ gs[i + 1] = fs[i + 1]
    BY <1>1 DEF AllPlaced
  <2> QED
    BY <2>1 DEF Resumes
<1>4. AllPlaced(current, hops, fs, ls)
  BY <1>1, <1>2, <1>3 DEF AllPlaced
<1> QED
  BY <1>4 DEF fs

(* The operation about to run, as SitesPlaced has it.                    *)
Here(current) == current[Top.proc][Top.pc]
Next1(current) == current[Top.proc][Top.pc + 1]
LEMMA PlacedOperation ==
  ASSUME StopsInv, Running, NEW current, NEW hops, SitesPlaced(current, hops)
  PROVE  /\ Op.op \in {"entry", "stmt"} => Next1(current) \in {NoLoc, Op.at}
         /\ Op.op \in {"forced", "block"} => Next1(current) = NoLoc
         /\ Op.op \notin {"entry", "stmt", "forced", "block"} => Next1(current) \in {NoLoc, Here(current)}
         /\ Op.op = "loop" => current[Top.proc][Op.to] \in {NoLoc, Here(current)}
         /\ Op.op \in {"site", "tail"} => Here(current) # NoLoc
         /\ Op.op = "site" => Op.of = Here(current) /\ Op.at \notin hops[Top.proc]
         /\ Op.op = "tail" => Here(current) \in hops[Op.to] /\ hops[Top.proc] \subseteq hops[Op.to]
<1> DEFINE p == Top.proc
           i == Top.pc
           next == IF Op.op = "loop" THEN {i + 1, Op.to} ELSE {i + 1}
<1>1. p \in Procs /\ Op = Body[p][i] /\ i \in DOMAIN Body[p]
  BY RunningFrame, RunningOperation DEF Op
<1>2. \A j \in next :
         current[p][j] = NoLoc \/
         CASE Op.op \in {"entry", "stmt"} -> current[p][j] = Op.at
           [] Op.op \in {"forced", "block"} -> FALSE
           [] OTHER -> current[p][j] = current[p][i]
  BY <1>1 DEF SitesPlaced
<1>3. /\ Op.op \in {"site", "tail"} => current[p][i] # NoLoc
      /\ Op.op = "site" => Op.of = current[p][i] /\ Op.at \notin hops[p]
      /\ Op.op = "tail" => {current[p][i]} \union hops[p] \subseteq hops[Op.to]
  BY <1>1 DEF SitesPlaced
<1>4. i + 1 \in next /\ (Op.op = "loop" => Op.to \in next)
  OBVIOUS
<1> HIDE DEF next
<1>5. ASSUME NEW j \in next
      PROVE  /\ Op.op \in {"entry", "stmt"} => current[p][j] \in {NoLoc, Op.at}
             /\ Op.op \in {"forced", "block"} => current[p][j] = NoLoc
             /\ Op.op \notin {"entry", "stmt", "forced", "block"} => current[p][j] \in {NoLoc, current[p][i]}
  BY <1>2
<1>6. /\ Op.op \in {"entry", "stmt"} => current[p][i + 1] \in {NoLoc, Op.at}
      /\ Op.op \in {"forced", "block"} => current[p][i + 1] = NoLoc
      /\ Op.op \notin {"entry", "stmt", "forced", "block"} => current[p][i + 1] \in {NoLoc, current[p][i]}
  BY <1>4, <1>5
<1>7. Op.op = "loop" => current[p][Op.to] \in {NoLoc, current[p][i]}
  BY <1>4, <1>5
<1> QED
  BY <1>3, <1>6, <1>7 DEF Here, Next1

(* Going on in the statement it is in.                                   *)
LEMMA MovePlaced ==
  ASSUME StopsInv, NEW current, NEW hops, AllPlaced(current, hops, frames, lastStmt),
         NEW j, Heard(frames, Len(frames)) => current[Top.proc][j] \in {NoLoc, Here(current)}
  PROVE  AllPlaced(current, hops, Goto(j), lastStmt)
<1> DEFINE a == [Top EXCEPT !.pc = j]
<1> PICK n \in Nat \ {0} : n = Len(frames)
  BY RunningFrame
<1>1. Top \in Activations /\ Top = frames[n] /\ frames \in Seq(Activations)
  BY RunningFrame DEF Top, StopsInv
<1>2. /\ a.proc = Top.proc /\ a.pc = j /\ a.vm = Top.vm /\ a.call = Top.call
      /\ a.measuring = Top.measuring /\ a.begun = Top.begun
  BY <1>1 DEF Activations
<1>3. Goto(j) = [frames EXCEPT ![n] = a]
  BY DEF Goto, Top
<1> HIDE DEF a
<1> DEFINE fs == Goto(j)
<1>4. fs[n] = a /\ \A k \in 1..n : fs[k].call = frames[k].call /\ fs[k].measuring = frames[k].measuring
  BY <1>1, <1>2, <1>3
<1> HIDE DEF fs
<1>5. Placed(current, hops, frames, lastStmt, n)
  BY DEF AllPlaced
<1>6. DepthOf(fs, n) = DepthOf(frames, n)
  BY <1>4, SameDepth
<1>7. Heard(fs, n) => Heard(frames, n)
  BY <1>1, <1>2, <1>4 DEF Heard
<1>8. Placed(current, hops, fs, lastStmt, n)
  <2>1. SUFFICES ASSUME Heard(fs, n), current[a.proc][a.pc] # NoLoc
                 PROVE  Follows(current, hops, a, At(lastStmt, DepthOf(fs, n)))
    BY <1>4 DEF Placed
  <2>2. current[a.proc][a.pc] = Here(current) /\ Heard(frames, n)
    BY <1>2, <1>7, <2>1
  <2>3. Follows(current, hops, Top, At(lastStmt, DepthOf(frames, n)))
    BY <1>1, <1>5, <2>1, <2>2 DEF Placed, Here
  <2> QED
    BY <1>2, <1>6, <2>2, <2>3 DEF Follows, Here
<1>9. fs = [frames EXCEPT ![n] = a]
  BY <1>3 DEF fs
<1>10. AllPlaced(current, hops, fs, lastStmt)
  BY <1>1, <1>2, <1>8, <1>9, OthersPlaced
<1> QED
  BY <1>10 DEF fs

(* A statement's checkpoint, or a breakpoint().                          *)
LEMMA CheckpointPlaced ==
  ASSUME StopsInv, Running, Hooked, Checked, NEW current, NEW hops, SitesPlaced(current, hops),
         AllPlaced(current, hops, frames, lastStmt)
  PROVE  AllPlaced(current, hops, Begin, LastStmtAfter)
<1>1. Op.op \in {"entry", "stmt", "marker", "site", "forced"}
  BY DEF Checked
<1> PICK n \in Nat \ {0} : n = Len(frames)
  BY RunningFrame
<1>2. Top \in Activations /\ Top = frames[n] /\ frames \in Seq(Activations)
  BY RunningFrame DEF Top, StopsInv
<1>3. CASE Ignored \/ Op.op \in {"marker", "site"}
  <2>1. Begin = Goto(Top.pc + 1) /\ LastStmtAfter = lastStmt
    BY <1>3 DEF Begin, LastStmtAfter, ExprLevel, CallSite, Advance
  <2>2. Heard(frames, Len(frames)) => ~ Ignored
    BY <1>2 DEF Heard, Ignored, Measuring
  <2>3. Heard(frames, Len(frames)) => current[Top.proc][Top.pc + 1] \in {NoLoc, Here(current)}
    BY <1>3, <2>2, PlacedOperation DEF Next1
  <2> QED
    BY <2>1, <2>3, MovePlaced
<1>4. CASE ~ Ignored /\ Op.op \in {"entry", "stmt", "forced"}
  <2> DEFINE bs == IF Op.op = "forced" THEN Top.begun ELSE Top.begun \union {Op.at}
             a == [Top EXCEPT !.pc = Top.pc + 1, !.begun = bs]
             ls == LastStmtAfter
  <2>1. /\ a.proc = Top.proc /\ a.pc = Top.pc + 1 /\ a.vm = Top.vm /\ a.call = Top.call
        /\ a.measuring = Top.measuring /\ a.begun = bs
    BY <1>2 DEF Activations
  <2>2. Begin = [frames EXCEPT ![n] = a]
    <3>1. CASE Op.op = "forced"
      <4>1. Begin = Advance
        BY <3>1 DEF Begin
      <4>2. a = [Top EXCEPT !.pc = Top.pc + 1]
        BY <1>2, <3>1 DEF Activations
      <4> QED
        BY <4>1, <4>2 DEF Advance, Goto, Top
    <3>2. CASE Op.op # "forced"
      <4>1. Begin = [Advance EXCEPT ![Len(frames)].begun = @ \union {Op.at}]
        BY <1>4, <3>2 DEF Begin
      <4> QED
        BY <1>2, <3>2, <4>1 DEF Advance, Goto, Top, Activations
    <3> QED
      BY <3>1, <3>2
  <2>3. ls = [d \in DOMAIN lastStmt \union {Depth} |-> IF d = Depth THEN Op.at ELSE lastStmt[d]]
    BY <1>4 DEF LastStmtAfter, Collapsed, CallSite, ExprLevel
  <2>4. At(ls, Depth) = Op.at /\ \A d : d # Depth => At(ls, d) = At(lastStmt, d)
    BY <2>3 DEF At
  <2>5. ~ Measuring
    BY <1>4 DEF Ignored
  <2> DEFINE fs == Begin
  <2> HIDE DEF a, bs, ls
  <2>6. fs[n] = a /\ \A k \in 1..n : fs[k].call = frames[k].call /\ fs[k].measuring = frames[k].measuring
    BY <1>2, <2>1, <2>2
  <2> HIDE DEF fs
  <2>7. DepthOf(fs, n) = Depth
    BY <1>2, <2>6, SameDepth, DepthIs
  <2>8. Placed(current, hops, fs, ls, n)
    <3>1. SUFFICES ASSUME current[a.proc][a.pc] # NoLoc PROVE Follows(current, hops, a, Op.at)
      BY <2>4, <2>6, <2>7 DEF Placed
    <3>2. Op.op # "forced" /\ current[a.proc][a.pc] = Op.at
      BY <1>4, <2>1, <3>1, PlacedOperation DEF Next1
    <3>3. Op.at \in a.begun
      BY <2>1, <3>2 DEF bs
    <3> QED
      BY <3>2, <3>3 DEF Follows
  <2>9. fs = [frames EXCEPT ![n] = a]
    BY <2>2 DEF fs
  <2>10. AllPlaced(current, hops, fs, ls)
    BY <1>2, <2>1, <2>4, <2>5, <2>8, <2>9, OthersPlaced
  <2> QED
    BY <2>10 DEF fs, ls
<1> QED
  BY <1>1, <1>3, <1>4

(* The rule that collapses a call site's stop is right about it.         *)
LEMMA SiteJudged ==
  ASSUME StopsInv, Running, Hooked, Checked, ~ Ignored, CallSite, NEW current, NEW hops,
         SitesPlaced(current, hops), AllPlaced(current, hops, frames, lastStmt)
  PROVE  Collapsed <=> Repeats
<1> PICK n \in Nat \ {0} : n = Len(frames)
  BY RunningFrame
<1>1. Top \in Activations /\ Top = frames[n] /\ frames \in Seq(Activations)
  BY RunningFrame DEF Top, StopsInv
<1>2. Op.op = "site" /\ ~ Forced
  BY DEF CallSite, Forced
<1>3. Op.of = Here(current) /\ Here(current) # NoLoc /\ Op.at \notin hops[Top.proc]
  BY <1>2, PlacedOperation
<1>4. Heard(frames, n)
  BY <1>1, <1>2 DEF Checked, Ignored, Measuring, Heard
<1>5. Placed(current, hops, frames, lastStmt, n)
  BY DEF AllPlaced
<1>6. Follows(current, hops, Top, At(lastStmt, Depth))
  BY <1>1, <1>3, <1>4, <1>5, DepthIs DEF Placed, Here
<1>7. Collapsed <=> At(lastStmt, Depth) = Op.at
  BY <1>2 DEF Collapsed, CallSite, LastStmt, At
<1> QED
  BY <1>3, <1>6, <1>7 DEF Follows, Here, Repeats

LEMMA VerdictsRight ==
  ASSUME StopsInv, Running, Checked, NEW current, NEW hops,
         SitesPlaced(current, hops), SitesInv(current, hops)
  PROVE  /\ Ignored \/ Collapsed \/ Skipped => Verdict(FALSE) \notin {"twice", "lost"}
         /\ ~ Ignored /\ ~ Collapsed => Verdict(TRUE) \notin {"twice", "lost"}
<1>1. CASE Ignored \/ ExprLevel
  BY <1>1 DEF Verdict
<1>2. CASE ~ Ignored /\ ~ ExprLevel /\ ~ CallSite
  BY <1>2 DEF Verdict, Repeats
<1>3. CASE ~ Ignored /\ ~ ExprLevel /\ CallSite
  <2>1. Hooked /\ Live
    BY <1>3 DEF Ignored, Live, Running
  <2>2. Collapsed <=> Repeats
    BY <1>3, <2>1, SiteJudged DEF SitesInv
  <2>3. Skipped => MaySkip
    BY DEF Skipped
  <2> QED
    BY <1>3, <2>2, <2>3 DEF Verdict
<1> QED
  BY <1>1, <1>2, <1>3

(* What an action must see to.                                           *)
LEMMA SitesKept ==
  ASSUME StopsInv, NEW current, NEW hops, SitesInv(current, hops), host' = host,
         verdict' \notin {"twice", "lost"},
         Live /\ phase' \in {"eval", "paused", "errbreak"} => AllPlaced(current, hops, frames', lastStmt'),
         phase' \in {"eval", "paused", "errbreak"} => phase \in {"eval", "paused", "errbreak"}
  PROVE  SitesInv(current, hops)'
<1>1. Live' => Live /\ phase' \in {"eval", "paused", "errbreak"}
  BY DEF Live, Hooked
<1>2. AllPlaced(current, hops, frames', lastStmt') => AllPlaced(current, hops, frames, lastStmt)'
  BY DEF AllPlaced, Placed, Resumes, Heard, Follows, At, DepthOf
<1> QED
  BY <1>1, <1>2 DEF SitesInv, CallSitesStopOnce

LEMMA SitesSame ==
  ASSUME StopsInv, NEW current, NEW hops, SitesInv(current, hops), host' = host,
         verdict' \notin {"twice", "lost"}, frames' = frames, lastStmt' = lastStmt,
         phase' \in {"eval", "paused", "errbreak"} => phase \in {"eval", "paused", "errbreak"}
  PROVE  SitesInv(current, hops)'
BY SitesKept DEF SitesInv

LEMMA SitesOver ==
  ASSUME StopsInv, NEW current, NEW hops, SitesInv(current, hops), host' = host,
         verdict' \notin {"twice", "lost"}, NEW k, Throw(k)
  PROVE  SitesInv(current, hops)'
BY SitesKept DEF Throw

LEMMA CheckpointSites ==
  ASSUME StopsInv, CheckPassed \/ Hook, NEW current, NEW hops,
         SitesPlaced(current, hops), SitesInv(current, hops)
  PROVE  SitesInv(current, hops)'
<1>1. /\ Running /\ Checked /\ host' = host /\ phase = "eval"
      /\ lastStmt' = LastStmtAfter
  BY DEF CheckPassed, Hook, CallsHook, Running
<1>2. verdict' \notin {"twice", "lost"}
  <2>1. CASE CheckPassed
    BY <1>1, <2>1, VerdictsRight DEF CheckPassed
  <2>2. CASE Hook
    BY <1>1, <2>2, VerdictsRight DEF Hook, CallsHook
  <2> QED
    BY <2>1, <2>2
<1>3. frames' = Begin \/ \E k : Throw(k)
  BY DEF CheckPassed, Hook
<1>4. CASE frames' = Begin
  <2>1. Live => AllPlaced(current, hops, frames', lastStmt')
    BY <1>1, <1>4, CheckpointPlaced DEF SitesInv, Live
  <2> QED
    BY <1>1, <1>2, <2>1, SitesKept
<1>5. CASE \E k : Throw(k)
  BY <1>1, <1>2, <1>5, SitesOver
<1> QED
  BY <1>3, <1>4, <1>5

(* An operation that passes no checkpoint.                               *)
LEMMA StepSites ==
  ASSUME StopsInv, NEW current, NEW hops, SitesInv(current, hops), NEW fs, Step(fs),
         verdict' \notin {"twice", "lost"}, Live => AllPlaced(current, hops, fs, lastStmt)
  PROVE  SitesInv(current, hops)'
<1>1. frames' = fs /\ phase' = phase /\ lastStmt' = lastStmt /\ host' = host
  BY DEF Step, Unpolled
<1> QED
  BY <1>1, SitesKept

LEMMA AdvancePlaced ==
  ASSUME StopsInv, Running, NEW current, NEW hops, SitesPlaced(current, hops),
         Op.op \notin {"entry", "stmt", "forced"} \/ ~ Heard(frames, Len(frames)),
         AllPlaced(current, hops, frames, lastStmt)
  PROVE  AllPlaced(current, hops, Advance, lastStmt)
<1>1. Heard(frames, Len(frames)) => current[Top.proc][Top.pc + 1] \in {NoLoc, Here(current)}
  BY PlacedOperation DEF Next1
<1> QED
  BY <1>1, MovePlaced DEF Advance

LEMMA CompiledSites ==
  ASSUME StopsInv, Compiled, NEW current, NEW hops, SitesPlaced(current, hops), SitesInv(current, hops)
  PROVE  SitesInv(current, hops)'
<1>1. /\ Running /\ ~ Checked /\ Op.op \in {"stmt", "marker", "site", "forced"}
      /\ Step(Advance) /\ verdict' \in {"missed", "ok"}
  BY DEF Compiled
<1>2. ~ Heard(frames, Len(frames))
  BY <1>1 DEF Checked, Heard, Top
<1>3. Live => AllPlaced(current, hops, Advance, lastStmt)
  BY <1>1, <1>2, AdvancePlaced DEF SitesInv
<1> QED
  BY <1>1, <1>3, StepSites

LEMMA LoopSites ==
  ASSUME StopsInv, Loop, NEW current, NEW hops, SitesPlaced(current, hops), SitesInv(current, hops)
  PROVE  SitesInv(current, hops)'
<1>1. Running /\ Op.op = "loop" /\ verdict' = "ok"
  BY DEF Loop
<1>2. PICK j \in {Op.to, Top.pc + 1} : Step(Goto(j))
  BY DEF Loop
<1>3. current[Top.proc][j] \in {NoLoc, Here(current)}
  BY <1>1, PlacedOperation DEF Next1
<1>4. Live => AllPlaced(current, hops, Goto(j), lastStmt)
  BY <1>3, MovePlaced DEF SitesInv
<1> QED
  BY <1>1, <1>2, <1>4, StepSites

(* What a call, or a block, leaves to come back to.                      *)
LEMMA EnterSites ==
  ASSUME StopsInv, Running, Op.op \in {"call", "tail", "block", "measure"}, NEW a, a.proc = Op.to, a.pc = 1,
         a.call \/ a.measuring \/ Op.op = "block", Step(Append(Advance, a)), verdict' = "ok",
         NEW current, NEW hops, SitesPlaced(current, hops), SitesInv(current, hops)
  PROVE  SitesInv(current, hops)'
<1>1. Op.to \in Procs
  BY RunningOperation DEF OperationOK
<1> PICK n \in Nat \ {0} : n = Len(frames)
  BY RunningFrame
<1>2. Advance \in Seq(Activations)
  BY Advanced
<1>3. Top \in Activations /\ Top = frames[n] /\ frames \in Seq(Activations)
  BY RunningFrame DEF Top, StopsInv
<1>4. Len(Advance) = n /\ Advance[n].proc = Top.proc /\ Advance[n].pc = Top.pc + 1
  BY <1>3 DEF Advance, Goto, Activations
<1>5. Op.op = "block" => current[Top.proc][Top.pc + 1] = NoLoc
  BY PlacedOperation DEF Next1
<1>6. Live => AllPlaced(current, hops, Advance, lastStmt)
  BY AdvancePlaced DEF SitesInv
<1>7. Live => AllPlaced(current, hops, Append(Advance, a), lastStmt)
  BY <1>1, <1>2, <1>4, <1>5, <1>6, EntrantPlaced
<1> QED
  BY <1>7, StepSites

LEMMA CallSites ==
  ASSUME StopsInv, CallUser \/ TailCall \/ RunBlock, NEW current, NEW hops,
         SitesPlaced(current, hops), SitesInv(current, hops)
  PROVE  SitesInv(current, hops)'
<1>1. CASE CallUser \/ TailCall
  <2> DEFINE a == Frame(Op.to, Eligible(Op.to), TRUE, FALSE, Known)
  <2>1. a.proc = Op.to /\ a.pc = 1 /\ a.call
    BY DEF Frame
  <2>2. /\ Running /\ Op.op \in {"call", "tail"} /\ Step(Append(Advance, a)) /\ verdict' = "ok"
    BY <1>1 DEF CallUser, TailCall
  <2> HIDE DEF a
  <2> QED
    BY <2>1, <2>2, EnterSites
<1>2. CASE RunBlock
  <2> DEFINE a == Frame(Op.to, Top.vm, FALSE, Op.op = "measure", Top.known)
  <2>1. a.proc = Op.to /\ a.pc = 1 /\ (Op.op = "measure" => a.measuring)
    BY DEF Frame
  <2>2. /\ Running /\ Op.op \in {"block", "measure"} /\ Step(Append(Advance, a)) /\ verdict' = "ok"
    BY <1>2 DEF RunBlock
  <2> HIDE DEF a
  <2> QED
    BY <2>1, <2>2, EnterSites
<1> QED
  BY <1>1, <1>2

(* A hop leaves the statement it was in behind.                          *)
LEMMA HopSites ==
  ASSUME StopsInv, TailHop, NEW current, NEW hops, SitesPlaced(current, hops), SitesInv(current, hops)
  PROVE  SitesInv(current, hops)'
<1> DEFINE a == [Top EXCEPT !.proc = Op.to, !.known = Known, !.pc = 2, !.begun = {}]
           fs == [frames EXCEPT ![Len(frames)] = a]
<1>1. Running /\ Op.op = "tail" /\ verdict' = "ok" /\ Step(fs)
  BY DEF TailHop, Top
<1> PICK n \in Nat \ {0} : n = Len(frames)
  BY RunningFrame
<1>2. Top \in Activations /\ Top = frames[n] /\ frames \in Seq(Activations)
  BY RunningFrame DEF Top, StopsInv
<1>3. /\ a.proc = Op.to /\ a.vm = Top.vm /\ a.call = Top.call /\ a.measuring = Top.measuring
      /\ a.begun = {}
  BY <1>2 DEF Activations
<1> HIDE DEF a
<1>4. fs[n] = a /\ \A k \in 1..n : fs[k].call = frames[k].call /\ fs[k].measuring = frames[k].measuring
  BY <1>2, <1>3
<1>5. fs = [frames EXCEPT ![n] = a]
  OBVIOUS
<1> HIDE DEF fs
<1>6. ASSUME AllPlaced(current, hops, frames, lastStmt) PROVE Placed(current, hops, fs, lastStmt, n)
  <2>1. SUFFICES ASSUME Heard(fs, n) PROVE Follows(current, hops, a, At(lastStmt, DepthOf(fs, n)))
    BY <1>4 DEF Placed
  <2>2. Heard(frames, n)
    BY <1>2, <1>3, <1>4, <2>1 DEF Heard
  <2>3. /\ Here(current) # NoLoc /\ Here(current) \in hops[Op.to]
        /\ hops[Top.proc] \subseteq hops[Op.to]
    BY <1>1, PlacedOperation
  <2>4. Follows(current, hops, Top, At(lastStmt, DepthOf(frames, n)))
    BY <1>2, <1>6, <2>2, <2>3 DEF AllPlaced, Placed, Here
  <2>5. At(lastStmt, DepthOf(frames, n)) \in hops[Op.to]
    BY <2>3, <2>4 DEF Follows, Here
  <2>6. DepthOf(fs, n) = DepthOf(frames, n)
    BY <1>4, SameDepth
  <2> QED
    BY <1>3, <2>5, <2>6 DEF Follows
<1>7. Live => AllPlaced(current, hops, fs, lastStmt)
  BY <1>2, <1>3, <1>5, <1>6, OthersPlaced DEF SitesInv
<1> QED
  BY <1>1, <1>7, StepSites

LEMMA ReturnSites ==
  ASSUME StopsInv, Return, NEW current, NEW hops, SitesInv(current, hops)
  PROVE  SitesInv(current, hops)'
<1> PICK n \in Nat \ {0} : n = Len(frames)
  BY RunningFrame
<1>1. n - 1 \in Nat \ {0} /\ n - 1 <= Len(frames) /\ frames' = SubSeq(frames, 1, n - 1)
  BY DEF Return
<1>2. UNCHANGED <<host, phase, lastStmt>> /\ verdict' = "ok"
  BY DEF Return, Unpolled
<1>3. Live => AllPlaced(current, hops, frames', lastStmt)
  BY <1>1, LeftPlaced DEF SitesInv, StopsInv
<1> QED
  BY <1>2, <1>3, SitesKept

(* A run begins in no statement.                                         *)
LEMMA ScriptPlaced ==
  ASSUME NEW current, NEW hops, SitesPlaced(current, hops), NEW h, NEW ls
  PROVE  AllPlaced(current, hops, <<Script(h)>>, ls)
<1>1. current[Script(h).proc][Script(h).pc] = NoLoc
  BY DebuggerAssumption DEF SitesPlaced, Script
<1> QED
  BY <1>1 DEF AllPlaced, Placed

LEMMA RunSites ==
  ASSUME StopsInv, StartRun, NEW current, NEW hops, SitesPlaced(current, hops), SitesInv(current, hops)
  PROVE  SitesInv(current, hops)'
<1>1. frames' = <<Script(host)>> /\ verdict' = "ok" /\ host' = host
  BY DEF StartRun, FreshEvaluator
<1>2. AllPlaced(current, hops, frames', lastStmt')
  BY <1>1, ScriptPlaced
<1>3. AllPlaced(current, hops, frames', lastStmt') => AllPlaced(current, hops, frames, lastStmt)'
  BY DEF AllPlaced, Placed, Resumes, Heard, Follows, At, DepthOf
<1> QED
  BY <1>1, <1>2, <1>3 DEF SitesInv, CallSitesStopOnce

LEMMA InitSites ==
  ASSUME Init, NEW current, NEW hops, SitesPlaced(current, hops)
  PROVE  SitesInv(current, hops)
<1>1. frames = <<Script(host)>> /\ verdict = "ok"
  BY DEF Init
<1> QED
  BY <1>1, ScriptPlaced DEF SitesInv, CallSitesStopOnce

(* Every action keeps it.                                                *)
LEMMA NextSites ==
  ASSUME StopsInv, [Next]_vars, NEW current, NEW hops, SitesPlaced(current, hops), SitesInv(current, hops)
  PROVE  SitesInv(current, hops)'
<1>0. verdict \notin {"twice", "lost"}
  BY DEF SitesInv, CallSitesStopOnce
<1>1. CASE CheckPassed \/ Hook \/ Compiled
  BY <1>1, CheckpointSites, CompiledSites
<1>2. CASE CallUser \/ TailCall \/ TailHop \/ RunBlock \/ Loop \/ Return
  BY <1>2, CallSites, HopSites, LoopSites, ReturnSites
<1>3. CASE CheckCancelled
  BY <1>0, <1>3, SitesOver DEF CheckCancelled
<1>4. CASE PollCancelled
  BY <1>0, <1>4, SitesOver DEF PollCancelled
<1>5. CASE StopCommand
  <2>1. PICK k : Throw(k)
    BY <1>5 DEF StopCommand
  <2>2. host' = host /\ verdict' = "ok"
    BY <1>5 DEF StopCommand
  <2> QED
    BY <2>1, <2>2, SitesOver
<1>6. CASE Fail
  <2>1. UNCHANGED <<host, lastStmt>> /\ verdict' = "ok" /\ phase = "eval"
    BY <1>6 DEF Fail, Running
  <2>2. frames' = frames \/ Throw("error")
    BY <1>6 DEF Fail
  <2> QED
    BY <2>1, <2>2, SitesSame, SitesOver
<1>7. CASE GenerateNode
  <2>1. UNCHANGED <<host, lastStmt, verdict>> /\ phase = "generate"
    BY <1>7 DEF GenerateNode
  <2>2. (frames' = frames /\ phase' = phase) \/ Throw("cancel")
    BY <1>7 DEF GenerateNode
  <2> QED
    BY <1>0, <2>1, <2>2, SitesSame, SitesOver
<1>8. CASE PromptRun
  BY <1>8, RunSites DEF PromptRun
<1>9. CASE Caught
  <2>1. \/ StartRun
        \/ UNCHANGED <<host, lastStmt, frames, verdict>> /\ phase' \in {"prompt", "over"}
    BY <1>9 DEF Caught, evalVars, history
  <2> QED
    BY <1>0, <2>1, RunSites, SitesSame
<1>10. CASE Resume
  <2>1. UNCHANGED <<host, lastStmt>> /\ verdict' = "ok" /\ AtPrompt
    BY <1>10 DEF Resume
  <2>2. frames' = frames \/ Throw("error")
    BY <1>10 DEF Resume, Leave
  <2> QED
    BY <2>1, <2>2, SitesSame, SitesOver DEF AtPrompt
<1>11. CASE ResolveDone \/ GenerateDone \/ PromptQuit
  <2>1. UNCHANGED <<host, lastStmt, frames, verdict>> /\ phase' \in {"generate", "over"}
    BY <1>11 DEF ResolveDone, GenerateDone, PromptQuit, evalVars, history
  <2> QED
    BY <1>0, <2>1, SitesSame
<1>12. CASE SetVar \/ EditBreak \/ RequestPause \/ RequestCancel \/ Signal
  <2>1. UNCHANGED <<host, lastStmt, frames, verdict, phase>>
    BY <1>12 DEF SetVar, EditBreak, RequestPause, RequestCancel, Signal, evalVars, history
  <2> QED
    BY <1>0, <2>1, SitesSame
<1>13. CASE UNCHANGED vars
  <2>1. UNCHANGED <<host, lastStmt, frames, verdict, phase>>
    BY <1>13 DEF vars, evalVars, history
  <2> QED
    BY <1>0, <2>1, SitesSame
<1> QED
  BY <1>1, <1>2, <1>3, <1>4, <1>5, <1>6, <1>7, <1>8, <1>9, <1>10, <1>11, <1>12, <1>13
     DEF Next, Evaluate, User

(* No execution of a line stops twice, no call on a line of its own loses*)
(* its stop, and no breakpoint is missed, in every script whose call sites*)
(* follow their statement and whose tail calls do not land on a call on  *)
(* the line they leave (debug_profile.cpp:111-120, evaluator.hpp:734-739).*)
THEOREM StopsStayExact ==
  ASSUME NEW current, NEW hops, SitesPlaced(current, hops)
  PROVE  Spec => []StopsExact
<1>1. Init => StopsInv /\ SitesInv(current, hops)
  BY InitStops, InitSites
<1>2. StopsInv /\ SitesInv(current, hops) /\ [Next]_vars => (StopsInv /\ SitesInv(current, hops))'
  BY NextStops, NextSites
<1>3. StopsInv /\ SitesInv(current, hops) => StopsExact
  BY DEF StopsInv, SitesInv, StopsExact
<1> QED
  BY <1>1, <1>2, <1>3, PTL DEF Spec

=============================================================================

--------------------------- MODULE HookExecution ----------------------------
(***************************************************************************)
(* One synchronous hook invocation (executeHookWithControlAndSideEffect    *)
(* and stopHookAndWait, hook.go) over the processes it starts              *)
(* (HookBoundary) and the signals it shares with another goroutine         *)
(* (SignalTracker).  HookRunner, which the models of a run use, knows a    *)
(* hook's process only as "ended by itself" or "killed"; here that is      *)
(* shown to be what the system calls of stop give.                         *)
(***************************************************************************)
EXTENDS SignalTracker, HookBoundary

CONSTANTS Caller,      \* the goroutine that runs the hook
          Other,       \* another goroutine that may take signals
          Hook         \* the hook

ASSUME ProcsAssumption == Procs = {Caller, Other} /\ Caller # Other
ASSUME HookAssumption == Hooks = {Hook}

VARIABLES pc,        \* the invocation's control point
          cause,     \* what stopHookAndWait was called for
          stopErr,   \* what boundary.stop returned, "unset" if it did not
          hookGen,   \* signalGeneration
          hookFrom,  \* history: `sent` when the observation began
          timed,     \* is --hook-timeout set? fixed for the run
          result     \* what the invocation returned

invocationVars == <<pc, cause, stopErr, hookGen, hookFrom, result>>
vars == <<os, group, signalVars, invocationVars, timed>>

PCs == {"idle", "poll", "run", "taken", "timer",
        "check", "root", "probe", "kill", "await", "done"}

TypeOK ==
  /\ SignalTypeOK /\ BoundaryTypeOK
  /\ pc \in PCs
  /\ cause \in {"none", "signal", "timeout"}
  /\ stopErr \in {"unset", "none", "done", "error"}
  /\ hookGen \in Nat /\ hookFrom \in Signals
  /\ timed \in BOOLEAN
  /\ result \in {"none", "ok", "fail", "signal", "timeout"}

Init ==
  /\ SignalInit /\ BoundaryInit
  /\ pc = "idle" /\ cause = "none" /\ stopErr = "unset"
  /\ hookGen = 0 /\ hookFrom = 0
  /\ timed \in BOOLEAN
  /\ result = "none"

\* Only the control point, and perhaps the cause of a stop, change.
Goto(next, why) ==
  /\ pc' = next /\ cause' = why
  /\ UNCHANGED <<stopErr, hookGen, hookFrom, result>>

-----------------------------------------------------------------------------
Call ==
  /\ pc = "idle"
  /\ Goto("poll", cause)
  /\ UNCHANGED <<os, group, signalVars, timed>>

\* tracker.poll(), before the observation and again when the timer fired.
Poll ==
  /\ pc \in {"poll", "timer"}
  /\ PollStep(Caller)
  /\ UNCHANGED <<os, group, invocationVars, timed>>

Start ==
  /\ pc = "poll" /\ Drained(Caller)
  /\ Launch(Hook)
  /\ pc' = "run" /\ hookGen' = gen /\ hookFrom' = sent
  /\ UNCHANGED <<os, signalVars, cause, stopErr, result, timed>>

\* The invocation returns r; a deferred call closes the boundary.
Return(r) ==
  /\ pc' = "done" /\ result' = r
  /\ CloseBoundary(Hook)
  /\ UNCHANGED <<os, signalVars, cause, stopErr, hookGen, hookFrom, timed>>

StartFails == pc = "poll" /\ Drained(Caller) /\ Return("fail")

\* Cmd.Wait's result; ErrWaitDelay counts as success.
NaturalResult == IF group[Hook].exit = "ok" THEN "ok" ELSE "fail"

\* case err := <-waitDone
Wait == pc = "run" /\ group[Hook].waited /\ Return(NaturalResult)

\* case <-timeoutC
Timer ==
  /\ pc = "run" /\ timed
  /\ Goto("timer", cause)
  /\ UNCHANGED <<os, group, signalVars, timed>>

\* A signal accepted during this hook takes precedence over the timer.
TimerDecides ==
  /\ pc = "timer" /\ Drained(Caller)
  /\ Goto("check", IF GenerationChanged(hookGen) THEN "signal" ELSE "timeout")
  /\ UNCHANGED <<os, group, signalVars, timed>>

\* case sig := <-signalC, then remember
TakeSignal ==
  \/ pc = "run" /\ Receive(Caller) /\ Goto("taken", cause)
     /\ UNCHANGED <<os, group, timed>>
  \/ pc = "taken" /\ Remember(Caller) /\ Goto("check", "signal")
     /\ UNCHANGED <<os, group, timed>>

\* case <-signalDone
Notified ==
  /\ pc = "run" /\ GenerationChanged(hookGen)
  /\ Goto("check", "signal")
  /\ UNCHANGED <<os, group, signalVars, timed>>

\* A result that is already there is returned; otherwise stop begins.
Check ==
  /\ pc = "check"
  /\ IF group[Hook].waited
       THEN Return(NaturalResult)
       ELSE Goto("root", cause) /\ UNCHANGED <<os, group, signalVars, timed>>

-----------------------------------------------------------------------------
(* stopHookAndWait: boundary.stop, then the wait result. *)

StopRoot ==
  /\ pc = "root"
  /\ ProbeRoot(Hook) /\ Goto("probe", cause)
  /\ UNCHANGED <<os, signalVars, timed>>

StopProbe ==
  /\ pc = "probe"
  /\ ProbeGroup(Hook)
  /\ pc' = IF Running(Hook) THEN "kill" ELSE "await"
  /\ stopErr' = IF Running(Hook) THEN stopErr ELSE "done"
  /\ UNCHANGED <<os, signalVars, cause, hookGen, hookFrom, result, timed>>

StopKill ==
  /\ pc = "kill"
  /\ Kill(Hook, stopErr')
  /\ pc' = "await"
  /\ UNCHANGED <<os, signalVars, cause, hookGen, hookFrom, result, timed>>

\* What stopHookAndWait makes of it.
AlwaysStopped == TRUE       \* fault: a natural exit is not told from a stop
Stopped == KilledRoot(Hook)

Outcome ==
  IF stopErr = "error" THEN "fail"
  ELSE IF stopErr = "none" /\ Stopped THEN cause ELSE NaturalResult

Await == pc = "await" /\ group[Hook].waited /\ Return(Outcome)

-----------------------------------------------------------------------------
CallerSteps ==
  \/ Call \/ Poll \/ Start \/ StartFails \/ Wait \/ Timer \/ TimerDecides
  \/ TakeSignal \/ Notified \/ Check
  \/ StopRoot \/ StopProbe \/ StopKill \/ Await

OtherSteps == PollStep(Other) /\ UNCHANGED <<os, group, invocationVars, timed>>

ProcessSteps ==
  /\ Fork(Hook) \/ KidsExit(Hook) \/ RootExit(Hook)
  /\ UNCHANGED <<os, signalVars, invocationVars, timed>>

KernelSteps ==
  /\ Reap(Hook) \/ WaitReturns(Hook)
  /\ UNCHANGED <<os, signalVars, invocationVars, timed>>

Signal == Deliver /\ UNCHANGED <<os, group, invocationVars, timed>>

Finished == pc = "done" /\ UNCHANGED vars

Next == \/ CallerSteps \/ OtherSteps \/ ProcessSteps \/ KernelSteps \/ Signal
        \/ Finished

Spec == Init /\ [][Next]_vars

\* The goroutines are scheduled and the kernel does its part; the hook's
\* processes need never end.  (The other goroutine remembers what it received.)
FairSpec ==
  /\ Spec
  /\ WF_vars(CallerSteps) /\ WF_vars(KernelSteps)
  /\ WF_vars(Remember(Other) /\ UNCHANGED <<os, group, invocationVars, timed>>)

-----------------------------------------------------------------------------
(* What makes an invocation correct. *)

\* Once an invocation that called stop has returned, none of the hook's processes
\* runs any more, whatever was forked between the system calls of stop and
\* whatever the invocation returned, unless the system refused to kill them.
StopLeavesNobody ==
  pc = "done" /\ stopErr \notin {"unset", "error"} => ~ActiveProcesses(Hook)

\* "`interrupted` is reserved for a still-running hook that pipewisp stopped
\* after accepting a handled signal" (README.md:437): a hook reported as
\* interrupted did not end by itself.
InterruptedWasRunning ==
  result = "signal" => group[Hook].exit = "killed"

\* A signal that arrives while the hook runs ends the invocation although the
\* hook's processes never end, whichever goroutine takes it, unless the system
\* refuses to kill them.
SignalEndsHook ==
  pc = "run" /\ (chan # 0 \/ GenerationChanged(hookGen))
    ~> pc = "done" \/ stopErr = "error"

\* Before stop has looked at the root.
Observing == {"run", "taken", "timer", "check", "root"}

\* The root's end counts as pipewisp's kill, or may still come to count as one:
\* on Windows any end after stop looked at the root, on Unix a death of SIGKILL,
\* whoever sent it, that is not reaped when stop looks.
CountsAsKilled ==
  /\ ~group[Hook].rootExited /\ stopErr \notin {"done", "error"}
  /\ \/ os = "windows" /\ pc \notin Observing
     \/ /\ os = "unix" /\ DiedOfSIGKILL(Hook)
        /\ pc \in Observing => group[Hook].life = "zombie"

\* HookRunner's view of the invocation: the hook's process is alive until it ends
\* in a way that pipewisp can tell from its own kill.  Where the kill failed, a
\* success that came after stop looked at the root (on Windows) is a failure.
RunnerProc ==
  IF pc \in {"idle", "poll", "done"} THEN "none"
  ELSE IF group[Hook].exit = "none" \/ CountsAsKilled THEN "alive"
  ELSE IF /\ group[Hook].exit = "ok"
          /\ os = "windows" /\ stopErr = "error" => group[Hook].rootExited
         THEN "ok"
  ELSE "fail"

\* A boundary that could not be stopped shows where it costs the hook its success.
RunnerPC ==
  CASE pc \in {"idle", "poll", "run", "taken", "timer"} -> pc
    [] pc = "done"                                     -> "idle"
    [] pc = "await" /\ stopErr = "error" /\ group[Hook].waited
         /\ RunnerProc = "ok"                           -> "reap"
    [] OTHER -> IF cause = "signal" THEN "stopSignal" ELSE "stopTimeout"

AtCaller(value, default) == [g \in Procs |-> IF g = Caller THEN value ELSE default]

Runner == INSTANCE HookRunner WITH
  HookNames <- Hooks,
  opts      <- [hooks |-> Hooks, observe |-> FALSE, ignore |-> FALSE,
                timeout |-> timed, dryRun |-> FALSE],
  hpc       <- AtCaller(RunnerPC, "idle"),
  hname     <- AtCaller(IF pc = "idle" THEN "none" ELSE Hook, "none"),
  proc      <- AtCaller(RunnerProc, "none"),
  hookGen   <- AtCaller(hookGen, 0),
  hookFrom  <- AtCaller(hookFrom, 0),
  result    <- [n \in Hooks |-> result]

RunnerStep ==
  \/ Runner!CallHook(Caller, Hook) /\ UNCHANGED signalVars
  \/ Runner!HookStep(Caller) \/ Runner!ProcExit(Caller)
  \/ (PollStep(Other) \/ Deliver) /\ UNCHANGED Runner!hookVars

\* On either platform an invocation does what HookRunner, as used by the models
\* of a whole run, says: at every system call of stop the hook's processes may
\* end, and still a natural result, a signal, a timeout and a boundary error are
\* told apart as if the stop were one step, but for the ends that count as killed.
ImplementsRunner ==
  /\ Runner!HookInit
  /\ [][RunnerStep]_<<signalVars, Runner!hookVars>>
=============================================================================

------------------------ MODULE HookExecutionProofs -------------------------
(***************************************************************************)
(* Theorems about HookExecution: what stopping a hook leaves behind, and   *)
(* that the system calls of one invocation implement HookRunner, on both   *)
(* platforms, for any number of signals and whether or not a kill may be   *)
(* refused.                                                                *)
(***************************************************************************)
EXTENDS HookExecution, HookBoundaryProofs, TLAPS

-----------------------------------------------------------------------------
(* The inductive invariant.                                                *)

Unstarted == {"idle", "poll"}
Stopping  == {"probe", "kill"}

\* Nothing was started, or nothing could be.
NothingStarted == group[Hook].life = "none" /\ stopErr = "unset" /\ ~group[Hook].rootExited

\* Before stop looked at anything, the root ends by itself only.
NotStopped ==
  /\ stopErr = "unset" /\ ~group[Hook].rootExited
  /\ group[Hook].exit # "killed"

\* What a stop that was not refused leaves: at most the root's zombie.
StoppedClean ==
  /\ ~group[Hook].kids /\ group[Hook].life \in {"zombie", "reaped"}
  /\ group[Hook].exit = "killed" => stopErr = "none"

ControlInv ==
  /\ pc \in Unstarted => NothingStarted /\ result = "none"
  /\ pc \in Observing \cup Stopping \cup {"await"} =>
       group[Hook].life # "none" /\ result = "none"
  /\ pc \in Observing => NotStopped /\ group[Hook].tracked
  /\ pc \in Stopping =>
       stopErr = "unset" /\ group[Hook].exit # "killed" /\ group[Hook].tracked
  /\ pc = "await" => stopErr # "unset"
  /\ pc = "await" /\ stopErr # "error" => StoppedClean
  /\ pc = "done" =>
       \/ NotStopped /\ result \in {"ok", "fail"}
       \/ stopErr = "error" \/ StoppedClean
  /\ pc \in {"check", "root", "await"} \cup Stopping => cause \in {"signal", "timeout"}

IInv == TypeOK /\ RootOrder(Hook) /\ ControlInv

-----------------------------------------------------------------------------
(* Typing. *)

\* The module has one invocation, which is a hook of the boundary.
LEMMA HookIsOne == Hook \in Hooks
BY HookAssumption

\* The three ways a kill may go (hook_unix.go and hook_windows.go, stop).
LEMMA KillErrors ==
  ASSUME NEW err, Kill(Hook, err)
  PROVE  err \in {"none", "done", "error"}
BY DEF Kill, VanishedErr

\* To the hook's boundary, a step is one of the boundary's, or nothing.
LEMMA StepOfBoundary ==
  ASSUME [Next]_vars
  PROVE  BoundaryStep(Hook) \/ UNCHANGED group
<1>1. CASE StopKill
  BY <1>1, KillErrors DEF StopKill, BoundaryStep
<1>2. CASE CallerSteps /\ ~StopKill
  BY <1>2 DEF CallerSteps, Call, Poll, Start, StartFails, Wait, Timer,
     TimerDecides, TakeSignal, Notified, Check, StopRoot, StopProbe, Await,
     Return, BoundaryStep
<1> QED
  BY <1>1, <1>2 DEF Next, OtherSteps, ProcessSteps, KernelSteps, Signal,
     Finished, vars, BoundaryStep

\* To the signal tracker, it is a goroutine's receive or remember, a delivery,
\* or nothing.
LEMMA StepOfTracker ==
  ASSUME [Next]_vars
  PROVE  [ (\E g \in Procs : PollStep(g)) \/ Deliver ]_signalVars
<1>1. Caller \in Procs /\ Other \in Procs
  BY ProcsAssumption
<1>2. CASE CallerSteps
  BY <1>1, <1>2 DEF CallerSteps, Call, Poll, Start, StartFails, Wait, Timer,
     TimerDecides, TakeSignal, Notified, Check, StopRoot, StopProbe, StopKill,
     Await, Return, PollStep
<1> QED
  BY <1>1, <1>2 DEF Next, OtherSteps, ProcessSteps, KernelSteps, Signal,
     Finished, vars

\* The steps of the signal tracker keep its variables in their types: a
\* goroutine that receives or remembers a signal (completion.go, poll and
\* remember), and the delivery of one.
LEMMA SignalTyping ==
  ASSUME SignalTypeOK, [ (\E g \in Procs : PollStep(g)) \/ Deliver ]_signalVars
  PROVE  SignalTypeOK'
<1> USE MaxSignalsAssumption DEF SignalTypeOK, Signals
<1>1. ASSUME NEW g \in Procs, Receive(g) PROVE SignalTypeOK'
  BY <1>1 DEF Receive
<1>2. ASSUME NEW g \in Procs, Remember(g) PROVE SignalTypeOK'
  BY <1>2 DEF Remember
<1>3. CASE Deliver
  BY <1>3 DEF Deliver
<1>4. CASE UNCHANGED signalVars
  BY <1>4 DEF signalVars
<1> QED BY <1>1, <1>2, <1>3, <1>4 DEF PollStep

\* Every step keeps the variables in their types.
LEMMA Typing ==
  ASSUME TypeOK, ControlInv, [Next]_vars
  PROVE  TypeOK'
<1>1. SignalTypeOK'
  BY StepOfTracker, SignalTyping DEF TypeOK
<1>2. group' \in [Hooks -> Group]
  BY StepOfBoundary, BoundaryTyping, HookIsOne DEF TypeOK, BoundaryTypeOK
<1>3. os' = os /\ timed' = timed
  BY DEF Next, CallerSteps, Call, Poll, Start, StartFails, Wait, Timer,
     TimerDecides, TakeSignal, Notified, Check, StopRoot, StopProbe, StopKill,
     Await, Return, OtherSteps, ProcessSteps, KernelSteps, Signal, Finished, vars
<1>4. /\ pc' \in PCs
      /\ cause' \in {"none", "signal", "timeout"}
      /\ stopErr' \in {"unset", "none", "done", "error"}
      /\ hookGen' \in Nat /\ hookFrom' \in Signals
      /\ result' \in {"none", "ok", "fail", "signal", "timeout"}
  <2> USE DEF TypeOK, PCs, SignalTypeOK, invocationVars, Goto, Return,
          NaturalResult
  <2>1. CASE Call \/ Poll \/ Start \/ StartFails \/ Wait \/ Timer
    BY <2>1 DEF Call, Poll, Start, StartFails, Wait, Timer
  <2>2. CASE TimerDecides \/ TakeSignal \/ Notified \/ Check
    BY <2>2 DEF TimerDecides, TakeSignal, Notified, Check
  <2>3. CASE StopRoot \/ StopProbe
    BY <2>3 DEF StopRoot, StopProbe
  <2>4. CASE StopKill
    BY <2>4, KillErrors DEF StopKill
  <2>5. CASE Await
    BY <2>5 DEF Await, Outcome, ControlInv
  <2>6. CASE ~CallerSteps
    BY <2>6 DEF Next, OtherSteps, ProcessSteps, KernelSteps, Signal, Finished,
       vars
  <2> QED BY <2>1, <2>2, <2>3, <2>4, <2>5, <2>6 DEF CallerSteps
<1> QED BY <1>1, <1>2, <1>3, <1>4 DEF TypeOK, BoundaryTypeOK

-----------------------------------------------------------------------------
(* The invariant is inductive. *)

\* Every step keeps the invariant: the root's life is in order, a stop begins
\* with a tracked boundary, and ends with an empty one or an error.
LEMMA ControlKept ==
  ASSUME IInv, [Next]_vars
  PROVE  RootOrder(Hook)' /\ ControlInv'
<1> USE HookIsOne, PlatformAssumption
        DEF IInv, TypeOK, BoundaryTypeOK, Group, Lives, Exits, PCs, Goto,
            ControlInv, RootOrder, Unstarted, Observing, Stopping,
            NothingStarted, NotStopped, StoppedClean, invocationVars
<1>1. CASE Call
  BY <1>1 DEF Call
<1>2. CASE Poll
  BY <1>2 DEF Poll
<1>3. CASE Start
  BY <1>3 DEF Start, Launch, Drained
<1>4. CASE StartFails
  BY <1>4 DEF StartFails, Return, CloseBoundary
<1>5. CASE Wait
  BY <1>5 DEF Wait, Return, NaturalResult, CloseBoundary
<1>6. CASE Timer
  BY <1>6 DEF Timer
<1>7. CASE TimerDecides
  BY <1>7 DEF TimerDecides
<1>8. CASE TakeSignal
  BY <1>8 DEF TakeSignal
<1>9. CASE Notified
  BY <1>9 DEF Notified
<1>10. CASE Check
  BY <1>10 DEF Check, Return, NaturalResult, CloseBoundary
<1>11. CASE StopRoot
  BY <1>11 DEF StopRoot, ProbeRoot, ReapedRoot, ExitedRoot
<1>12. CASE StopProbe
  BY <1>12 DEF StopProbe, ProbeGroup, Running, Populated, GroupMembers,
     ActiveProcesses
<1>13. CASE StopKill
  BY <1>13 DEF StopKill, Kill, KillGroup, TerminateJob, EndMembers, Vanished,
     VanishedErr, KillRefused, TerminateFails, GroupMembers
<1>14. CASE Await
  BY <1>14 DEF Await, Return, Outcome, Stopped, KilledRoot, DiedOfSIGKILL,
     NaturalResult, CloseBoundary
<1>15. CASE OtherSteps
  BY <1>15 DEF OtherSteps
<1>16. CASE Fork(Hook) /\ UNCHANGED <<os, signalVars, invocationVars, timed>>
  BY <1>16 DEF Fork
<1>17. CASE KidsExit(Hook) /\ UNCHANGED <<os, signalVars, invocationVars, timed>>
  BY <1>17 DEF KidsExit
<1>18. CASE RootExit(Hook) /\ UNCHANGED <<os, signalVars, invocationVars, timed>>
  BY <1>18 DEF RootExit, OwnExits
<1>19. CASE KernelSteps
  BY <1>19 DEF KernelSteps, Reap, WaitReturns
<1>20. CASE Signal
  BY <1>20 DEF Signal
<1>21. CASE UNCHANGED vars
  BY <1>21 DEF vars
<1> QED
  BY <1>1, <1>2, <1>3, <1>4, <1>5, <1>6, <1>7, <1>8, <1>9, <1>10, <1>11, <1>12,
     <1>13, <1>14, <1>15, <1>16, <1>17, <1>18, <1>19, <1>20, <1>21 DEF Next,
     CallerSteps, ProcessSteps, Finished

\* An invocation starts in the invariant.
LEMMA InitEstablishes == Init => IInv
<1> SUFFICES ASSUME Init PROVE IInv
  OBVIOUS
<1> USE HookIsOne DEF Init, BoundaryInit
<1>1. NoGroup \in Group
  BY DEF NoGroup, Group, Lives, Exits
<1>2. group[Hook] = NoGroup /\ group \in [Hooks -> Group]
  BY <1>1
<1>3. TypeOK
  BY <1>2, MaxSignalsAssumption DEF TypeOK, SignalTypeOK, SignalInit, Signals,
     BoundaryTypeOK, PCs
<1> QED
  BY <1>2, <1>3 DEF IInv, RootOrder, ControlInv, NoGroup, Unstarted,
     Observing, Stopping, NothingStarted

\* The invariant holds in every reachable state.
LEMMA Inductive == Spec => []IInv
<1>1. IInv /\ [Next]_vars => IInv'
  BY Typing, ControlKept DEF IInv
<1> QED BY <1>1, InitEstablishes, PTL DEF Spec

-----------------------------------------------------------------------------
(* The theorems. *)

\* Every variable of the invocation stays in its type.
THEOREM TypeCorrect == Spec => []TypeOK
<1>1. IInv => TypeOK
  BY DEF IInv
<1> QED BY <1>1, Inductive, PTL

\* An invocation whose hook was stopped leaves none of its processes running,
\* whatever was forked between the system calls of stop, unless the system
\* refused to kill them.
THEOREM StoppedHookIsGone == Spec => []StopLeavesNobody
<1>1. IInv => StopLeavesNobody
  BY DEF IInv, ControlInv, NotStopped, StoppedClean, StopLeavesNobody,
     ActiveProcesses
<1> QED BY <1>1, Inductive, PTL

-----------------------------------------------------------------------------
(* The refinement.  One invocation, as its system calls, implements HookRunner. *)

\* What HookRunner sees of a step that it does not take.
LEMMA Stutter ==
  ASSUME RunnerPC' = RunnerPC, RunnerProc' = RunnerProc, (pc = "idle")' = (pc = "idle"),
         UNCHANGED <<hookGen, hookFrom, result, timed>>
  PROVE  UNCHANGED Runner!hookVars
BY DEF Runner!hookVars, AtCaller

\* An invocation returns to HookRunner's caller what it returns here.
LEMMA ReturnMaps ==
  ASSUME NEW r, Return(r), pc # "idle"
  PROVE  Runner!Return(Caller, r) /\ UNCHANGED Runner!signalVars
<1>0. Caller \in Procs
  BY ProcsAssumption
<1>1. pc' = "done" /\ result' = r /\ RunnerPC' = "idle" /\ RunnerProc' = "none"
  BY DEF Return, RunnerPC, RunnerProc
<1>2. UNCHANGED <<hookGen, hookFrom, timed>>
  BY DEF Return
<1>3. [n \in Hooks |-> result]' = [[n \in Hooks |-> result] EXCEPT ![Hook] = r]
  BY <1>1, HookAssumption
<1>4. AtCaller(RunnerPC, "idle")' = [AtCaller(RunnerPC, "idle") EXCEPT ![Caller] = "idle"]
  BY <1>0, <1>1 DEF AtCaller
<1>5. AtCaller(RunnerProc, "none")' = [AtCaller(RunnerProc, "none") EXCEPT ![Caller] = "none"]
  BY <1>0, <1>1 DEF AtCaller
<1>6. /\ AtCaller(IF pc = "idle" THEN "none" ELSE Hook, "none")[Caller] = Hook
      /\ AtCaller(IF pc = "idle" THEN "none" ELSE Hook, "none")' =
           AtCaller(IF pc = "idle" THEN "none" ELSE Hook, "none")
  BY <1>0, <1>1 DEF AtCaller
<1>7. UNCHANGED Runner!signalVars
  BY DEF Return, signalVars, Runner!signalVars
<1> QED
  BY <1>2, <1>3, <1>4, <1>5, <1>6, <1>7 DEF Runner!Return, AtCaller

\* What HookRunner sees of a step that is not the invocation's own: nothing, the
\* end of its process, or that a boundary could not be stopped.
LEMMA Unseen ==
  ASSUME UNCHANGED <<hookGen, hookFrom, result, timed, signalVars>>,
         (pc = "idle")' = (pc = "idle"),
         \/ RunnerProc' = RunnerProc /\ RunnerPC' = RunnerPC
         \/ RunnerProc = "alive" /\ RunnerProc' \in Runner!Exits /\ RunnerPC' = RunnerPC
         \/ /\ RunnerProc' = RunnerProc
            /\ RunnerPC \in {"stopSignal", "stopTimeout"} /\ RunnerPC' = "reap"
  PROVE  RunnerStep \/ UNCHANGED <<signalVars, Runner!hookVars>>
<1>0. Caller \in Procs
  BY ProcsAssumption
<1>1. CASE RunnerProc' = RunnerProc /\ RunnerPC' = RunnerPC
  BY <1>1, Stutter
<1>2. CASE RunnerProc = "alive" /\ RunnerProc' \in Runner!Exits /\ RunnerPC' = RunnerPC
  <2>1. Runner!ProcExit(Caller)
    BY <1>0, <1>2 DEF Runner!ProcExit, AtCaller, signalVars, Runner!signalVars
  <2> QED BY <2>1 DEF RunnerStep
<1>3. CASE /\ RunnerProc' = RunnerProc
           /\ RunnerPC \in {"stopSignal", "stopTimeout"} /\ RunnerPC' = "reap"
  <2>1. Runner!HookStopFails(Caller)
    BY <1>0, <1>3 DEF Runner!HookStopFails, AtCaller, signalVars, Runner!signalVars
  <2> QED BY <2>1 DEF RunnerStep, Runner!HookStep
<1> QED BY <1>1, <1>2, <1>3

\* What the caller's entries of HookRunner's variables are.
LEMMA AtTheCaller ==
  /\ AtCaller(RunnerPC, "idle")[Caller] = RunnerPC
  /\ AtCaller(RunnerProc, "none")[Caller] = RunnerProc
BY ProcsAssumption DEF AtCaller

\* The end of a stop, when HookRunner would give the same result.
LEMMA HookStopMaps ==
  ASSUME NEW r, Return(r), pc # "idle", RunnerPC \in {"stopSignal", "stopTimeout"},
         r = IF RunnerProc \in Runner!Exits THEN RunnerProc
             ELSE IF RunnerPC = "stopSignal" THEN "signal" ELSE "timeout"
  PROVE  Runner!HookStop(Caller)
BY AtTheCaller, ReturnMaps DEF Runner!HookStop

\* case err := <-waitDone
LEMMA WaitMaps ==
  ASSUME IInv, Wait
  PROVE  Runner!HookWait(Caller)
<1>1. RunnerProc = NaturalResult /\ RunnerPC = "run"
  BY HookIsOne DEF Wait, RunnerPC, RunnerProc, CountsAsKilled, NaturalResult,
     IInv, TypeOK, BoundaryTypeOK, ControlInv, Observing, NotStopped, RootOrder,
     Group, Exits
<1>2. NaturalResult \in Runner!Exits
  BY DEF NaturalResult, Runner!Exits
<1>3. Runner!Return(Caller, NaturalResult) /\ UNCHANGED Runner!signalVars
  BY ReturnMaps DEF Wait
<1> QED BY <1>1, <1>2, <1>3, AtTheCaller DEF Runner!HookWait

\* The steps before stop, one to one (hook.go,
\* executeHookWithControlAndSideEffect).
LEMMA ObservationMaps ==
  ASSUME IInv, CallerSteps,
         ~(Check \/ StopRoot \/ StopProbe \/ StopKill \/ Await)
  PROVE  RunnerStep
<1> USE HookIsOne, ProcsAssumption
        DEF AtCaller, RunnerPC, Goto, signalVars,
            Runner!signalVars, invocationVars, Runner!hookVars
<1>0. Caller \in Procs /\ group \in [Hooks -> Group]
  BY DEF IInv, TypeOK, BoundaryTypeOK
<1>1. CASE Call
  <2>1. RunnerProc = "none" /\ RunnerProc' = "none"
    BY <1>1 DEF Call, RunnerProc
  <2>2. Runner!CallHook(Caller, Hook)
    BY <1>0, <1>1, <2>1 DEF Call, Runner!CallHook
  <2> QED BY <1>1, <2>2 DEF RunnerStep, Call
<1>2. CASE Poll
  <2>1. RunnerProc' = RunnerProc
    BY <1>2 DEF Poll, RunnerProc, CountsAsKilled, DiedOfSIGKILL, Observing
  <2>2. Runner!HookPoll(Caller)
    BY <1>0, <1>2, <2>1 DEF Poll, Runner!HookPoll, PollStep, Receive, Remember,
       Runner!PollStep, Runner!Receive, Runner!Remember
  <2> QED BY <2>2 DEF RunnerStep, Runner!HookStep
<1>3. CASE Start
  <2>1. RunnerProc = "none" /\ RunnerProc' = "alive"
    BY <1>0, <1>3 DEF Start, RunnerProc, Launch, IInv, ControlInv, Unstarted,
       NothingStarted, RootOrder, Group
  <2>2. Runner!HookStart(Caller)
    BY <1>0, <1>3, <2>1 DEF Start, Runner!HookStart, Drained, Runner!Drained
  <2> QED BY <2>2 DEF RunnerStep, Runner!HookStep
<1>4. CASE StartFails
  <2>1. Runner!Return(Caller, "fail") /\ UNCHANGED Runner!signalVars
    BY <1>4, ReturnMaps DEF StartFails
  <2>2. RunnerPC = "poll" /\ Runner!Drained(Caller)
    BY <1>4 DEF StartFails, Drained, Runner!Drained
  <2>3. Runner!HookStartFails(Caller)
    BY <1>0, <2>1, <2>2 DEF Runner!HookStartFails
  <2> QED BY <2>3 DEF RunnerStep, Runner!HookStep
<1>5. CASE Wait
  BY <1>5, WaitMaps DEF RunnerStep, Runner!HookStep
<1>6. CASE Timer
  <2>1. RunnerProc' = RunnerProc
    BY <1>6 DEF Timer, RunnerProc, CountsAsKilled, DiedOfSIGKILL,
       Observing
  <2>2. Runner!HookTimer(Caller)
    BY <1>0, <1>6, <2>1 DEF Timer, Runner!HookTimer
  <2> QED BY <2>2 DEF RunnerStep, Runner!HookStep
<1>7. CASE TimerDecides
  <2>1. RunnerProc' = RunnerProc
    BY <1>7 DEF TimerDecides, RunnerProc, CountsAsKilled, DiedOfSIGKILL,
       Observing
  <2>2. Runner!HookTimerDecide(Caller)
    BY <1>0, <1>7, <2>1 DEF TimerDecides, Runner!HookTimerDecide, Drained,
       Runner!Drained, GenerationChanged, Runner!GenerationChanged
  <2> QED BY <2>2 DEF RunnerStep, Runner!HookStep
<1>8. CASE TakeSignal
  <2>1. RunnerProc' = RunnerProc
    BY <1>8 DEF TakeSignal, RunnerProc, CountsAsKilled, DiedOfSIGKILL,
       Observing
  <2>2. Runner!HookSignal(Caller)
    BY <1>0, <1>8, <2>1 DEF TakeSignal, Runner!HookSignal, Receive, Remember,
       Runner!Receive, Runner!Remember
  <2> QED BY <2>2 DEF RunnerStep, Runner!HookStep
<1>9. CASE Notified
  <2>1. RunnerProc' = RunnerProc
    BY <1>9 DEF Notified, RunnerProc, CountsAsKilled, DiedOfSIGKILL,
       Observing
  <2>2. Runner!HookNotified(Caller)
    BY <1>0, <1>9, <2>1 DEF Notified, Runner!HookNotified, GenerationChanged,
       Runner!GenerationChanged
  <2> QED BY <2>2 DEF RunnerStep, Runner!HookStep
<1> QED BY <1>1, <1>2, <1>3, <1>4, <1>5, <1>6, <1>7, <1>8, <1>9 DEF CallerSteps

\* A result of Cmd.Wait that was there before stop began is the end that
\* HookRunner saw.
LEMMA CheckMaps ==
  ASSUME IInv, Check
  PROVE  RunnerStep \/ UNCHANGED <<signalVars, Runner!hookVars>>
<1> USE HookIsOne
<1>0. group \in [Hooks -> Group]
  BY DEF IInv, TypeOK, BoundaryTypeOK
<1>1. CASE group[Hook].waited
  <2>1. RunnerProc = NaturalResult /\ RunnerPC \in {"stopSignal", "stopTimeout"}
    BY <1>0, <1>1 DEF Check, RunnerPC, RunnerProc, CountsAsKilled, NaturalResult,
       IInv, ControlInv, Observing, NotStopped, RootOrder, Group, Exits
  <2>2. NaturalResult \in Runner!Exits
    BY DEF NaturalResult, Runner!Exits
  <2>3. Runner!HookStop(Caller)
    BY <1>1, <2>1, <2>2, HookStopMaps DEF Check
  <2> QED BY <2>3 DEF RunnerStep, Runner!HookStep
<1>2. CASE ~group[Hook].waited
  <2>1. RunnerProc' = RunnerProc /\ RunnerPC' = RunnerPC
    BY <1>2 DEF Check, Goto, RunnerPC, RunnerProc, CountsAsKilled, DiedOfSIGKILL,
       Observing
  <2> QED BY <1>2, <2>1, Stutter DEF Check, Goto
<1> QED BY <1>1, <1>2

\* The system calls of stop are no step of HookRunner, or the end of its process
\* (hook_unix.go and hook_windows.go, stop).
LEMMA StopCallsMap ==
  ASSUME IInv, StopRoot \/ StopProbe \/ StopKill
  PROVE  RunnerStep \/ UNCHANGED <<signalVars, Runner!hookVars>>
<1> USE HookIsOne
<1>0. /\ group \in [Hooks -> Group] /\ os \in {"unix", "windows"}
      /\ os' = os /\ cause' = cause
      /\ UNCHANGED <<hookGen, hookFrom, result, timed, signalVars>>
      /\ pc \in {"root"} \cup Stopping /\ pc' \in Stopping \cup {"await"}
  BY PlatformAssumption DEF IInv, TypeOK, BoundaryTypeOK, StopRoot, StopProbe,
     StopKill, Goto, Stopping
<1>1. stopErr = "unset" /\ group[Hook].life # "none" /\ RootOrder(Hook)
  BY <1>0 DEF IInv, ControlInv, Observing, NotStopped, Stopping
<1>2. RunnerPC \in {"stopSignal", "stopTimeout"}
  BY <1>0 DEF RunnerPC, Stopping
<1>3. CASE StopRoot
  <2>1. RunnerProc' = RunnerProc /\ RunnerPC' = RunnerPC
    BY <1>0, <1>1, <1>3 DEF StopRoot, Goto, ProbeRoot, ReapedRoot, ExitedRoot,
       RunnerPC, RunnerProc, CountsAsKilled, DiedOfSIGKILL, Observing, Group,
       Lives, RootOrder, IInv, ControlInv, NotStopped
  <2> QED BY <1>0, <2>1, Unseen DEF Stopping
<1>4. CASE StopProbe
  <2>1. RunnerPC' = RunnerPC
    BY <1>0, <1>1, <1>4 DEF StopProbe, RunnerPC
  <2>2. \/ RunnerProc' = RunnerProc
        \/ RunnerProc = "alive" /\ RunnerProc' \in Runner!Exits
    BY <1>0, <1>1, <1>4 DEF StopProbe, ProbeGroup, Running, Populated, GroupMembers,
       ActiveProcesses, RunnerProc, CountsAsKilled, DiedOfSIGKILL, Observing, Group,
       Lives, RootOrder, IInv, ControlInv, Stopping, Runner!Exits
  <2> QED BY <1>0, <2>1, <2>2, Unseen DEF Stopping
<1>5. CASE StopKill /\ stopErr' # "error"
  <2>1. RunnerPC' = RunnerPC
    BY <1>0, <1>5 DEF StopKill, RunnerPC
  <2>2. RunnerProc' = RunnerProc
    BY <1>0, <1>1, <1>5 DEF StopKill, Kill, KillGroup, TerminateJob, EndMembers,
       Vanished, VanishedErr, GroupMembers, KillRefused, TerminateFails, RunnerProc,
       CountsAsKilled, DiedOfSIGKILL, Observing, Group, Lives, RootOrder, IInv,
       ControlInv, Stopping
  <2> QED BY <1>0, <2>1, <2>2, Unseen DEF Stopping
<1>6. CASE StopKill /\ stopErr' = "error"
  <2>1. \/ os = "unix" /\ group' = group
        \/ /\ os = "windows"
           /\ group'[Hook].rootExited = group[Hook].rootExited
           /\ group[Hook].life = "alive" => group'[Hook].exit = "killed"
           /\ group[Hook].life # "alive" => group'[Hook].exit = group[Hook].exit
    BY <1>0, <1>6 DEF StopKill, Kill, Vanished, VanishedErr, KillRefused,
       TerminateFails, Group
  <2>2. \/ RunnerProc' = RunnerProc
        \/ RunnerProc = "alive" /\ RunnerProc' = "fail"
    BY <1>0, <1>1, <1>6, <2>1 DEF StopKill, RunnerProc, CountsAsKilled,
       DiedOfSIGKILL, Observing, RootOrder, IInv, ControlInv, Stopping
  <2>3. \/ RunnerPC' = RunnerPC
        \/ RunnerPC' = "reap" /\ RunnerProc' = "ok"
    BY <1>0, <1>6 DEF StopKill, RunnerPC
  <2>4. "fail" \in Runner!Exits
    BY DEF Runner!Exits
  <2> QED BY <1>0, <1>2, <2>2, <2>3, <2>4, Unseen DEF Stopping
<1> QED BY <1>3, <1>4, <1>5, <1>6

\* The end of a stop is HookRunner's: a process that counts as killed gives the
\* cause, one that does not its natural result (hook.go, stopHookAndWait).
LEMMA AwaitMaps ==
  ASSUME IInv, Await
  PROVE  RunnerStep
<1> USE HookIsOne
<1>0. /\ group \in [Hooks -> Group] /\ os \in {"unix", "windows"}
      /\ stopErr \in {"none", "done", "error"} /\ pc = "await"
      /\ group[Hook].waited /\ Return(Outcome)
  BY PlatformAssumption DEF IInv, TypeOK, BoundaryTypeOK, ControlInv, Await
<1>1. /\ cause \in {"signal", "timeout"} /\ group[Hook].life = "reaped"
      /\ group[Hook].exit # "none"
  BY <1>0 DEF IInv, ControlInv, RootOrder, Group
<1>2. CASE stopErr = "error" /\ RunnerProc = "ok"
  <2>1. RunnerPC = "reap" /\ Outcome = "fail"
    BY <1>0, <1>2 DEF RunnerPC, Outcome
  <2>2. Runner!Return(Caller, "fail") /\ UNCHANGED Runner!signalVars
    BY <1>0, <2>1, ReturnMaps
  <2>3. Runner!HookStopFails(Caller)
    BY <1>2, <2>1, <2>2, AtTheCaller DEF Runner!HookStopFails, Runner!Exits
  <2> QED BY <2>3 DEF RunnerStep, Runner!HookStep
<1>3. CASE ~(stopErr = "error" /\ RunnerProc = "ok")
  <2>1. RunnerPC = IF cause = "signal" THEN "stopSignal" ELSE "stopTimeout"
    BY <1>0, <1>3 DEF RunnerPC
  <2>2. CASE stopErr = "error"
    <3>1. RunnerProc = "fail" /\ Outcome = "fail"
      BY <1>0, <1>1, <1>3, <2>2 DEF RunnerProc, CountsAsKilled, Outcome
    <3>2. "fail" \in Runner!Exits
      BY DEF Runner!Exits
    <3>3. Runner!HookStop(Caller)
      BY <1>0, <1>1, <2>1, <3>1, <3>2, HookStopMaps
    <3> QED BY <3>3 DEF RunnerStep, Runner!HookStep
  <2>3. CASE stopErr # "error"
    <3>1. RunnerProc = IF stopErr = "none" /\ Stopped THEN "alive" ELSE NaturalResult
      BY <1>0, <1>1, <2>3 DEF RunnerProc, CountsAsKilled, Observing, Stopped,
         KilledRoot, DiedOfSIGKILL, NaturalResult
    <3>2. NaturalResult \in Runner!Exits /\ "alive" \notin Runner!Exits
      BY DEF NaturalResult, Runner!Exits
    <3>3. Outcome = IF RunnerProc \in Runner!Exits THEN RunnerProc
                    ELSE IF RunnerPC = "stopSignal" THEN "signal" ELSE "timeout"
      BY <1>1, <2>1, <2>3, <3>1, <3>2 DEF Outcome
    <3>4. Runner!HookStop(Caller)
      BY <1>0, <1>1, <2>1, <3>3, HookStopMaps
    <3> QED BY <3>4 DEF RunnerStep, Runner!HookStep
  <2> QED BY <2>2, <2>3
<1> QED BY <1>2, <1>3

\* The end of HookRunner's process is the root's end, when pipewisp can tell it
\* from its own kill, or the moment from which it can: the reaping of a root that
\* died of SIGKILL before stop looked at it.  Nothing else that the processes,
\* the kernel or Cmd.Wait do is seen.
LEMMA ProcessesMap ==
  ASSUME IInv, ProcessSteps \/ KernelSteps
  PROVE  RunnerStep \/ UNCHANGED <<signalVars, Runner!hookVars>>
<1> USE HookIsOne
<1>0. /\ group \in [Hooks -> Group] /\ os \in {"unix", "windows"}
      /\ UNCHANGED <<os, signalVars, invocationVars, timed>>
      /\ UNCHANGED <<hookGen, hookFrom, result, timed, signalVars>>
      /\ pc' = pc /\ stopErr' = stopErr /\ cause' = cause
  BY PlatformAssumption DEF IInv, TypeOK, BoundaryTypeOK, ProcessSteps,
     KernelSteps, invocationVars
<1>1. CASE Fork(Hook) \/ KidsExit(Hook)
  <2>1. RunnerProc' = RunnerProc /\ RunnerPC' = RunnerPC
    BY <1>0, <1>1 DEF Fork, KidsExit, RunnerPC, RunnerProc, CountsAsKilled,
       DiedOfSIGKILL, Group
  <2> QED BY <1>0, <2>1, Unseen
<1>2. CASE Reap(Hook)
  <2>1. \/ RunnerProc' = RunnerProc
        \/ RunnerProc = "alive" /\ RunnerProc' \in Runner!Exits
    BY <1>0, <1>2 DEF Reap, RunnerProc, CountsAsKilled, DiedOfSIGKILL, Observing,
       Group, IInv, RootOrder, Runner!Exits
  <2>2. RunnerPC' = RunnerPC
    BY <1>0, <1>2 DEF Reap, RunnerPC, Group, IInv, RootOrder
  <2> QED BY <1>0, <2>1, <2>2, Unseen
<1>3. CASE WaitReturns(Hook)
  <2>1. RunnerProc' = RunnerProc
    BY <1>0, <1>3 DEF WaitReturns, RunnerProc, CountsAsKilled, DiedOfSIGKILL, Group
  <2>2. \/ RunnerPC' = RunnerPC
        \/ RunnerPC \in {"stopSignal", "stopTimeout"} /\ RunnerPC' = "reap"
    BY <1>0, <1>3 DEF WaitReturns, RunnerPC
  <2> QED BY <1>0, <2>1, <2>2, Unseen
<1>4. CASE RootExit(Hook)
  <2>1. \/ RunnerProc' = RunnerProc
        \/ RunnerProc = "alive" /\ RunnerProc' \in Runner!Exits
    BY <1>0, <1>4 DEF RootExit, OwnExits, RunnerProc, CountsAsKilled,
       DiedOfSIGKILL, Observing, Group, IInv, RootOrder, Runner!Exits
  <2>2. RunnerPC' = RunnerPC
    BY <1>0, <1>4 DEF RootExit, RunnerPC, Group, IInv, RootOrder
  <2> QED BY <1>0, <2>1, <2>2, Unseen
<1> QED BY <1>1, <1>2, <1>3, <1>4 DEF ProcessSteps, KernelSteps

\* The other goroutine, and a delivery, leave the invocation alone.
LEMMA OthersMap ==
  ASSUME OtherSteps \/ Signal
  PROVE  RunnerStep
<1>1. UNCHANGED Runner!hookVars
  BY Stutter DEF OtherSteps, Signal, RunnerPC, RunnerProc, CountsAsKilled,
     DiedOfSIGKILL, invocationVars
<1> QED BY <1>1 DEF OtherSteps, Signal, RunnerStep

\* On either platform an invocation implements HookRunner, which the models of a
\* whole run use: although every system call of stop may meet processes that have
\* just ended or forked, a natural result, a signal, a timeout and a boundary
\* error are told apart as if stop were one step.  The ends that the code cannot
\* tell from its own kill (CountsAsKilled) are not ends to HookRunner.
THEOREM Refinement == Spec => ImplementsRunner
<1>1. Init => Runner!HookInit
  BY DEF Init, Runner!HookInit, RunnerPC, RunnerProc, AtCaller
<1>2. IInv /\ [Next]_vars => [RunnerStep]_<<signalVars, Runner!hookVars>>
  <2> SUFFICES ASSUME IInv, [Next]_vars
               PROVE  RunnerStep \/ UNCHANGED <<signalVars, Runner!hookVars>>
    OBVIOUS
  <2>1. CASE CallerSteps
    BY <2>1, ObservationMaps, CheckMaps, StopCallsMap, AwaitMaps
  <2>2. CASE OtherSteps \/ Signal
    BY <2>2, OthersMap
  <2>3. CASE ProcessSteps \/ KernelSteps
    BY <2>3, ProcessesMap
  <2>4. CASE UNCHANGED vars
    BY <2>4, Stutter DEF vars, invocationVars, RunnerPC, RunnerProc,
       CountsAsKilled, DiedOfSIGKILL
  <2> QED BY <2>1, <2>2, <2>3, <2>4 DEF Next, Finished
<1> QED BY <1>1, <1>2, Inductive, PTL DEF Spec, ImplementsRunner
=============================================================================

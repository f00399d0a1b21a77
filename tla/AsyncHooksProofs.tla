-------------------------- MODULE AsyncHooksProofs --------------------------
(***************************************************************************)
(* Theorems about AsyncHooks, for any set of hooks, on both platforms,     *)
(* with and without a timeout, and whether or not a kill may be refused.   *)
(***************************************************************************)
EXTENDS AsyncHooks, HookBoundaryProofs, TLAPS

-----------------------------------------------------------------------------
(* The inductive invariant.  LocalInv(h) is about one hook, its waiter and *)
(* its processes; ManagerInv about what the manager's mutex protects.      *)

Selecting == {"loop", "check", "fired", "firedWait", "firedCheck", "fired2"}
Stopping  == {"stop", "probe", "kill", "await"}
Ended     == {"report", "release", "done"}

\* A hook that has no waiter yet, or never got one, has done nothing.
UnstartedInv(h) ==
  /\ At(h, "off") => inv[h] = [pc |-> "off", received |-> FALSE, cause |-> "none",
                               stopErr |-> "none", hit |-> FALSE, late |-> FALSE,
                               direct |-> 0, timedOut |-> FALSE]
  /\ group[h].life = "none" => /\ group[h] = NoGroup
                               /\ inv[h].pc \in {"off", "done"}
                               /\ inv[h].cause = "none" /\ inv[h].direct = 0

\* The waiter received only a result that Cmd.Wait sent.
RootInv(h) ==
  /\ RootOrder(h)
  /\ inv[h].received => group[h].waited

\* Where the waiter is says what the stop was for, and what it has done.
CauseInv(h) ==
  /\ inv[h].pc \in {"off"} \cup Selecting =>
       inv[h].cause = "none" /\ ~group[h].rootExited
  /\ inv[h].pc \in {"check", "firedCheck"} => inv[h].received
  /\ inv[h].pc \in Stopping => inv[h].cause \in {"timeout", "shutdown"}
  /\ inv[h].pc \in Ended /\ group[h].life # "none" => inv[h].cause # "none"
  /\ inv[h].cause = "natural" => inv[h].received /\ inv[h].pc \in Ended
  /\ inv[h].pc \in Selecting \cup {"stop", "probe", "kill"} =>
       inv[h].stopErr = "none"
  /\ group[h].exit = "killed" =>
       /\ inv[h].pc \in {"await"} \cup Ended
       /\ inv[h].stopErr # "done" /\ inv[h].cause # "natural"

\* What the boundary forgets is empty; a kill that was not refused leaves at
\* most the zombie of the root, and Cmd.Wait reaps that.
EmptyInv(h) ==
  /\ inv[h].pc \in {"off", "stop", "probe", "kill"} \cup Selecting =>
       group[h].tracked \/ ~Populated(h)
  /\ At(h, "await") /\ inv[h].stopErr # "error" =>
       ~group[h].kids /\ group[h].life \in {"zombie", "reaped"}
  /\ inv[h].pc \in Ended =>
       ~Populated(h) \/ inv[h].stopErr = "error"

\* The failures reported so far.
DirectInv(h) ==
  /\ inv[h].pc \in Ended => group[h].waited \/ group[h].life = "none"
  /\ inv[h].pc \notin Ended =>
       inv[h].direct = IF inv[h].received /\ FailedByItself(h) THEN 1 ELSE 0
  /\ At(h, "report") =>
       inv[h].direct =
         IF /\ FailedByItself(h)
            /\ \/ os = "unix" /\ group[h].exit # "sigkill"
               \/ inv[h].received \/ group[h].rootExited
           THEN 1 ELSE 0
  /\ inv[h].pc \in {"release", "done"} =>
       inv[h].direct =
         IF FailedByItself(h) /\ ~TakenForKilled(h) THEN 1 ELSE 0

\* A timer that fired after shutdown leads to a cancellation.
LateInv(h) ==
  /\ inv[h].late => stopped /\ (At(h, "fired") \/ inv[h].cause = "shutdown")
  /\ inv[h].timedOut => inv[h].cause = "timeout" /\ inv[h].pc \in {"release", "done"}

LocalInv(h) ==
  /\ UnstartedInv(h) /\ RootInv(h) /\ CauseInv(h)
  /\ EmptyInv(h) /\ DirectInv(h) /\ LateInv(h)

\* The hooks that have a waiter are the registered ones, no start is under way
\* once the manager is stopped, and stopAndWait's snapshot misses no waiter.
ManagerInv ==
  /\ \A h \in Hooks : h \in registered <=> inv[h].pc \notin {"off", "done"}
  /\ \A h \in Hooks : At(h, "off") /\ starting # h => group[h] = NoGroup
  /\ starting # NoHook => At(starting, "off")
  /\ stopped <=> stopper # "idle"
  /\ stopped => starting = NoHook /\ registered \subseteq awaited
  /\ stopper = "returned" => registered = {}

IInv == TypeOK /\ ManagerInv /\ \A h \in Hooks : LocalInv(h)

-----------------------------------------------------------------------------
(* Framing: a step of one hook leaves the others alone. *)

HookSteps(h) == \/ StartLock(h) \/ StartSteps(h) \/ WaiterSteps(h)
                \/ ProcessSteps(h) \/ KernelSteps(h)

\* To its boundary, a step of a hook's goroutine or processes is one of the
\* boundary's steps, or nothing.
LEMMA StepOfBoundary ==
  ASSUME NEW h \in Hooks, HookSteps(h)
  PROVE  BoundaryStep(h) \/ UNCHANGED group
BY DEF HookSteps, StartLock, StartSteps, StartLaunch, StartFails, StartRegister,
       WaiterSteps, LoopWait, LoopCheck, LoopTimer, LoopShutdown, Fired,
       FiredWait, FiredCheck, Fired2, Observe, CheckBoundary, StopRoot,
       StopProbe, StopKill, StopAwait, Report, Release, ProcessSteps,
       KernelSteps, managerVars, BoundaryStep

\* A step of one hook's goroutine or processes (async_hook.go, start and wait)
\* changes nothing of another hook.
LEMMA OthersUntouched ==
  ASSUME TypeOK, NEW h \in Hooks, HookSteps(h)
  PROVE  /\ group' = [group EXCEPT ![h] = group'[h]]
         /\ inv' = [inv EXCEPT ![h] = inv'[h]]
<1> USE DEF TypeOK, BoundaryTypeOK, managerVars
<1>1. group' = [group EXCEPT ![h] = group'[h]]
  BY StepOfBoundary, OwnBoundary
<1>2. inv' = [inv EXCEPT ![h] = inv'[h]]
  <2>1. CASE StartLock(h) \/ StartSteps(h) \/ ProcessSteps(h) \/ KernelSteps(h)
    BY <2>1 DEF StartLock, StartSteps, StartLaunch, StartFails, StartRegister,
       ProcessSteps, KernelSteps
  <2>2. CASE LoopWait(h) \/ FiredWait(h)
    BY <2>2 DEF LoopWait, FiredWait, Observe
  <2>3. CASE LoopCheck(h) \/ FiredCheck(h)
    BY <2>3 DEF LoopCheck, FiredCheck, CheckBoundary
  <2>4. CASE LoopTimer(h) \/ LoopShutdown(h) \/ Fired(h) \/ Fired2(h)
    BY <2>4 DEF LoopTimer, LoopShutdown, Fired, Fired2
  <2>5. CASE StopRoot(h) \/ StopProbe(h) \/ StopKill(h)
    BY <2>5 DEF StopRoot, StopProbe, StopKill
  <2>6. CASE StopAwait(h) \/ Report(h) \/ Release(h)
    BY <2>6 DEF StopAwait, Report, Release
  <2> QED BY <2>1, <2>2, <2>3, <2>4, <2>5, <2>6 DEF HookSteps, WaiterSteps
<1> QED BY <1>1, <1>2

\* Nor does it change the platform, or what stopAndWait wrote.
LEMMA HookFrame ==
  ASSUME NEW h \in Hooks, HookSteps(h)
  PROVE  /\ os' = os /\ stopped' = stopped /\ awaited' = awaited
         /\ stopper' = stopper
BY DEF HookSteps, StartLock, StartSteps, StartLaunch, StartFails, StartRegister,
       ProcessSteps, KernelSteps, WaiterSteps, LoopWait, LoopCheck, LoopTimer,
       LoopShutdown, Fired, FiredWait, FiredCheck, Fired2, Observe,
       CheckBoundary, StopRoot, StopProbe, StopKill, StopAwait, Report, Release,
       managerVars

\* What LocalInv says of a hook depends on that hook, on the platform, and on
\* a manager that never starts again once it is stopped.
LEMMA LocalFrame ==
  ASSUME NEW h \in Hooks, LocalInv(h), os' = os, group'[h] = group[h],
         inv'[h] = inv[h], stopped => stopped'
  PROVE  LocalInv(h)'
BY DEF LocalInv, UnstartedInv, RootInv, RootOrder, CauseInv, EmptyInv,
       DirectInv, LateInv, At, Populated, GroupMembers, ActiveProcesses,
       TakenForKilled, IsTimeout, FailedByItself

-----------------------------------------------------------------------------
(* One step of one hook keeps that hook's part of the invariant.           *)

SelectSteps(h) ==
  \/ LoopWait(h) \/ LoopCheck(h) \/ LoopTimer(h) \/ LoopShutdown(h)
  \/ Fired(h) \/ FiredWait(h) \/ FiredCheck(h) \/ Fired2(h)

StopSteps(h) ==
  \/ StopRoot(h) \/ StopProbe(h) \/ StopKill(h) \/ StopAwait(h)
  \/ Report(h) \/ Release(h)

\* What the hook's processes and Cmd.Wait do (exec.Cmd, and the kernel).
LEMMA ProcessesKeepLocal ==
  ASSUME TypeOK, NEW h \in Hooks, LocalInv(h),
         ProcessSteps(h) \/ KernelSteps(h)
  PROVE  LocalInv(h)'
<1> USE PlatformAssumption
        DEF TypeOK, BoundaryTypeOK, Group, Invocation, Lives, Exits, PCs,
            Selecting, Stopping, Ended, managerVars, At, Populated,
            GroupMembers, ActiveProcesses, TakenForKilled, IsTimeout, NoGroup,
            FailedByItself,
            LocalInv, UnstartedInv, RootInv, RootOrder, CauseInv, EmptyInv,
            DirectInv, LateInv
<1>1. CASE Fork(h) /\ UNCHANGED <<os, inv, managerVars>>
  BY <1>1 DEF Fork
<1>2. CASE KidsExit(h) /\ UNCHANGED <<os, inv, managerVars>>
  BY <1>2 DEF KidsExit
<1>3. CASE RootExit(h) /\ UNCHANGED <<os, inv, managerVars>>
  BY <1>3 DEF RootExit, OwnExits
<1>4. CASE Reap(h) /\ UNCHANGED <<os, inv, managerVars>>
  BY <1>4 DEF Reap
<1>5. CASE WaitReturns(h) /\ UNCHANGED <<os, inv, managerVars>>
  BY <1>5 DEF WaitReturns
<1> QED BY <1>1, <1>2, <1>3, <1>4, <1>5 DEF ProcessSteps, KernelSteps

\* manager.start (async_hook.go): the hook it holds the mutex for has no
\* waiter yet.
LEMMA StartKeepsLocal ==
  ASSUME TypeOK, NEW h \in Hooks, LocalInv(h), starting = h => At(h, "off"),
         StartLock(h) \/ StartSteps(h)
  PROVE  LocalInv(h)'
<1> USE PlatformAssumption
        DEF TypeOK, BoundaryTypeOK, Group, Invocation, Lives, Exits, PCs,
            Selecting, Stopping, Ended, managerVars, At, Populated,
            GroupMembers, ActiveProcesses, TakenForKilled, IsTimeout, NoGroup,
            FailedByItself,
            LocalInv, UnstartedInv, RootInv, RootOrder, CauseInv, EmptyInv,
            DirectInv, LateInv
<1>1. CASE StartLock(h)
  BY <1>1 DEF StartLock
<1>2. CASE StartLaunch(h)
  BY <1>2 DEF StartLaunch, Launch
<1>3. CASE StartFails(h)
  BY <1>3 DEF StartFails
<1>4. CASE StartRegister(h)
  BY <1>4 DEF StartRegister
<1> QED BY <1>1, <1>2, <1>3, <1>4 DEF StartSteps

\* The select loop of wait, up to the decision to stop (async_hook.go).
LEMMA SelectKeepsLocal ==
  ASSUME TypeOK, NEW h \in Hooks, LocalInv(h), SelectSteps(h)
  PROVE  LocalInv(h)'
<1> USE PlatformAssumption
        DEF TypeOK, BoundaryTypeOK, Group, Invocation, Lives, Exits, PCs,
            Selecting, Stopping, Ended, managerVars, At, Populated,
            GroupMembers, ActiveProcesses, TakenForKilled, IsTimeout, NoGroup,
            FailedByItself,
            LocalInv, UnstartedInv, RootInv, RootOrder, CauseInv, EmptyInv,
            DirectInv, LateInv
<1>1. CASE LoopWait(h)
  BY <1>1 DEF LoopWait, Observe, Pending, Failed
<1>2. CASE LoopCheck(h)
  BY <1>2 DEF LoopCheck, CheckBoundary, ProbeGroup, Running, Ticks
<1>3. CASE LoopTimer(h)
  BY <1>3 DEF LoopTimer
<1>4. CASE LoopShutdown(h)
  BY <1>4 DEF LoopShutdown, ShutdownSeen
<1>5. CASE Fired(h)
  BY <1>5 DEF Fired, ShutdownSeen
<1>6. CASE FiredWait(h)
  BY <1>6 DEF FiredWait, Observe, Pending, Failed
<1>7. CASE FiredCheck(h)
  BY <1>7 DEF FiredCheck, CheckBoundary, ProbeGroup, Running
<1>8. CASE Fired2(h)
  BY <1>8 DEF Fired2, ShutdownSeen
<1> QED BY <1>1, <1>2, <1>3, <1>4, <1>5, <1>6, <1>7, <1>8 DEF SelectSteps

\* stopAndWait of one hook, and the end of wait (async_hook.go and hook.go).
LEMMA StopKeepsLocal ==
  ASSUME TypeOK, NEW h \in Hooks, LocalInv(h), StopSteps(h)
  PROVE  LocalInv(h)'
<1> USE PlatformAssumption
        DEF TypeOK, BoundaryTypeOK, Group, Invocation, Lives, Exits, PCs,
            Selecting, Stopping, Ended, managerVars, At, Populated,
            GroupMembers, ActiveProcesses, TakenForKilled, IsTimeout, NoGroup,
            FailedByItself,
            LocalInv, UnstartedInv, RootInv, RootOrder, CauseInv, EmptyInv,
            DirectInv, LateInv
<1>1. CASE StopRoot(h)
  BY <1>1 DEF StopRoot, ProbeRoot, ReapedRoot, ExitedRoot
<1>2. CASE StopProbe(h)
  BY <1>2 DEF StopProbe, ProbeGroup, Running
<1>3. CASE StopKill(h)
  BY <1>3 DEF StopKill, Kill, KillGroup, TerminateJob, EndMembers, Vanished,
      VanishedErr, KillRefused, TerminateFails
<1>4. CASE StopAwait(h)
  BY <1>4 DEF StopAwait, Failed, KilledRoot, DiedOfSIGKILL
<1>5. CASE Report(h)
  BY <1>5 DEF Report, Failed
<1>6. CASE Release(h)
  BY <1>6 DEF Release, CloseBoundary
<1> QED BY <1>1, <1>2, <1>3, <1>4, <1>5, <1>6 DEF StopSteps

-----------------------------------------------------------------------------
(* The invariant is inductive. *)

\* Any step of a hook keeps every hook's part of the invariant.
LEMMA HookKeepsLocal ==
  ASSUME IInv, NEW h \in Hooks, HookSteps(h), NEW k \in Hooks
  PROVE  LocalInv(k)'
<1>1. TypeOK /\ LocalInv(h) /\ LocalInv(k) /\ (starting = h => At(h, "off"))
  BY NoHookAssumption DEF IInv, ManagerInv
<1>2. CASE k = h
  BY <1>1, <1>2, ProcessesKeepLocal, StartKeepsLocal, SelectKeepsLocal,
     StopKeepsLocal DEF HookSteps, WaiterSteps, SelectSteps, StopSteps
<1>3. CASE k # h
  <2>1. group'[k] = group[k] /\ inv'[k] = inv[k]
    BY <1>1, <1>3, OthersUntouched DEF TypeOK, BoundaryTypeOK
  <2>2. os' = os /\ stopped' = stopped
    BY HookFrame
  <2> QED BY <1>1, <2>1, <2>2, LocalFrame
<1> QED BY <1>2, <1>3

\* The waiter owns its hook from StartRegister to Release: in between it is
\* neither "off" nor "done", and leaves the manager's state alone.
LEMMA WaiterOwnsHook ==
  ASSUME TypeOK, NEW h \in Hooks, WaiterSteps(h), ~Release(h)
  PROVE  /\ inv[h].pc \notin {"off", "done"} /\ inv'[h].pc \notin {"off", "done"}
         /\ registered' = registered /\ starting' = starting
<1> USE DEF TypeOK, Invocation, PCs, managerVars, At
<1>1. CASE LoopWait(h) \/ FiredWait(h)
  BY <1>1 DEF LoopWait, FiredWait, Observe
<1>2. CASE LoopCheck(h) \/ FiredCheck(h)
  BY <1>2 DEF LoopCheck, FiredCheck, CheckBoundary
<1>3. CASE LoopTimer(h) \/ LoopShutdown(h) \/ Fired(h) \/ Fired2(h)
  BY <1>3 DEF LoopTimer, LoopShutdown, Fired, Fired2
<1>4. CASE StopRoot(h) \/ StopProbe(h) \/ StopKill(h)
  BY <1>4 DEF StopRoot, StopProbe, StopKill
<1>5. CASE StopAwait(h) \/ Report(h)
  BY <1>5 DEF StopAwait, Report
<1> QED BY <1>1, <1>2, <1>3, <1>4, <1>5 DEF WaiterSteps

\* The manager's part of the invariant, under any step of a hook: a waiter is
\* registered from its start until it is done, and no start begins after stop.
LEMMA HookKeepsManager ==
  ASSUME IInv, NEW h \in Hooks, HookSteps(h)
  PROVE  ManagerInv'
<1> USE NoHookAssumption DEF managerVars, At, ManagerInv
<1>1. TypeOK /\ ManagerInv /\ UnstartedInv(h)
  BY DEF IInv, LocalInv
<1>2. \A k \in Hooks : k # h => group'[k] = group[k] /\ inv'[k] = inv[k]
  BY <1>1, OthersUntouched DEF TypeOK, BoundaryTypeOK
<1>3. stopped' = stopped /\ awaited' = awaited /\ stopper' = stopper
  BY HookFrame
<1>4. h # NoHook
  OBVIOUS
<1>5. CASE StartLock(h)
  BY <1>1, <1>5 DEF StartLock, Unlocked
<1>6. CASE StartLaunch(h)
  BY <1>1, <1>2, <1>3, <1>6 DEF StartLaunch
<1>7. CASE StartFails(h)
  <2>1. inv'[h].pc = "done" /\ starting = h /\ starting' = NoHook
    BY <1>1, <1>7 DEF StartFails, TypeOK, Invocation
  <2>2. registered' = registered /\ group' = group
    BY <1>7 DEF StartFails
  <2> QED BY <1>1, <1>2, <1>3, <1>4, <2>1, <2>2
<1>8. CASE StartRegister(h)
  <2>1. inv'[h].pc = "loop" /\ starting = h /\ starting' = NoHook
    BY <1>1, <1>8 DEF StartRegister, TypeOK, Invocation
  <2>2. registered' = registered \cup {h} /\ group' = group
    BY <1>8 DEF StartRegister
  <2> QED BY <1>1, <1>2, <1>3, <1>4, <2>1, <2>2
<1>9. CASE Release(h)
  <2>1. inv[h].pc = "release" /\ inv'[h].pc = "done" /\ starting = NoHook
    BY <1>1, <1>9 DEF Release, TypeOK, Invocation, Unlocked
  <2>2. registered' = registered \ {h} /\ starting' = starting
    BY <1>9 DEF Release
  <2> QED BY <1>1, <1>2, <1>3, <1>4, <2>1, <2>2
<1>10. CASE WaiterSteps(h) /\ ~Release(h)
  <2>1. /\ inv[h].pc \notin {"off", "done"} /\ inv'[h].pc \notin {"off", "done"}
        /\ registered' = registered /\ starting' = starting
    BY <1>1, <1>10, WaiterOwnsHook
  <2>2. starting # NoHook => starting \in Hooks
    BY <1>1 DEF TypeOK
  <2> QED BY <1>1, <1>2, <1>3, <1>4, <2>1, <2>2
<1>11. CASE ProcessSteps(h) \/ KernelSteps(h)
  <2>1. inv' = inv /\ registered' = registered /\ starting' = starting
    BY <1>11 DEF ProcessSteps, KernelSteps
  <2>2. group[h] # NoGroup
    BY <1>11 DEF ProcessSteps, KernelSteps, Fork, KidsExit, RootExit, Reap,
       WaitReturns, NoGroup
  <2> QED BY <1>1, <1>2, <1>3, <1>4, <2>1, <2>2
<1> QED BY <1>5, <1>6, <1>7, <1>8, <1>9, <1>10, <1>11
    DEF HookSteps, StartSteps

\* What its waiter knows keeps its type; that the count of reported failures
\* does is due to DirectInv.
LEMMA InvocationTyping ==
  ASSUME inv \in [Hooks -> Invocation], NEW h \in Hooks, DirectInv(h),
         stopped \in BOOLEAN, group \in [Hooks -> Group], HookSteps(h)
  PROVE  inv'[h] \in Invocation
<1> USE DEF Invocation, PCs
<1>0. inv[h].direct \in {0, 1}
  BY DEF DirectInv, Ended, At
<1>1. CASE StartFails(h) \/ StartRegister(h)
  BY <1>0, <1>1 DEF StartFails, StartRegister
<1>2. CASE LoopWait(h)
  <2>1. inv[h].direct + (IF Failed(h) THEN 1 ELSE 0) \in 0..2
    BY <1>0
  <2> QED BY <1>2, <2>1 DEF LoopWait, Observe
<1>3. CASE LoopCheck(h) \/ FiredCheck(h)
  BY <1>0, <1>3 DEF LoopCheck, FiredCheck, CheckBoundary
<1>4. CASE LoopTimer(h) \/ LoopShutdown(h)
  BY <1>0, <1>4 DEF LoopTimer, LoopShutdown
<1>5. CASE Fired(h) \/ Fired2(h)
  BY <1>0, <1>5 DEF Fired, Fired2
<1>6. CASE FiredWait(h)
  BY <1>0, <1>6 DEF FiredWait, Observe
<1>7. CASE StopRoot(h) \/ StopProbe(h)
  BY <1>0, <1>7 DEF StopRoot, StopProbe
<1>8. CASE StopKill(h)
  <2>1. PICK err \in {"none", "done", "error"} :
          inv' = [inv EXCEPT ![h].pc = "await", ![h].stopErr = err,
                             ![h].hit = err = "none" /\ Populated(h)]
    BY <1>8 DEF StopKill
  <2> DEFINE hit == err = "none" /\ Populated(h)
  <2>2. hit \in BOOLEAN
    OBVIOUS
  <2>3. inv' = [inv EXCEPT ![h].pc = "await", ![h].stopErr = err, ![h].hit = hit]
    BY <2>1
  <2> HIDE DEF hit
  <2> QED BY <2>2, <2>3
<1>9. CASE StopAwait(h)
  <2> DEFINE d == IF ~inv[h].received /\ Failed(h) /\ ~KilledRoot(h) THEN 1 ELSE 0
  <2>1. inv[h].direct + d \in 0..2
    BY <1>0
  <2>2. inv' = [inv EXCEPT ![h].pc = "report", ![h].direct = @ + d]
    BY <1>9 DEF StopAwait
  <2> HIDE DEF d
  <2> QED BY <2>1, <2>2
<1>10. CASE Report(h)
  <2> DEFINE d == inv[h].direct +
                    (IF /\ inv[h].cause # "shutdown" /\ ~IsTimeout(h)
                        /\ Failed(h) /\ inv[h].direct = 0 THEN 1 ELSE 0)
             t == IsTimeout(h)
  <2>1. d \in 0..2
    BY <1>0
  <2>2. t \in BOOLEAN
    BY DEF IsTimeout
  <2>3. inv' = [inv EXCEPT ![h].pc = "release", ![h].timedOut = t,
                           ![h].direct = d]
    BY <1>10 DEF Report
  <2> HIDE DEF d, t
  <2> QED BY <2>1, <2>2, <2>3
<1>11. CASE Release(h)
  BY <1>0, <1>11 DEF Release
<1>12. CASE UNCHANGED inv
  BY <1>12
<1> QED
  BY <1>1, <1>2, <1>3, <1>4, <1>5, <1>6, <1>7, <1>8, <1>9, <1>10, <1>11, <1>12
     DEF HookSteps, StartSteps, WaiterSteps, StartLock, StartLaunch,
     ProcessSteps, KernelSteps, managerVars

\* A step of one hook keeps every hook and its boundary in their types.
LEMMA HookTyping ==
  ASSUME IInv, NEW h \in Hooks, HookSteps(h)
  PROVE  TypeOK'
<1>1. TypeOK /\ DirectInv(h)
  BY DEF IInv, LocalInv
<1>2. group' \in [Hooks -> Group]
  BY <1>1, StepOfBoundary, BoundaryTyping DEF TypeOK, BoundaryTypeOK
<1>3. inv' \in [Hooks -> Invocation]
  BY <1>1, InvocationTyping, OthersUntouched DEF TypeOK, BoundaryTypeOK
<1>4. registered' \subseteq Hooks /\ starting' \in Hooks \cup {NoHook}
  BY <1>1 DEF TypeOK, HookSteps, StartLock, StartSteps, StartLaunch, StartFails,
     StartRegister, ProcessSteps, KernelSteps, WaiterSteps, LoopWait, LoopCheck,
     LoopTimer, LoopShutdown, Fired, FiredWait, FiredCheck, Fired2, Observe,
     CheckBoundary, StopRoot, StopProbe, StopKill, StopAwait, Report, Release,
     managerVars
<1> QED BY <1>1, <1>2, <1>3, <1>4, HookFrame DEF TypeOK, BoundaryTypeOK

-----------------------------------------------------------------------------
(* stopAndWait, and the theorems. *)

\* stopAndWait's own steps: its snapshot is taken when nobody is starting, so
\* it holds every hook that has a waiter.
LEMMA StopAllKeeps ==
  ASSUME IInv, StopAll
  PROVE  IInv'
<1>1. TypeOK'
  BY DEF IInv, TypeOK, BoundaryTypeOK, StopAll
<1>2. ManagerInv'
  BY DEF IInv, ManagerInv, StopAll, Unlocked, At
<1>3. ASSUME NEW h \in Hooks PROVE LocalInv(h)'
  BY LocalFrame DEF IInv, StopAll
<1> QED BY <1>1, <1>2, <1>3 DEF IInv

\* stopAndWait returns when no hook is registered: nothing of any hook changes.
LEMMA StopReturnKeeps ==
  ASSUME IInv, StopReturn
  PROVE  IInv'
<1>1. TypeOK'
  BY DEF IInv, TypeOK, BoundaryTypeOK, StopReturn
<1>2. registered = {}
  <2>1. registered \subseteq awaited /\ registered \subseteq Hooks
    BY DEF IInv, ManagerInv, TypeOK, StopReturn
  <2> QED BY <2>1 DEF IInv, ManagerInv, StopReturn, At
<1>3. ManagerInv'
  BY <1>2 DEF IInv, ManagerInv, StopReturn, At
<1>4. ASSUME NEW h \in Hooks PROVE LocalInv(h)'
  BY LocalFrame DEF IInv, StopReturn
<1> QED BY <1>1, <1>3, <1>4 DEF IInv

\* A manager without hooks starts in the invariant.
LEMMA InitEstablishes == Init => IInv
<1> SUFFICES ASSUME Init PROVE IInv
  OBVIOUS
<1> USE DEF Init, BoundaryInit
<1>1. TypeOK
  <2>1. NoGroup \in Group
    BY DEF NoGroup, Group, Lives, Exits
  <2>2. group \in [Hooks -> Group]
    BY <2>1
  <2>3. inv \in [Hooks -> Invocation]
    BY DEF Invocation, PCs
  <2> QED BY <2>2, <2>3 DEF TypeOK, BoundaryTypeOK
<1>2. ManagerInv
  BY DEF ManagerInv, At, NoGroup
<1>3. ASSUME NEW h \in Hooks PROVE LocalInv(h)
  BY DEF LocalInv, UnstartedInv, RootInv, RootOrder, CauseInv, EmptyInv,
     DirectInv, LateInv,
     At, NoGroup, Populated, GroupMembers, ActiveProcesses, Selecting, Stopping,
     Ended
<1> QED BY <1>1, <1>2, <1>3 DEF IInv

\* Every step of the manager, a waiter or a process keeps it.
LEMMA StepKeeps == IInv /\ [Next]_vars => IInv'
<1> SUFFICES ASSUME IInv, [Next]_vars PROVE IInv'
  OBVIOUS
<1>1. ASSUME NEW h \in Hooks, HookSteps(h) PROVE IInv'
  BY <1>1, HookTyping, HookKeepsManager, HookKeepsLocal DEF IInv
<1>2. CASE StopAll
  BY <1>2, StopAllKeeps
<1>3. CASE StopReturn
  BY <1>3, StopReturnKeeps
<1>4. CASE UNCHANGED vars
  <2>1. TypeOK' /\ ManagerInv'
    BY <1>4 DEF vars, managerVars, IInv, TypeOK, BoundaryTypeOK, ManagerInv, At
  <2>2. ASSUME NEW h \in Hooks PROVE LocalInv(h)'
    BY <1>4, LocalFrame DEF vars, managerVars, IInv
  <2> QED BY <2>1, <2>2 DEF IInv
<1> QED BY <1>1, <1>2, <1>3, <1>4 DEF Next, Finished, HookSteps

\* The invariant holds in every reachable state, for any set of hooks.
LEMMA Inductive == Spec => []IInv
<1> QED BY InitEstablishes, StepKeeps, PTL DEF Spec

\* Every variable stays in its type; in particular no hook reports a failure
\* of its direct process more often than its type allows.
THEOREM TypeCorrect == Spec => []TypeOK
<1>1. IInv => TypeOK
  BY DEF IInv
<1> QED BY <1>1, Inductive, PTL

\* When stopAndWait has returned, no process of any hook is left, not even a
\* zombie, unless the system refused to kill it: a hook whose start raced with
\* shutdown was either registered before the snapshot or not started at all.
THEOREM NothingSurvives == Spec => []NothingSurvivesShutdown
<1>1. IInv => NothingSurvivesShutdown
  <2> SUFFICES ASSUME IInv, stopper = "returned", NEW h \in Hooks, Populated(h)
               PROVE  inv[h].stopErr = "error"
    BY DEF NothingSurvivesShutdown
  <2>1. LocalInv(h) /\ ManagerInv
    BY DEF IInv
  <2>2. inv[h].pc \in {"off", "done"} /\ starting = NoHook
    BY <2>1 DEF ManagerInv
  <2>3. CASE At(h, "off")
    <3>1. group[h] = NoGroup
      BY <2>1, <2>2, <2>3, NoHookAssumption DEF ManagerInv
    <3> QED BY <3>1 DEF NoGroup, Populated, GroupMembers, ActiveProcesses
  <2>4. CASE At(h, "done")
    BY <2>1, <2>4 DEF LocalInv, EmptyInv, Ended, At
  <2> QED BY <2>2, <2>3, <2>4 DEF At
<1> QED BY <1>1, Inductive, PTL

\* A hook whose direct process failed by itself is reported exactly once, and
\* no other hook is reported as failed, whichever of exit, timeout and shutdown
\* the waiter observes first.
THEOREM FailuresReportedOnce == Spec => []FailureReportedOnce
<1>1. IInv => FailureReportedOnce
  BY DEF IInv, LocalInv, DirectInv, FailureReportedOnce, At
<1> QED BY <1>1, Inductive, PTL

\* A timer that fires after teardown began never turns the cancellation into a
\* timeout: `stopped` is read after the timer was chosen.
THEOREM NoLateTimeout == Spec => []ShutdownBeatsTimeout
<1>1. IInv => ShutdownBeatsTimeout
  <2> SUFFICES ASSUME IInv, NEW h \in Hooks, inv[h].timedOut, inv[h].late
               PROVE  FALSE
    BY DEF ShutdownBeatsTimeout
  <2>1. LateInv(h)
    BY DEF IInv, LocalInv
  <2> QED BY <2>1 DEF LateInv, At
<1> QED BY <1>1, Inductive, PTL
=============================================================================

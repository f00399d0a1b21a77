----------------------------- MODULE AsyncHooks -----------------------------
(***************************************************************************)
(* asyncHookManager (async_hook.go): hooks started on idle and resume that *)
(* run beside the stream.  start launches and registers a hook under the   *)
(* manager's mutex; wait is one goroutine per hook, which owns its         *)
(* boundary; stopAndWait ends them all before the shutdown hook runs.      *)
(* start and stopAndWait may be called concurrently, as the tests do.      *)
(***************************************************************************)
EXTENDS HookBoundary, Naturals

CONSTANT Timeout   \* is --hook-timeout set?

ASSUME TimeoutAssumption == Timeout \in BOOLEAN

VARIABLES inv,         \* per hook: its wait goroutine and what it reported
          registered,  \* manager.hooks
          starting,    \* the hook start is launching, holding manager.mu
          stopped,     \* manager.stopped, and manager.shutdown closed
          stopper,     \* stopAndWait: "idle", "waiting" or "returned"
          awaited      \* stopAndWait's snapshot of the registered hooks

managerVars == <<registered, starting, stopped, stopper, awaited>>
vars == <<os, group, inv, managerVars>>

\* `starting` while nobody holds the mutex; it is no hook.
NoHook == "none"
ASSUME NoHookAssumption == NoHook \notin Hooks

PCs == {"off", "loop", "check", "fired", "firedWait", "firedCheck", "fired2",
        "stop", "probe", "kill", "await", "report", "release", "done"}

Invocation ==
  [pc : PCs,
   received : BOOLEAN,                         \* waitReceived
   cause : {"none", "natural", "timeout", "shutdown"},
   stopErr : {"none", "done", "error"},        \* what boundary.stop returned
   hit : BOOLEAN,                              \* history: the kill found a process
   late : BOOLEAN,                             \* history: timer chosen after shutdown
   direct : 0..2,                              \* direct failures reported (bound 2)
   timedOut : BOOLEAN]                         \* a timeout was reported

TypeOK ==
  /\ BoundaryTypeOK
  /\ inv \in [Hooks -> Invocation]
  /\ registered \subseteq Hooks
  /\ starting \in Hooks \cup {NoHook}
  /\ stopped \in BOOLEAN
  /\ stopper \in {"idle", "waiting", "returned"}
  /\ awaited \subseteq Hooks

Init ==
  /\ BoundaryInit
  /\ inv = [h \in Hooks |->
       [pc |-> "off", received |-> FALSE, cause |-> "none",
        stopErr |-> "none", hit |-> FALSE, late |-> FALSE, direct |-> 0,
        timedOut |-> FALSE]]
  /\ registered = {}
  /\ starting = NoHook
  /\ stopped = FALSE
  /\ stopper = "idle"
  /\ awaited = {}

At(h, pc) == inv[h].pc = pc

\* manager.mu is free: start is the one that holds it across a step.
NoMutex == TRUE                             \* fault: start does not hold it
Unlocked == starting = NoHook

\* Cmd.Wait's result is an error that is not ErrWaitDelay.
Failed(h) == group[h].exit \in {"fail", "sigkill", "killed"}

\* waitDone holds a result; it is read at most once (waitDone = nil).
PendingForever(h) == group[h].waited        \* fault: it is not set to nil
Pending(h) == group[h].waited /\ ~inv[h].received

\* The waiter of a hook sees manager.shutdown closed.
NeverSeen(h) == FALSE                       \* fault: shutdown is not looked at
ShutdownSeen(h) == stopped

\* The descendant ticker runs once the root's result was received.
NoTicker(h) == FALSE                        \* fault: the ticker is not started
Ticks(h) == inv[h].received

-----------------------------------------------------------------------------
(* manager.start *)

\* start takes the mutex; after shutdown it is a no-op.
StartLock(h) ==
  /\ Unlocked /\ ~stopped
  /\ At(h, "off") /\ group[h] = NoGroup
  /\ starting' = h
  /\ UNCHANGED <<os, group, inv, registered, stopped, stopper, awaited>>

\* The process starts, still under the mutex.
StartLaunch(h) ==
  /\ starting = h /\ group[h].life = "none"
  /\ Launch(h)
  /\ UNCHANGED <<os, inv, managerVars>>

\* The process cannot be started: a diagnostic, and nothing to own.
StartFails(h) ==
  /\ starting = h /\ group[h].life = "none"
  /\ inv' = [inv EXCEPT ![h].pc = "done"]
  /\ starting' = NoHook
  /\ UNCHANGED <<os, group, registered, stopped, stopper, awaited>>

\* The hook is registered, the mutex released, the waiter spawned.
StartRegister(h) ==
  /\ starting = h /\ group[h].life # "none"
  /\ registered' = registered \cup {h}
  /\ starting' = NoHook
  /\ inv' = [inv EXCEPT ![h].pc = "loop"]
  /\ UNCHANGED <<os, group, stopped, stopper, awaited>>

-----------------------------------------------------------------------------
(* manager.wait: the select loop of one hook's goroutine. *)

\* observeWait, up to checkBoundary: a failure of the direct process is
\* reported at once.
Observe(h, next) ==
  /\ Pending(h)
  /\ inv' = [inv EXCEPT ![h].pc = next, ![h].received = TRUE,
                        ![h].direct = @ + (IF Failed(h) THEN 1 ELSE 0)]
  /\ UNCHANGED <<os, group, managerVars>>

\* case result := <-waitDone
LoopWait(h) == At(h, "loop") /\ Observe(h, "check")

\* checkBoundary: an empty group ends the hook, a running one is kept.
CheckBoundary(h, kept) ==
  /\ ProbeGroup(h)
  /\ inv' = IF Running(h)
              THEN [inv EXCEPT ![h].pc = kept]
              ELSE [inv EXCEPT ![h].pc = "report", ![h].cause = "natural"]
  /\ UNCHANGED <<os, managerVars>>

\* The check after the result, and every tick of the descendant ticker.
LoopCheck(h) ==
  /\ At(h, "check") \/ (At(h, "loop") /\ Ticks(h))
  /\ CheckBoundary(h, "loop")

\* case <-timeoutC
LoopTimer(h) ==
  /\ Timeout
  /\ At(h, "loop")
  /\ inv' = [inv EXCEPT ![h].pc = "fired", ![h].late = stopped]
  /\ UNCHANGED <<os, group, managerVars>>

\* case <-hook.manager.shutdown
LoopShutdown(h) ==
  /\ At(h, "loop") /\ ShutdownSeen(h)
  /\ inv' = [inv EXCEPT ![h].pc = "stop", ![h].cause = "shutdown"]
  /\ UNCHANGED <<os, group, managerVars>>

\* After the timer: shutdown wins.
Fired(h) ==
  /\ At(h, "fired")
  /\ inv' = IF ShutdownSeen(h)
              THEN [inv EXCEPT ![h].pc = "stop", ![h].cause = "shutdown"]
              ELSE [inv EXCEPT ![h].pc = IF inv[h].received THEN "firedCheck"
                                         ELSE "firedWait"]
  /\ UNCHANGED <<os, group, managerVars>>

\* A result that is already there is taken before the boundary is stopped.
FiredWait(h) ==
  /\ At(h, "firedWait")
  /\ IF Pending(h)
       THEN Observe(h, "firedCheck")
       ELSE inv' = [inv EXCEPT ![h].pc = "fired2"] /\ UNCHANGED <<os, group, managerVars>>

FiredCheck(h) == At(h, "firedCheck") /\ CheckBoundary(h, "fired2")

\* The second look at shutdown decides what the stop is for.
Fired2(h) ==
  /\ At(h, "fired2")
  /\ inv' = [inv EXCEPT ![h].pc = "stop",
                        ![h].cause = IF ShutdownSeen(h) THEN "shutdown" ELSE "timeout"]
  /\ UNCHANGED <<os, group, managerVars>>

-----------------------------------------------------------------------------
(* hookExecution.stopAndWait, and what wait makes of its result. *)

\* A result that is already there is taken; then boundary.stop begins.
StopRoot(h) ==
  /\ At(h, "stop")
  /\ ProbeRoot(h)
  /\ inv' = [inv EXCEPT ![h].pc = "probe"]
  /\ UNCHANGED <<os, managerVars>>

StopProbe(h) ==
  /\ At(h, "probe")
  /\ ProbeGroup(h)
  /\ inv' = IF Running(h)
              THEN [inv EXCEPT ![h].pc = "kill"]
              ELSE [inv EXCEPT ![h].pc = "await", ![h].stopErr = "done"]
  /\ UNCHANGED <<os, managerVars>>

StopKill(h) ==
  /\ At(h, "kill")
  /\ \E err \in {"none", "done", "error"} :
       /\ Kill(h, err)
       /\ inv' = [inv EXCEPT ![h].pc = "await", ![h].stopErr = err,
                             ![h].hit = err = "none" /\ Populated(h)]
  /\ UNCHANGED <<os, managerVars>>

\* The wait result, and reportRecoveredWaitFailure: a failure of the direct
\* process that stopping it did not cause is reported, if it was not yet.
StopAwait(h) ==
  /\ At(h, "await")
  /\ inv[h].received \/ group[h].waited
  /\ inv' = [inv EXCEPT ![h].pc = "report",
       ![h].direct = @ + (IF ~inv[h].received /\ Failed(h) /\ ~KilledRoot(h)
                            THEN 1 ELSE 0)]
  /\ UNCHANGED <<os, group, managerVars>>

\* The end of wait.  stopAsyncHookAndWait: a stop that found the boundary
\* empty is not a timeout.  A failure that was not reported yet is, unless
\* the hook was canceled.
IsTimeout(h) == inv[h].cause = "timeout" /\ inv[h].stopErr # "done"

Report(h) ==
  /\ At(h, "report")
  /\ inv' = [inv EXCEPT ![h].pc = "release",
       ![h].timedOut = IsTimeout(h),
       ![h].direct = @ + (IF /\ inv[h].cause # "shutdown" /\ ~IsTimeout(h)
                             /\ Failed(h) /\ inv[h].direct = 0
                            THEN 1 ELSE 0)]
  /\ UNCHANGED <<os, group, managerVars>>

\* The deferred cleanup: boundary closed, hook unregistered, done closed.
Release(h) ==
  /\ At(h, "release") /\ Unlocked
  /\ CloseBoundary(h)
  /\ registered' = registered \ {h}
  /\ inv' = [inv EXCEPT ![h].pc = "done"]
  /\ UNCHANGED <<os, starting, stopped, stopper, awaited>>

-----------------------------------------------------------------------------
(* manager.stopAndWait *)

StopAll ==
  /\ stopper = "idle" /\ Unlocked
  /\ stopped' = TRUE
  /\ awaited' = registered
  /\ stopper' = "waiting"
  /\ UNCHANGED <<os, group, inv, registered, starting>>

StopReturn ==
  /\ stopper = "waiting"
  /\ \A h \in awaited : At(h, "done")
  /\ stopper' = "returned"
  /\ UNCHANGED <<os, group, inv, registered, starting, stopped, awaited>>

-----------------------------------------------------------------------------
StartSteps(h) == StartLaunch(h) \/ StartFails(h) \/ StartRegister(h)

WaiterSteps(h) ==
  \/ LoopWait(h) \/ LoopCheck(h) \/ LoopTimer(h) \/ LoopShutdown(h)
  \/ Fired(h) \/ FiredWait(h) \/ FiredCheck(h) \/ Fired2(h)
  \/ StopRoot(h) \/ StopProbe(h) \/ StopKill(h) \/ StopAwait(h)
  \/ Report(h) \/ Release(h)

\* What the hook's own processes choose to do.
ProcessSteps(h) ==
  (Fork(h) \/ KidsExit(h) \/ RootExit(h)) /\ UNCHANGED <<os, inv, managerVars>>

\* What the kernel and Cmd.Wait do in bounded time.
KernelSteps(h) ==
  (Reap(h) \/ WaitReturns(h)) /\ UNCHANGED <<os, inv, managerVars>>

\* Everything was started, stopped and cleaned up.
Finished ==
  /\ stopper = "returned"
  /\ \A h \in Hooks : ~Populated(h)
  /\ UNCHANGED vars

Next ==
  \/ \E h \in Hooks : \/ StartLock(h) \/ StartSteps(h) \/ WaiterSteps(h)
                      \/ ProcessSteps(h) \/ KernelSteps(h)
  \/ StopAll \/ StopReturn
  \/ Finished

Spec == Init /\ [][Next]_vars

\* Goroutines are scheduled and the kernel does its part; no hook need ever
\* end by itself.
FairSpec ==
  /\ Spec
  /\ \A h \in Hooks : /\ WF_vars(StartSteps(h))
                      /\ WF_vars(WaiterSteps(h))
                      /\ WF_vars(KernelSteps(h))
  /\ WF_vars(StopReturn)

-----------------------------------------------------------------------------
(* What makes asynchronous hooks correct. *)

\* When stopAndWait has returned, no process of any hook is left in its group,
\* not even a zombie, unless the kernel refused to kill it: asynchronous hooks
\* are stopped and reaped before the shutdown hook runs, and a hook whose start
\* raced with shutdown is no exception.
NothingSurvivesShutdown ==
  stopper = "returned" =>
    \A h \in Hooks : Populated(h) => inv[h].stopErr = "error"

\* A failure that counts as pipewisp's own kill.  On Windows killedRoot does not
\* look at how the root ended, and any end after stop looked at it counts; on
\* Unix it does not look at who sent the SIGKILL, and one that pipewisp did not
\* send counts if the root was still a zombie when stop looked at it.
TakenForKilled(h) ==
  /\ inv[h].cause = "shutdown" \/ IsTimeout(h)
  /\ ~inv[h].received /\ ~group[h].rootExited
  /\ os = "unix" => group[h].exit = "sigkill"

\* A hook whose direct process failed by itself is reported exactly once, unless
\* that failure counts as pipewisp's kill, and no other hook is reported as
\* failed, whichever of exit, timeout and shutdown is observed first.
FailedByItself(h) == group[h].exit \in {"fail", "sigkill"}
FailureReportedOnce ==
  \A h \in Hooks :
    At(h, "done") =>
      inv[h].direct = IF FailedByItself(h) /\ ~TakenForKilled(h) THEN 1 ELSE 0

\* A timer that fires after teardown began never turns the cancellation into a
\* timeout ("Publish cancellation with stopped so a ready timeout cannot win
\* the shutdown race", async_hook.go:298).
ShutdownBeatsTimeout ==
  \A h \in Hooks : inv[h].timedOut => ~inv[h].late

\* A hook is reported as timed out only if stopping it met a process of its
\* boundary: "A concurrent natural exit can empty the boundary between the
\* final check and stop, in which case it is not a timeout." (async_hook.go:258)
TimeoutOwnedAProcess ==
  \A h \in Hooks :
    inv[h].timedOut => inv[h].hit \/ inv[h].stopErr = "error"

\* stopAndWait returns, although no hook ever ends by itself.
StopReturns == stopper = "waiting" ~> stopper = "returned"

\* A hook whose processes are all gone is forgotten, without any shutdown: its
\* last process may be a descendant that nobody waits for.
HookReleased ==
  \A h \in Hooks :
    group[h].life = "reaped" /\ ~group[h].kids ~> h \notin registered
=============================================================================

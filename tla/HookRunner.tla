----------------------------- MODULE HookRunner -----------------------------
(***************************************************************************)
(* hookRunner.run and executeHookWithControlAndSideEffect (hook.go): one   *)
(* synchronous hook invocation per goroutine.  The hook's process is only  *)
(* its outcome here; the process tree it belongs to, and what stopping it  *)
(* does, are abstracted to "the process ended by itself" or "was killed".  *)
(* (HookExecution says which ends the code tells from its own kill.)       *)
(*                                                                         *)
(* A goroutine g is inside an invocation while hpc[g] # "idle"; its own    *)
(* next step is then the invocation's.  What the last call of a hook       *)
(* returned stays in result[name].                                         *)
(***************************************************************************)
EXTENDS SignalTracker

CONSTANT HookNames     \* the synchronous hooks of the run

VARIABLES opts,      \* options: the command line, fixed for the run
          hpc,       \* per goroutine: the invocation's control point
          hname,     \* per goroutine: the hook being run
          proc,      \* per goroutine: the hook's process
          hookGen,   \* per goroutine: signalGeneration of the observation
          hookFrom,  \* history: `sent` when the invocation began to observe
          result     \* per hook: what executeHook... returned

hookVars == <<opts, hpc, hname, proc, hookGen, hookFrom, result>>

\* hooks: the hooks with a command; observe: --verbose or --events-fd.
Options == [hooks : SUBSET HookNames, observe : BOOLEAN, ignore : BOOLEAN,
            timeout : BOOLEAN, dryRun : BOOLEAN]

HookPCs == {"idle", "poll", "run", "taken", "timer",
            "stopSignal", "stopTimeout", "reap"}
Exits   == {"ok", "fail"}
Results == {"none", "dry-run", "ok", "fail", "timeout", "signal"}

HookTypeOK ==
  /\ opts \in Options
  /\ hpc \in [Procs -> HookPCs]
  /\ hname \in [Procs -> HookNames \cup {"none"}]
  /\ proc \in [Procs -> {"none", "alive"} \cup Exits]
  /\ hookGen \in [Procs -> Nat]
  /\ hookFrom \in [Procs -> Signals]
  /\ result \in [HookNames -> Results]

HookInit ==
  /\ hpc = [g \in Procs |-> "idle"]
  /\ hname = [g \in Procs |-> "none"]
  /\ proc = [g \in Procs |-> "none"]
  /\ hookGen = [g \in Procs |-> 0]
  /\ hookFrom = [g \in Procs |-> 0]
  /\ result = [n \in HookNames |-> "none"]

InHook(g) == hpc[g] # "idle"
Configured(n) == n \in opts.hooks

\* What hookRunner.run returns to its caller, as "is it an error": command
\* failures and timeouts are ignored under --ignore-hook-errors, signals never.
HookError(n) ==
  \/ result[n] = "signal"
  \/ result[n] \in {"fail", "timeout"} /\ ~opts.ignore

-----------------------------------------------------------------------------
\* hookRunner.run is called: a dry run reports and returns, otherwise the
\* invocation starts with its poll.
CallHook(g, n) ==
  /\ IF opts.dryRun
       THEN /\ result' = [result EXCEPT ![n] = "dry-run"]
            /\ UNCHANGED <<hpc, hname>>
       ELSE /\ hpc' = [hpc EXCEPT ![g] = "poll"]
            /\ hname' = [hname EXCEPT ![g] = n]
            /\ UNCHANGED result
  /\ UNCHANGED <<opts, proc, hookGen, hookFrom>>

\* The invocation returns r.
Return(g, r) ==
  /\ hpc' = [hpc EXCEPT ![g] = "idle"]
  /\ proc' = [proc EXCEPT ![g] = "none"]
  /\ result' = [result EXCEPT ![hname[g]] = r]
  /\ UNCHANGED <<opts, hname, hookGen, hookFrom>>

\* tracker.poll() before the observation, and again when the timer fired.
HookPoll(g) ==
  /\ hpc[g] \in {"poll", "timer"}
  /\ PollStep(g)
  /\ UNCHANGED hookVars

\* The poll found the channel empty: the observation begins and the process
\* is started.
HookStart(g) ==
  /\ hpc[g] = "poll"
  /\ Drained(g)
  /\ hookGen' = [hookGen EXCEPT ![g] = gen]
  /\ hookFrom' = [hookFrom EXCEPT ![g] = sent]
  /\ hpc' = [hpc EXCEPT ![g] = "run"]
  /\ proc' = [proc EXCEPT ![g] = "alive"]
  /\ UNCHANGED <<opts, hname, result, signalVars>>

\* startHookExecution failed: hookStartError.
HookStartFails(g) ==
  /\ hpc[g] = "poll"
  /\ Drained(g)
  /\ Return(g, "fail")
  /\ UNCHANGED signalVars

\* The hook's process ends by itself and Cmd.Wait has its result.
ProcExit(g) ==
  /\ proc[g] = "alive"
  /\ \E e \in Exits : proc' = [proc EXCEPT ![g] = e]
  /\ UNCHANGED <<opts, hpc, hname, hookGen, hookFrom, result, signalVars>>

\* case err := <-waitDone
HookWait(g) ==
  /\ hpc[g] = "run"
  /\ proc[g] \in Exits
  /\ Return(g, proc[g])
  /\ UNCHANGED signalVars

\* case sig := <-signalC, then remember: the waitDone check that follows is
\* the one HookStop makes.
HookSignal(g) ==
  \/ /\ hpc[g] = "run"
     /\ Receive(g)
     /\ hpc' = [hpc EXCEPT ![g] = "taken"]
     /\ UNCHANGED <<opts, hname, proc, hookGen, hookFrom, result>>
  \/ /\ hpc[g] = "taken"
     /\ Remember(g)
     /\ hpc' = [hpc EXCEPT ![g] = "stopSignal"]
     /\ UNCHANGED <<opts, hname, proc, hookGen, hookFrom, result>>

\* case <-signalDone: another goroutine remembered a signal.
HookNotified(g) ==
  /\ hpc[g] = "run"
  /\ GenerationChanged(hookGen[g])
  /\ hpc' = [hpc EXCEPT ![g] = "stopSignal"]
  /\ UNCHANGED <<opts, hname, proc, hookGen, hookFrom, result, signalVars>>

\* case <-timeoutC: the timer may fire at any moment of the invocation.
HookTimer(g) ==
  /\ hpc[g] = "run"
  /\ opts.timeout
  /\ hpc' = [hpc EXCEPT ![g] = "timer"]
  /\ UNCHANGED <<opts, hname, proc, hookGen, hookFrom, result, signalVars>>

\* The poll after the timer is over: a signal accepted during this hook takes
\* precedence over the timeout.
HookTimerDecide(g) ==
  /\ hpc[g] = "timer"
  /\ Drained(g)
  /\ hpc' = [hpc EXCEPT ![g] = IF GenerationChanged(hookGen[g])
                                 THEN "stopSignal" ELSE "stopTimeout"]
  /\ UNCHANGED <<opts, hname, proc, hookGen, hookFrom, result, signalVars>>

\* The waitDone check and stopHookAndWait: a process that already ended keeps
\* its natural result, one that is killed gives a signal or timeout error.
HookStop(g) ==
  /\ hpc[g] \in {"stopSignal", "stopTimeout"}
  /\ Return(g, IF proc[g] \in Exits THEN proc[g]
               ELSE IF hpc[g] = "stopSignal" THEN "signal" ELSE "timeout")
  /\ UNCHANGED signalVars

\* Stopping the boundary fails, though the process may just have ended: it is
\* waited for and the invocation fails with hookBoundaryStopError.
HookStopFails(g) ==
  \/ /\ hpc[g] \in {"stopSignal", "stopTimeout"}
     /\ hpc' = [hpc EXCEPT ![g] = "reap"]
     /\ UNCHANGED <<opts, hname, proc, hookGen, hookFrom, result, signalVars>>
  \/ /\ hpc[g] = "reap"
     /\ proc[g] \in Exits
     /\ Return(g, "fail")
     /\ UNCHANGED signalVars

\* The steps of the goroutine inside the invocation (not of its process).
HookStep(g) ==
  \/ HookPoll(g)       \/ HookStart(g)        \/ HookStartFails(g)
  \/ HookWait(g)       \/ HookSignal(g)       \/ HookNotified(g)
  \/ HookTimer(g)      \/ HookTimerDecide(g)  \/ HookStop(g)
  \/ HookStopFails(g)
=============================================================================

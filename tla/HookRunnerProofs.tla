-------------------------- MODULE HookRunnerProofs --------------------------
(***************************************************************************)
(* Lemmas about the signal tracker and one hook invocation (hookRunner.run)*)
(* that the proofs of the stream modules share.                            *)
(***************************************************************************)
EXTENDS HookRunner, TLAPS

\* The steps of the signal tracker keep its variables in their types: a
\* goroutine that receives or remembers a signal (completion.go, poll and
\* remember), and the delivery of one.
LEMMA SignalTyping ==
  ASSUME SignalTypeOK, [ (\E g \in Procs : PollStep(g)) \/ Deliver ]_signalVars
  PROVE  SignalTypeOK'
<1> USE MaxSignalsAssumption DEF SignalTypeOK, Signals
<1>1. ASSUME NEW g \in Procs, Receive(g) PROVE SignalTypeOK'
  BY <1>1 DEF Receive
<1>2. ASSUME NEW g \in Procs, Remember(g) PROVE SignalTypeOK'
  BY <1>2 DEF Remember
<1>3. CASE Deliver
  BY <1>3 DEF Deliver
<1>4. CASE UNCHANGED signalVars
  BY <1>4 DEF signalVars
<1> QED BY <1>1, <1>2, <1>3, <1>4 DEF PollStep

\* Calling a hook keeps the hook slots in their types (hook.go, run).
LEMMA CallTyping ==
  ASSUME HookTypeOK, NEW g \in Procs, NEW n \in HookNames, CallHook(g, n)
  PROVE  HookTypeOK'
BY DEF HookTypeOK, CallHook, HookPCs, Results, Exits

\* Returning from a hook keeps them too.
LEMMA ReturnTyping ==
  ASSUME HookTypeOK, NEW g \in Procs, NEW r \in Results, Return(g, r)
  PROVE  HookTypeOK'
BY DEF HookTypeOK, Return, HookPCs

\* Towards the signal tracker an invocation only polls, receives and remembers.
LEMMA HookStepSignals ==
  ASSUME NEW g \in Procs, HookStep(g) \/ ProcExit(g)
  PROVE  [ (\E h \in Procs : PollStep(h)) \/ Deliver ]_signalVars
BY DEF HookStep, HookPoll, HookStart, HookStartFails, HookWait, HookSignal,
       HookNotified, HookTimer, HookTimerDecide, HookStop, HookStopFails,
       ProcExit, PollStep, signalVars

\* Every step inside an invocation, and its process's exit, keeps both the
\* hook slots and the tracker in their types.
LEMMA HookTyping ==
  ASSUME SignalTypeOK, HookTypeOK, NEW g \in Procs, HookStep(g) \/ ProcExit(g)
  PROVE  SignalTypeOK' /\ HookTypeOK'
<1>1. HookTypeOK'
  <2> USE DEF HookTypeOK, SignalTypeOK, HookPCs, Exits, Results
  <2>1. CASE HookPoll(g)
    BY <2>1 DEF HookPoll, hookVars
  <2>2. CASE HookStart(g)
    BY <2>2 DEF HookStart
  <2>3. CASE HookStartFails(g)
    BY <2>3, ReturnTyping DEF HookStartFails
  <2>4. CASE HookWait(g)
    BY <2>4, ReturnTyping DEF HookWait
  <2>5. CASE HookSignal(g)
    BY <2>5 DEF HookSignal
  <2>6. CASE HookNotified(g)
    BY <2>6 DEF HookNotified
  <2>7. CASE HookTimer(g)
    BY <2>7 DEF HookTimer
  <2>8. CASE HookTimerDecide(g)
    BY <2>8 DEF HookTimerDecide
  <2>9. CASE HookStop(g)
    <3> DEFINE r == IF proc[g] \in Exits THEN proc[g]
                    ELSE IF hpc[g] = "stopSignal" THEN "signal" ELSE "timeout"
    <3>1. r \in Results
      OBVIOUS
    <3>2. Return(g, r)
      BY <2>9 DEF HookStop
    <3> QED BY <3>1, <3>2, ReturnTyping
  <2>10. CASE HookStopFails(g)
    BY <2>10, ReturnTyping DEF HookStopFails
  <2>11. CASE ProcExit(g)
    BY <2>11 DEF ProcExit
  <2> QED
    BY <2>1, <2>2, <2>3, <2>4, <2>5, <2>6, <2>7, <2>8, <2>9, <2>10, <2>11 DEF HookStep
<1>2. SignalTypeOK'
  BY HookStepSignals, SignalTyping
<1> QED BY <1>1, <1>2

\* Whether a hook's result is an error of the run (hook.go, run) is a Boolean.
LEMMA HookErrorTyping ==
  ASSUME HookTypeOK, NEW n \in HookNames
  PROVE  HookError(n) \in BOOLEAN
BY DEF HookTypeOK, HookError, Options

\* The invocations, their processes and the delivery of signals leave the
\* command line alone, and none of them starts an invocation: only the stream's
\* own steps call a hook.
LEMMA HookStepsOutside ==
  ASSUME HookTypeOK, NEW g \in Procs, HookStep(g) \/ ProcExit(g)
  PROVE  /\ opts' = opts
         /\ \A h \in Procs : ~InHook(h) => ~InHook(h)'
BY DEF HookTypeOK, InHook, HookStep, HookPoll, HookStart, HookStartFails, HookWait,
       HookSignal, HookNotified, HookTimer, HookTimerDecide, HookStop, HookStopFails,
       ProcExit, Return, hookVars

\* A signal once remembered stays the run's signal: `first` is set once
\* (completion.go, remember) and by no other step.
LEMMA FirstStays ==
  ASSUME SignalTypeOK, first # 0,
         [ (\E g \in Procs : PollStep(g)) \/ Deliver ]_signalVars
  PROVE  first' = first
BY DEF PollStep, Receive, Remember, Deliver, signalVars

\* What a step inside the invocation of g does to the results: none, but for
\* the return, which sets the result of the hook it ran.
LEMMA HookResults ==
  ASSUME HookTypeOK, NEW g \in Procs, HookStep(g) \/ ProcExit(g)
  PROVE  /\ hname' = hname
         /\ \A h \in Procs \ {g} : hpc'[h] = hpc[h]
         /\ \A n \in HookNames : result'[n] # result[n] => /\ n = hname[g] /\ result'[n] # "none"
                                                       /\ InHook(g) /\ ~InHook(g)'
         /\ InHook(g) /\ ~InHook(g)' =>
              \A n \in HookNames : n = hname[g] => result'[n] # "none"
<1> USE DEF HookTypeOK, InHook, HookPCs, Exits
<1>1. ASSUME NEW r \in Results, Return(g, r), r # "none", hpc[g] # "idle"
      PROVE  /\ hname' = hname
             /\ \A h \in Procs \ {g} : hpc'[h] = hpc[h]
             /\ \A n \in HookNames : result'[n] # result[n] => n = hname[g] /\ result'[n] # "none"
             /\ \A n \in HookNames : n = hname[g] => result'[n] # "none"
             /\ hpc'[g] = "idle"
  BY <1>1 DEF Return
<1>2. CASE HookStartFails(g) \/ HookWait(g) \/ HookStop(g) \/ (hpc[g] = "reap" /\ Return(g, "fail"))
  <2> USE DEF Results
  <2>1. CASE HookStartFails(g)
    BY <1>1, <2>1 DEF HookStartFails
  <2>2. CASE HookWait(g)
    BY <1>1, <2>2 DEF HookWait
  <2>3. CASE HookStop(g)
    <3> DEFINE r == IF proc[g] \in Exits THEN proc[g]
                    ELSE IF hpc[g] = "stopSignal" THEN "signal" ELSE "timeout"
    <3>1. r \in Results /\ r # "none"
      OBVIOUS
    <3>2. Return(g, r) /\ hpc[g] # "idle"
      BY <2>3 DEF HookStop
    <3> HIDE DEF r
    <3> QED BY <1>1, <3>1, <3>2
  <2>4. CASE hpc[g] = "reap" /\ Return(g, "fail")
    BY <1>1, <2>4
  <2> QED BY <1>2, <2>1, <2>2, <2>3, <2>4
<1>3. CASE /\ UNCHANGED <<hname, result>>
           /\ \A h \in Procs \ {g} : hpc'[h] = hpc[h]
           /\ InHook(g) => InHook(g)'
  BY <1>3
<1> QED BY <1>2, <1>3 DEF HookStep, HookPoll, HookStart, HookSignal, HookNotified, HookTimer,
           HookTimerDecide, HookStopFails, ProcExit, hookVars

\* Only an invocation that is being stopped for a signal returns that it was
\* interrupted by one (hook.go, hookSignalError).
LEMMA HookInterruption ==
  ASSUME HookTypeOK, NEW g \in Procs, HookStep(g) \/ ProcExit(g), NEW n \in HookNames,
         result'[n] = "signal", result[n] # "signal"
  PROVE  hpc[g] = "stopSignal" /\ n = hname[g] /\ hookFrom' = hookFrom
<1> USE DEF HookTypeOK, Exits
<1>1. CASE HookStop(g)
  <2> DEFINE r == IF proc[g] \in Exits THEN proc[g]
                  ELSE IF hpc[g] = "stopSignal" THEN "signal" ELSE "timeout"
  <2>1. Return(g, r) /\ (r = "signal" => hpc[g] = "stopSignal")
    BY <1>1 DEF HookStop
  <2> HIDE DEF r
  <2> QED BY <2>1 DEF Return
<1>2. CASE HookStartFails(g)
  BY <1>2 DEF HookStartFails, Return
<1>3. CASE HookWait(g)
  BY <1>3 DEF HookWait, Return
<1>4. CASE HookStopFails(g)
  BY <1>4 DEF HookStopFails, Return
<1>5. CASE result' = result
  BY <1>5
<1> QED
  BY <1>1, <1>2, <1>3, <1>4, <1>5
     DEF HookStep, HookPoll, HookStart, HookSignal, HookNotified, HookTimer,
         HookTimerDecide, ProcExit, hookVars

\* What calling a hook does: the caller is inside the invocation, or a dry run
\* has recorded its result.
LEMMA CallResults ==
  ASSUME HookTypeOK, NEW g \in Procs, NEW n \in HookNames, CallHook(g, n)
  PROVE  /\ opts' = opts /\ hookFrom' = hookFrom /\ hookGen' = hookGen
         /\ \A h \in Procs \ {g} : hpc'[h] = hpc[h] /\ hname'[h] = hname[h]
         /\ \A m \in HookNames \ {n} : result'[m] = result[m]
         /\ \/ hpc'[g] = "poll" /\ hname'[g] = n /\ result' = result
            \/ hpc' = hpc /\ hname' = hname /\ result'[n] = "dry-run"
BY DEF CallHook, HookTypeOK
=============================================================================

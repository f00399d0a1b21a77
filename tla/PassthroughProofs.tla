------------------------- MODULE PassthroughProofs --------------------------
(***************************************************************************)
(* Theorems about Passthrough, for any number of signals, bytes and any    *)
(* set of command lines.                                                   *)
(***************************************************************************)
EXTENDS Passthrough, HookRunnerProofs, TLAPS

-----------------------------------------------------------------------------
(* Typing, component by component. *)

\* Recording an event keeps the record a sequence of lifecycle events.
LEMMA EmitTyping ==
  ASSUME emitted \in Seq(Events), NEW e \in Events, Emit(e)
  PROVE  emitted' \in Seq(Events)
BY DEF Emit

\* The stream's own variables, the part of TypeOK that is about them.
StreamTypeOK ==
  /\ pc \in MainPCs
  /\ doneSignal \in Signals
  /\ copyErr \in CopyErrors
  /\ hookFailed \in BOOLEAN
  /\ kind \in Kinds
  /\ ctx \in [reason : Reasons, bytes : Nat]
  /\ status \in {"running", "ok", "failed", "signal"}
  /\ cpc \in CopyPCs
  /\ nread \in Nat
  /\ chunk \in Nat
  /\ rerr \in ReadErrors \cup CopyErrors
  /\ werr \in WriteErrors
  /\ copyDone \in CopyErrors \cup {"empty"}
  /\ fd \in FirstDataFlags
  /\ out \in Seq(Int)
  /\ bytes \in Nat
  /\ emitted \in Seq(Events)

\* The type invariant, split into the tracker's, the hooks' and the stream's part.
LEMMA TypeOKParts ==
  TypeOK <=> SignalTypeOK /\ HookTypeOK /\ opts \in Configs /\ StreamTypeOK
BY DEF TypeOK, StreamTypeOK

\* Every step of the main goroutine keeps the stream's variables in their
\* types.
LEMMA MainTyping ==
  ASSUME TypeOK, MainStep
  PROVE  TypeOK'
<1> USE DEF StreamTypeOK, MainPCs, PollPoints, copyVars, sharedVars
<1>0. SignalTypeOK /\ HookTypeOK /\ opts \in Configs /\ StreamTypeOK
  BY TypeOKParts
<1>P. "main" \in Procs /\ HookNames = {"on-ready", "on-first-data", "on-shutdown"}
  BY ProcsAssumption, HookNamesAssumption
<1>1. CASE Ready
  <2>1. HookTypeOK'
    BY <1>0, <1>P, <1>1, CallTyping DEF Ready, HookTypeOK, hookVars
  <2>2. emitted' \in Seq(Events)
    BY <1>0, <1>1, EmitTyping DEF Ready, Events
  <2>3. opts' = opts /\ SignalTypeOK'
    BY <1>0, <1>1 DEF Ready, CallHook, hookVars, signalVars, SignalTypeOK
  <2>4. StreamTypeOK'
    BY <1>0, <1>1, <2>2 DEF Ready, Signals
  <2> QED BY <1>0, <2>1, <2>3, <2>4, TypeOKParts DEF TypeOK
<1>2. CASE ReadyDone
  BY <1>0, <1>2 DEF ReadyDone, TypeOK, hookVars, signalVars, HookTypeOK, SignalTypeOK
<1>3. CASE MainPoll
  <2>1. SignalTypeOK'
    BY <1>0, <1>P, <1>3, SignalTyping DEF MainPoll
  <2> QED BY <1>0, <1>3, <2>1 DEF MainPoll, TypeOK, streamVars, mainVars, hookVars, HookTypeOK
<1>4. CASE ReadyFailed
  BY <1>0, <1>4 DEF ReadyFailed, TypeOK, hookVars, signalVars, HookTypeOK, SignalTypeOK
<1>5. CASE StartCopy
  BY <1>0, <1>5 DEF StartCopy, AfterPoll, TypeOK, hookVars, signalVars, HookTypeOK,
     SignalTypeOK, CopyPCs
<1>6. CASE WaitPoll
  BY <1>0, <1>6 DEF WaitPoll, AfterPoll, TypeOK, hookVars, signalVars, HookTypeOK,
     SignalTypeOK
<1>7. CASE SelectSignal
  <2>1. SignalTypeOK'
    BY <1>0, <1>P, <1>7, SignalTyping DEF SelectSignal, PollStep
  <2> QED BY <1>0, <1>7, <2>1 DEF SelectSignal, TypeOK, hookVars, HookTypeOK, SignalTypeOK
<1>8. CASE SelectCopy
  BY <1>0, <1>8 DEF SelectCopy, TypeOK, hookVars, signalVars, HookTypeOK, SignalTypeOK
<1>9. CASE CopyPoll
  BY <1>0, <1>9 DEF CopyPoll, TypeOK, hookVars, signalVars, HookTypeOK, SignalTypeOK
<1>10. CASE Snapshot
  BY <1>0, <1>10 DEF Snapshot, Reason, Reasons, TypeOK, hookVars, signalVars,
     HookTypeOK, SignalTypeOK
<1>11. CASE Cancel
  BY <1>0, <1>11 DEF Cancel, FirstDataFlags, AfterCancel, TypeOK, hookVars, signalVars,
     HookTypeOK, SignalTypeOK
<1>12. CASE AwaitFirstData
  BY <1>0, <1>12 DEF AwaitFirstData, TypeOK, hookVars, signalVars, HookTypeOK, SignalTypeOK
<1>13. CASE Shutdown
  <2>1. emitted' \in Seq(Events)
    BY <1>0, <1>13, EmitTyping DEF Shutdown, Events
  <2> QED BY <1>0, <1>13, <2>1 DEF Shutdown, FirstDataFlags, TypeOK, hookVars,
     signalVars, HookTypeOK, SignalTypeOK
<1>14. CASE FinishPoll
  <2>1. HookTypeOK'
    BY <1>0, <1>P, <1>14, CallTyping DEF FinishPoll, HookTypeOK, hookVars
  <2>2. opts' = opts /\ SignalTypeOK'
    BY <1>0, <1>14 DEF FinishPoll, CallHook, hookVars, signalVars, SignalTypeOK
  <2>3. StreamTypeOK'
    BY <1>0, <1>14 DEF FinishPoll, PolledSignal, Classify, Kinds, SignalTypeOK, Signals
  <2> QED BY <1>0, <2>1, <2>2, <2>3, TypeOKParts DEF TypeOK
<1>15. CASE Finish
  BY <1>0, <1>15 DEF Finish, PolledSignal, TypeOK, hookVars, signalVars, HookTypeOK,
     SignalTypeOK
<1> QED
  BY <1>1, <1>2, <1>3, <1>4, <1>5, <1>6, <1>7, <1>8, <1>9, <1>10, <1>11, <1>12,
     <1>13, <1>14, <1>15 DEF MainStep

\* Every step of the copy goroutine does too.
LEMMA CopyTyping ==
  ASSUME TypeOK, CopyRead \/ CopyWrite \/ CopyOwnStep
  PROVE  TypeOK'
<1> USE DEF StreamTypeOK, CopyPCs, mainVars, sharedVars
<1>0. SignalTypeOK /\ HookTypeOK /\ opts \in Configs /\ StreamTypeOK
  BY TypeOKParts
<1>P. "copy" \in Procs /\ HookNames = {"on-ready", "on-first-data", "on-shutdown"}
  BY ProcsAssumption, HookNamesAssumption
<1>1. CASE CopyRead
  BY <1>0, <1>1, BytesAssumption DEF CopyRead, TypeOK, hookVars, signalVars, HookTypeOK,
     SignalTypeOK
<1>2. CASE CopyGate
  <2>1. fd' \in FirstDataFlags
    BY <1>0, <1>2 DEF CopyGate, FirstDataFlags
  <2>2. cpc' \in CopyPCs /\ chunk' \in Nat /\ rerr' \in ReadErrors \cup CopyErrors
    BY <1>0, <1>2 DEF CopyGate, CopyErrors
  <2> QED
    BY <1>0, <1>2, <2>1, <2>2 DEF CopyGate, FirstDataFlags, TypeOK, hookVars, signalVars,
       HookTypeOK, SignalTypeOK
<1>3. CASE FirstData
  <2>1. HookTypeOK'
    BY <1>0, <1>P, <1>3, CallTyping DEF FirstData, HookTypeOK, hookVars
  <2>2. emitted' \in Seq(Events)
    BY <1>0, <1>3, EmitTyping DEF FirstData, Events
  <2>3. opts' = opts /\ SignalTypeOK'
    BY <1>0, <1>3 DEF FirstData, CallHook, hookVars, signalVars, SignalTypeOK
  <2>4. StreamTypeOK'
    BY <1>0, <1>3, <2>2 DEF FirstData
  <2> QED BY <1>0, <2>1, <2>3, <2>4, TypeOKParts DEF TypeOK
<1>4. CASE CopyUngate
  <2>1. HookError("on-first-data") \in BOOLEAN
    BY <1>0, <1>P, HookErrorTyping
  <2>2. fd' \in FirstDataFlags
    BY <1>0, <1>4, <2>1 DEF CopyUngate, Finished, FirstDataFlags
  <2>3. cpc' \in CopyPCs /\ chunk' \in Nat /\ rerr' \in ReadErrors \cup CopyErrors
    BY <1>0, <1>4 DEF CopyUngate, FirstBytes, CopyErrors
  <2> QED
    BY <1>0, <1>4, <2>2, <2>3 DEF CopyUngate, FirstDataFlags, TypeOK, hookVars, signalVars,
       HookTypeOK, SignalTypeOK
<1>5. CASE CopyWrite
  <2>1. out' \in Seq(Int) /\ werr' \in WriteErrors
    <3>1. PICK k \in 0..chunk : out' = out \o [i \in 1..k |-> nread - chunk + i]
      BY <1>5 DEF CopyWrite
    <3>2. [i \in 1..k |-> nread - chunk + i] \in Seq(Int)
      BY <1>0
    <3> QED BY <1>0, <1>5, <3>1, <3>2 DEF CopyWrite
  <2> QED BY <1>0, <1>5, <2>1 DEF CopyWrite, TypeOK, hookVars, signalVars, HookTypeOK,
     SignalTypeOK
<1>6. CASE CopyCount
  BY <1>0, <1>6 DEF CopyCount, Counted, GoesOn, WriteErrors, CopyErrors, TypeOK, hookVars,
     signalVars, HookTypeOK, SignalTypeOK
<1>7. CASE CopyFinish
  BY <1>0, <1>7 DEF CopyFinish, CopyResult, ReadErrors, CopyErrors, TypeOK, hookVars,
     signalVars, HookTypeOK, SignalTypeOK
<1> QED BY <1>1, <1>2, <1>3, <1>4, <1>5, <1>6, <1>7 DEF CopyOwnStep

\* Hooks, processes, signals and the returned run leave the stream alone.
LEMMA OtherTyping ==
  ASSUME TypeOK,
         \/ \E g \in Procs : HookSteps(g) \/ ProcExits(g)
         \/ SignalArrives
         \/ UNCHANGED vars
  PROVE  TypeOK'
<1>0. SignalTypeOK /\ HookTypeOK /\ opts \in Configs /\ StreamTypeOK
  BY TypeOKParts
<1>1. ASSUME NEW g \in Procs, HookSteps(g) \/ ProcExits(g) PROVE TypeOK'
  <2>1. SignalTypeOK' /\ HookTypeOK'
    BY <1>0, <1>1, HookTyping DEF HookSteps, ProcExits
  <2>2. opts' = opts
    BY <1>1 DEF HookSteps, ProcExits, HookStep, HookPoll, HookStart, HookStartFails,
       HookWait, HookSignal, HookNotified, HookTimer, HookTimerDecide, HookStop,
       HookStopFails, ProcExit, Return, hookVars
  <2>3. StreamTypeOK'
    BY <1>0, <1>1 DEF HookSteps, ProcExits, StreamTypeOK, streamVars, mainVars,
       copyVars, sharedVars
  <2> QED BY <1>0, <2>1, <2>2, <2>3 DEF TypeOK, StreamTypeOK
<1>2. CASE SignalArrives
  <2>1. SignalTypeOK'
    BY <1>0, <1>2, SignalTyping DEF SignalArrives
  <2> QED
    BY <1>0, <1>2, <2>1 DEF SignalArrives, TypeOK, streamVars, mainVars, copyVars,
       sharedVars, hookVars, HookTypeOK
<1>3. CASE UNCHANGED vars
  BY <1>3 DEF vars, TypeOK, streamVars, mainVars, copyVars, sharedVars, hookVars,
     signalVars, HookTypeOK, SignalTypeOK
<1> QED BY <1>1, <1>2, <1>3

\* A run starts with every variable in its type.
LEMMA InitTyping == Init => TypeOK
<1> SUFFICES ASSUME Init PROVE TypeOK
  OBVIOUS
<1>1. SignalTypeOK
  BY MaxSignalsAssumption DEF Init, SignalInit, SignalTypeOK, Signals
<1>2. HookTypeOK /\ opts \in Configs
  BY <1>1, ConfigsAssumption, MaxSignalsAssumption
     DEF Init, HookInit, HookTypeOK, HookPCs, Results, Signals
<1>3. StreamTypeOK
  <2>1. out \in Seq(Int) /\ emitted \in Seq(Events)
    BY DEF Init
  <2>2. ctx \in [reason : Reasons, bytes : Nat] /\ fd \in FirstDataFlags
    BY DEF Init, Reasons, FirstDataFlags
  <2>3. hookFailed \in BOOLEAN
    BY Zenon DEF Init
  <2>4. doneSignal \in Signals
    BY MaxSignalsAssumption DEF Init, Signals
  <2> QED
    BY <2>1, <2>2, <2>3, <2>4
       DEF Init, StreamTypeOK, MainPCs, PollPoints, CopyPCs, CopyErrors, ReadErrors,
           WriteErrors, Kinds
<1> QED BY <1>1, <1>2, <1>3, TypeOKParts

\* Type correctness of a run without --idle.
THEOREM TypeCorrect == Spec => []TypeOK
<1>1. TypeOK /\ [Next]_vars => TypeOK'
  BY MainTyping, CopyTyping, OtherTyping DEF Next, Returned
<1> QED BY <1>1, InitTyping, PTL DEF Spec

-----------------------------------------------------------------------------
(* Cleanup is alone.  What main and the copy goroutine know of each other: *)
(* the flag `running` says exactly when the first-data callback is in      *)
(* progress; before copying there is no copy goroutine; a completion       *)
(* without a signal means the copy has ended; and once main is past the    *)
(* cancellation, no first-data callback is running or can start any more.  *)

NoMoreFirstData ==
  cpc \in {"off", "done"} \/ ~UsesFirstData \/ (fd.canceled /\ ~fd.running)

CleanupInv ==
  /\ fd.running <=> cpc \in {"event", "ungate"}
  /\ fd.running => fd.done
  /\ hpc["copy"] # "idle" => cpc = "ungate"
  /\ ~UsesFirstData => cpc \notin {"gate", "event", "ungate"}
  /\ pc \in {"start", "readyDone", "readyFailed", "readyPoll"} => cpc = "off"
  /\ copyDone # "empty" => cpc = "done"
  /\ pc = "copyPoll" => cpc = "done"
  /\ pc = "snapshot" /\ doneSignal = 0 => cpc = "done"
  /\ pc = "await" => fd.canceled
  /\ pc \in {"shutdown", "finishPoll", "lastPoll"} => NoMoreFirstData

\* The steps of hooks, processes and signals leave the lifecycle where it is,
\* and none of them starts an invocation.
LEMMA OtherStepsOutside ==
  ASSUME TypeOK,
         \/ \E g \in Procs : HookSteps(g) \/ ProcExits(g)
         \/ SignalArrives
         \/ UNCHANGED vars
  PROVE  /\ UNCHANGED <<streamVars, opts>>
         /\ hpc["copy"] = "idle" => hpc'["copy"] = "idle"
<1>1. ASSUME NEW g \in Procs, HookStep(g)
      PROVE  opts' = opts /\ (hpc["copy"] = "idle" => hpc'["copy"] = "idle")
  BY <1>1, ProcsAssumption
     DEF TypeOK, HookTypeOK, HookStep, HookPoll, HookStart, HookStartFails, HookWait,
         HookSignal, HookNotified, HookTimer, HookTimerDecide, HookStop, HookStopFails,
         Return, hookVars
<1>2. ASSUME NEW g \in Procs, ProcExit(g)
      PROVE  opts' = opts /\ hpc' = hpc
  BY <1>2 DEF ProcExit
<1> QED
  BY <1>1, <1>2 DEF HookSteps, ProcExits, SignalArrives, hookVars, vars

\* The main goroutine keeps it.
LEMMA MainCleanup ==
  ASSUME TypeOK, CleanupInv, MainStep
  PROVE  CleanupInv'
<1> USE DEF CleanupInv, NoMoreFirstData, UsesFirstData, Configured, copyVars, sharedVars
<1>T. /\ fd \in FirstDataFlags /\ hpc \in [Procs -> HookPCs]
      /\ first \in Signals /\ inHand \in [Procs -> Signals]
      /\ "main" \in Procs /\ "copy" \in Procs
  BY ProcsAssumption DEF TypeOK, HookTypeOK, SignalTypeOK
<1>1. CASE Ready
  BY <1>T, <1>1 DEF Ready, CallHook, hookVars
<1>2. CASE ReadyDone
  BY <1>2 DEF ReadyDone, hookVars
<1>3. CASE MainPoll
  BY <1>3 DEF MainPoll, streamVars, mainVars, hookVars
<1>4. CASE ReadyFailed
  BY <1>4 DEF ReadyFailed, hookVars
<1>5. CASE StartCopy
  BY <1>5 DEF StartCopy, AfterPoll, hookVars
<1>6. CASE WaitPoll
  BY <1>6 DEF WaitPoll, AfterPoll, hookVars
<1>7. CASE SelectSignal
  BY <1>T, <1>7 DEF SelectSignal, Remember, hookVars
<1>8. CASE SelectCopy
  BY <1>8 DEF SelectCopy, hookVars
<1>9. CASE CopyPoll
  BY <1>9 DEF CopyPoll, hookVars
<1>10. CASE Snapshot
  BY <1>10 DEF Snapshot, FirstDataExists, hookVars
<1>11. CASE Cancel
  BY <1>T, <1>11 DEF Cancel, AfterCancel, FirstDataFlags, hookVars
<1>12. CASE AwaitFirstData
  BY <1>12 DEF AwaitFirstData, hookVars
<1>13. CASE Shutdown
  BY <1>13 DEF Shutdown, hookVars
<1>14. CASE FinishPoll
  BY <1>T, <1>14 DEF FinishPoll, CallHook, hookVars
<1>15. CASE Finish
  BY <1>15 DEF Finish, hookVars
<1> QED
  BY <1>1, <1>2, <1>3, <1>4, <1>5, <1>6, <1>7, <1>8, <1>9, <1>10, <1>11, <1>12,
     <1>13, <1>14, <1>15 DEF MainStep

\* The copy goroutine keeps it: the gate lets no callback start once canceled.
LEMMA CopyCleanup ==
  ASSUME TypeOK, CleanupInv, CopyRead \/ CopyWrite \/ CopyOwnStep
  PROVE  CleanupInv'
<1> USE DEF CleanupInv, NoMoreFirstData, UsesFirstData, Configured, mainVars, sharedVars
<1>T. /\ fd \in FirstDataFlags /\ hpc \in [Procs -> HookPCs] /\ "copy" \in Procs
      /\ HookError("on-first-data") \in BOOLEAN
  BY ProcsAssumption, HookNamesAssumption, HookErrorTyping DEF TypeOK, HookTypeOK
<1>1. CASE CopyRead
  BY <1>1 DEF CopyRead, hookVars
<1>2. CASE CopyGate
  BY <1>T, <1>2 DEF CopyGate, CopyActs, InHook, FirstDataFlags, hookVars
<1>3. CASE FirstData
  BY <1>T, <1>3 DEF FirstData, CallHook, hookVars
<1>4. CASE CopyUngate
  BY <1>T, <1>4 DEF CopyUngate, Finished, CopyActs, InHook, FirstDataFlags, hookVars
<1>5. CASE CopyWrite
  BY <1>5 DEF CopyWrite, hookVars
<1>6. CASE CopyCount
  BY <1>6 DEF CopyCount, hookVars
<1>7. CASE CopyFinish
  BY <1>7 DEF CopyFinish, hookVars
<1> QED BY <1>1, <1>2, <1>3, <1>4, <1>5, <1>6, <1>7 DEF CopyOwnStep

\* The invariant about cleanup holds in every reachable state.
LEMMA CleanupInvariant == Spec => []CleanupInv
<1>1. Init => CleanupInv
  BY ProcsAssumption DEF Init, HookInit, CleanupInv
<1>2. TypeOK /\ CleanupInv /\ [Next]_vars => CleanupInv'
  <2> SUFFICES ASSUME TypeOK, CleanupInv, [Next]_vars PROVE CleanupInv'
    OBVIOUS
  <2>1. CASE MainStep
    BY <2>1, MainCleanup
  <2>2. CASE CopyRead \/ CopyWrite \/ CopyOwnStep
    BY <2>2, CopyCleanup
  <2>3. CASE \/ \E g \in Procs : HookSteps(g) \/ ProcExits(g)
             \/ SignalArrives
             \/ UNCHANGED vars
    BY <2>3, OtherStepsOutside
       DEF CleanupInv, NoMoreFirstData, UsesFirstData, Configured, streamVars, mainVars, copyVars,
           sharedVars
  <2> QED BY <2>1, <2>2, <2>3 DEF Next, Returned
<1> QED BY <1>1, <1>2, TypeCorrect, PTL DEF Spec

\* From the shutdown event on, no first-data callback is in progress, whatever
\* signals arrive and however the two goroutines interleave.
THEOREM CleanupIsAlone == Spec => []CleanupAlone
<1>1. CleanupInv => CleanupAlone
  BY DEF CleanupInv, CleanupAlone, NoMoreFirstData, UsesFirstData, Configured, InHook
<1> QED BY <1>1, CleanupInvariant, PTL
-----------------------------------------------------------------------------
(* stdout is a prefix of stdin, and all of it when the run reports "eof".  *)
(* The bytes of the current read are the ones just after what was written; *)
(* a copy that ends with EOF has written everything it read; and a         *)
(* completion without error or signal comes from such a copy.              *)

CopiedAll == cpc = "done" /\ rerr = "eof"

OutputInv ==
  /\ \A i \in 1..Len(out) : out[i] = i
  /\ Len(out) <= nread
  /\ cpc \in {"off", "read"} => Len(out) = nread
  /\ cpc \in {"gate", "event", "ungate", "write"} => Len(out) + chunk = nread
  /\ cpc = "count" /\ werr = "none" => Len(out) = nread
  /\ cpc \in {"finish", "done"} => rerr # "none"
  /\ cpc \in {"finish", "done"} /\ rerr = "eof" => Len(out) = nread
  /\ copyDone = "none" => CopiedAll
  /\ pc = "copyPoll" /\ copyErr = "none" => CopiedAll
  /\ pc = "snapshot" /\ doneSignal = 0 /\ copyErr = "none" => CopiedAll
  /\ ctx.reason = "eof" => CopiedAll

\* Writing the next k bytes extends the prefix by k.
LEMMA PrefixExtends ==
  ASSUME out \in Seq(Int), nread \in Nat, chunk \in Nat, NEW k \in 0..chunk,
         \A i \in 1..Len(out) : out[i] = i,
         Len(out) + chunk = nread,
         out' = out \o [i \in 1..k |-> nread - chunk + i]
  PROVE  /\ \A i \in 1..Len(out') : out'[i] = i
         /\ Len(out') = Len(out) + k
<1> DEFINE w == [i \in 1..k |-> nread - chunk + i]
<1>1. w \in Seq(Int) /\ Len(w) = k /\ \A i \in 1..k : w[i] = Len(out) + i
  OBVIOUS
<1>2. Len(out \o w) = Len(out) + k
  BY <1>1
<1>3. ASSUME NEW i \in 1..(Len(out) + k) PROVE (out \o w)[i] = i
  <2> HIDE DEF w
  <2>0. i \in Nat /\ Len(out) \in Nat
    BY <1>2
  <2>1. CASE i <= Len(out)
    BY <1>1, <2>1
  <2>2. CASE i > Len(out)
    <3>1. (out \o w)[i] = w[i - Len(out)] /\ i - Len(out) \in 1..k
      BY <1>1, <2>0, <2>2
    <3> QED BY <1>1, <2>0, <3>1
  <2>3. i <= Len(out) \/ i > Len(out)
    BY <2>0
  <2> QED BY <2>1, <2>2, <2>3
<1> QED BY <1>2, <1>3

\* The main goroutine never touches the copy, and reads its result.
LEMMA MainOutput ==
  ASSUME TypeOK, CleanupInv, OutputInv, MainStep
  PROVE  OutputInv'
<1> USE DEF OutputInv, CopiedAll, copyVars, sharedVars
<1>T. /\ ctx \in [reason : Reasons, bytes : Nat] /\ out \in Seq(Int) /\ nread \in Nat
      /\ first \in Signals /\ inHand \in [Procs -> Signals] /\ "main" \in Procs
  BY ProcsAssumption DEF TypeOK, SignalTypeOK
<1>1. CASE Ready
  BY <1>1 DEF Ready
<1>2. CASE ReadyDone
  BY <1>2 DEF ReadyDone
<1>3. CASE MainPoll
  BY <1>3 DEF MainPoll, streamVars, mainVars
<1>4. CASE ReadyFailed
  BY <1>4 DEF ReadyFailed
<1>5. CASE StartCopy
  BY <1>5 DEF StartCopy, AfterPoll, CleanupInv
<1>6. CASE WaitPoll
  BY <1>6 DEF WaitPoll, AfterPoll
<1>7. CASE SelectSignal
  BY <1>T, <1>7 DEF SelectSignal, Remember
<1>8. CASE SelectCopy
  BY <1>8 DEF SelectCopy
<1>9. CASE CopyPoll
  BY <1>9 DEF CopyPoll
<1>10. CASE Snapshot
  <2>1. ctx'.reason = Reason(doneSignal, copyErr)
    BY <1>10 DEF Snapshot
  <2>2. ctx'.reason = "eof" => doneSignal = 0 /\ copyErr = "none"
    BY <2>1 DEF Reason
  <2> QED BY <1>10, <2>2 DEF Snapshot
<1>11. CASE Cancel
  BY <1>11 DEF Cancel, AfterCancel
<1>12. CASE AwaitFirstData
  BY <1>12 DEF AwaitFirstData
<1>13. CASE Shutdown
  BY <1>13 DEF Shutdown
<1>14. CASE FinishPoll
  BY <1>14 DEF FinishPoll
<1>15. CASE Finish
  BY <1>15 DEF Finish
<1> QED
  BY <1>1, <1>2, <1>3, <1>4, <1>5, <1>6, <1>7, <1>8, <1>9, <1>10, <1>11, <1>12,
     <1>13, <1>14, <1>15 DEF MainStep

\* The copy goroutine keeps it: only a whole write goes on to the next read.
LEMMA CopyOutput ==
  ASSUME TypeOK, CleanupInv, OutputInv, CopyRead \/ CopyWrite \/ CopyOwnStep
  PROVE  OutputInv'
<1> USE DEF OutputInv, CopiedAll, mainVars, sharedVars
<1>T. /\ out \in Seq(Int) /\ nread \in Nat /\ chunk \in Nat /\ Len(out) \in Nat
      /\ copyDone # "empty" => cpc = "done"
  BY DEF TypeOK, CleanupInv
<1>1. CASE CopyRead
  BY <1>T, <1>1 DEF CopyRead
<1>2. CASE CopyGate
  BY <1>T, <1>2 DEF CopyGate
<1>3. CASE FirstData
  BY <1>T, <1>3 DEF FirstData
<1>4. CASE CopyUngate
  BY <1>T, <1>4 DEF CopyUngate, FirstBytes
<1>5. CASE CopyWrite
  <2>1. PICK k \in 0..chunk, e \in WriteErrors :
          /\ k = chunk \/ e # "none"
          /\ out' = out \o [i \in 1..k |-> nread - chunk + i]
          /\ werr' = e
    BY <1>5 DEF CopyWrite
  <2>2. Len(out) + chunk = nread
    BY <1>5 DEF CopyWrite
  <2>3. /\ \A i \in 1..Len(out') : out'[i] = i
        /\ Len(out') = Len(out) + k
    BY <1>T, <2>1, <2>2, PrefixExtends
  <2> QED BY <1>T, <1>5, <2>1, <2>2, <2>3 DEF CopyWrite
<1>6. CASE CopyCount
  BY <1>T, <1>6 DEF CopyCount, GoesOn, TypeOK, WriteErrors
<1>7. CASE CopyFinish
  BY <1>T, <1>7 DEF CopyFinish, CopyResult
<1> QED BY <1>1, <1>2, <1>3, <1>4, <1>5, <1>6, <1>7 DEF CopyOwnStep

\* The invariant about the output holds in every reachable state.
LEMMA OutputInvariant == Spec => []OutputInv
<1>1. Init => OutputInv
  BY DEF Init, OutputInv, CopiedAll
<1>2. TypeOK /\ CleanupInv /\ OutputInv /\ [Next]_vars => OutputInv'
  <2> SUFFICES ASSUME TypeOK, CleanupInv, OutputInv, [Next]_vars PROVE OutputInv'
    OBVIOUS
  <2>1. CASE MainStep
    BY <2>1, MainOutput
  <2>2. CASE CopyRead \/ CopyWrite \/ CopyOwnStep
    BY <2>2, CopyOutput
  <2>3. CASE \/ \E g \in Procs : HookSteps(g) \/ ProcExits(g)
             \/ SignalArrives
             \/ UNCHANGED vars
    BY <2>3, OtherStepsOutside
       DEF OutputInv, CopiedAll, streamVars, mainVars, copyVars, sharedVars
  <2> QED BY <2>1, <2>2, <2>3 DEF Next, Returned
<1> QED BY <1>1, <1>2, TypeCorrect, CleanupInvariant, PTL DEF Spec

\* stdout is always a prefix of stdin, and all of it when the run reports
\* "eof", for every split into reads and every failing or partial write.
THEOREM OutputIsFaithful == Spec => []OutputFaithful
<1>1. TypeOK /\ OutputInv => OutputFaithful
  BY DEF TypeOK, OutputInv, OutputFaithful, CopiedAll
<1> QED BY <1>1, TypeCorrect, OutputInvariant, PTL
-----------------------------------------------------------------------------
(* The result of a run: which hooks ran and failed, the first data, the    *)
(* byte count, the reason and the exit status.                             *)

\* Which hook an invocation runs, and when a hook has a result.
HookInv ==
  /\ InHook("main") => \/ pc = "readyDone" /\ hname["main"] = "on-ready"
                       \/ pc = "lastPoll"  /\ hname["main"] = "on-shutdown"
  /\ InHook("copy") => hname["copy"] = "on-first-data"
  /\ \A g \in Procs : InHook(g) => result[hname[g]] = "none"
  /\ pc = "start" => result["on-ready"] = "none"
  /\ result["on-shutdown"] # "none" => pc \in {"lastPoll", "returned"}
  /\ pc = "lastPoll" /\ Configured("on-shutdown") /\ ~InHook("main") =>
        result["on-shutdown"] # "none"
  /\ ~fd.done \/ cpc = "event" => result["on-first-data"] = "none"
  /\ Configured("on-first-data") /\ fd.done /\ cpc # "event" /\ ~InHook("copy") =>
        result["on-first-data"] # "none"

\* How far the copy got before and after its first data.
GateInv ==
  /\ UsesFirstData /\ (~fd.done \/ fd.running) => out = <<>>
  /\ UsesFirstData /\ ~fd.done => cpc \notin {"write", "count"}
  /\ UsesFirstData /\ ~fd.done /\ cpc = "read" => nread = 0
  /\ (cpc = "gate" /\ ~fd.done) \/ fd.running => nread <= MaxChunk
  /\ /\ fd.done /\ ~fd.running /\ HookError("on-first-data") /\ ~fd.canceled
     => /\ nread <= MaxChunk
        /\ cpc \in {"write", "count", "finish", "done"}
        /\ cpc \in {"write", "count"} => rerr # "none"
        /\ cpc \in {"finish", "done"} /\ werr = "none" => Len(out) = nread

BytesInv ==
  /\ bytes <= Len(out)
  /\ cpc # "count" => bytes = Len(out)
  /\ ctx.bytes <= Len(out)
  /\ ctx.reason \notin {"unset", "signal"} => cpc = "done" /\ ctx.bytes = Len(out)

\* Why the run ends: a signal, or the copy's own result.
DoneInv ==
  /\ pc = "returned" <=> ~Running
  /\ doneSignal # 0 => first # 0
  /\ pc = "cancel" => doneSignal # 0
  /\ fd.canceled => first # 0
  /\ rerr = "canceled" => first # 0
  /\ copyDone # "empty" => copyDone = CopyResult
  /\ pc = "copyPoll" => copyErr = CopyResult
  /\ pc \in {"snapshot", "shutdown", "finishPoll", "lastPoll"} /\ first = 0 =>
       cpc = "done" /\ copyErr = CopyResult
  /\ pc = "lastPoll" /\ first = 0 => kind = Classify(0, copyErr)

\* What is known of a failed hook before the run ends.
FailedInv ==
  /\ pc = "readyFailed" => HookError("on-ready")
  /\ pc \notin {"start", "readyDone", "readyFailed", "returned"} /\ first = 0 =>
       ~HookError("on-ready")
  /\ ~fd.running => (fd.failed <=> HookError("on-first-data"))
  /\ pc \in {"finishPoll", "lastPoll"} => (hookFailed <=> fd.failed)
  /\ rerr \in {"hook", "hook+io"} =>
       HookError("on-first-data") /\ fd.done /\ ~fd.running

\* No signal is pending while the shutdown hook observes, but new ones.
Observing ==
  pc = "lastPoll" /\ hpc["main"] \in {"run", "taken", "timer", "stopSignal",
                                     "stopTimeout", "reap"}

SignalInv ==
  /\ inHand["copy"] # 0 => hpc["copy"] \in {"poll", "taken", "timer"}
  /\ Observing => hookFrom["main"] <= sent
  /\ Observing /\ sent = hookFrom["main"] =>
       /\ chan = 0 /\ inHand["main"] = 0 /\ inHand["copy"] = 0
       /\ gen = hookGen["main"]
       /\ hpc["main"] \notin {"taken", "stopSignal"}

RunInv == HookInv /\ GateInv /\ BytesInv /\ DoneInv /\ FailedInv /\ SignalInv

\* What the types say of the variables the invariant mentions.
LEMMA Shapes ==
  ASSUME TypeOK
  PROVE  /\ fd \in FirstDataFlags /\ ctx \in [reason : Reasons, bytes : Nat]
         /\ result \in [HookNames -> Results] /\ hpc \in [Procs -> HookPCs]
         /\ hname \in [Procs -> HookNames \cup {"none"}]
         /\ inHand \in [Procs -> Signals]
         /\ first \in Signals /\ chan \in Signals /\ sent \in Signals
         /\ hookFrom \in [Procs -> Signals] /\ hookGen \in [Procs -> Nat] /\ gen \in Nat
         /\ 0 \in Signals /\ Signals \subseteq Nat
         /\ out \in Seq(Int) /\ Len(out) \in Nat
         /\ nread \in Nat /\ chunk \in Nat /\ bytes \in Nat
         /\ rerr \in ReadErrors \cup CopyErrors /\ werr \in WriteErrors
         /\ copyErr \in CopyErrors /\ copyDone \in CopyErrors \cup {"empty"}
         /\ hookFailed \in BOOLEAN
         /\ Procs = {"main", "copy"}
         /\ HookNames = {"on-ready", "on-first-data", "on-shutdown"}
BY MaxSignalsAssumption, ProcsAssumption, HookNamesAssumption
   DEF TypeOK, SignalTypeOK, HookTypeOK, Signals

\* A step that changes no result changes no hook's failure.
LEMMA SameErrors ==
  ASSUME opts' = opts, result' = result
  PROVE  /\ HookError("on-ready")' <=> HookError("on-ready")
         /\ HookError("on-first-data")' <=> HookError("on-first-data")
         /\ HookError("on-shutdown")' <=> HookError("on-shutdown")
BY DEF HookError

\* A step that keeps the read's error keeps the copy's result.
LEMMA SameResult ==
  ASSUME rerr' = rerr PROVE CopyResult' = CopyResult
BY DEF CopyResult

USE DEF RunInv, HookInv, GateInv, BytesInv, DoneInv, FailedInv, SignalInv, Observing,
        CleanupInv, OutputInv, CopiedAll, NoMoreFirstData, UsesFirstData, Configured,
        InHook, copyVars, sharedVars, MainActs, CopyActs, Running, PollPoints,
        FirstDataFlags, ReadErrors, WriteErrors, CopyErrors

\* The ready hook is called.
LEMMA ReadyKeeps ==
  ASSUME TypeOK, CleanupInv, OutputInv, RunInv, Ready
  PROVE  RunInv'
<1>1. CASE UNCHANGED hookVars
  <2>1. pc = "start" /\ ~HookError("on-ready")
    BY DEF Ready, HookError
  <2> QED
    BY <1>1, <2>1, Shapes, SameErrors, SameResult, SMTT(30) DEF Ready, hookVars, signalVars
<1>2. CASE CallHook("main", "on-ready") /\ pc' = "readyDone"
  <2>1. /\ opts' = opts /\ hpc'["copy"] = hpc["copy"] /\ hname'["copy"] = hname["copy"]
        /\ result'["on-first-data"] = result["on-first-data"]
        /\ result'["on-shutdown"] = result["on-shutdown"]
        /\ hpc'["main"] # "idle" => hname'["main"] = "on-ready" /\ result' = result
    BY <1>2, Shapes, CallResults DEF Ready, TypeOK
  <2>2. HookError("on-first-data")' <=> HookError("on-first-data")
    BY <2>1 DEF HookError
  <2>3. /\ pc = "start" /\ pc' = "readyDone" /\ hpc["main"] = "idle" /\ hpc["copy"] = "idle"
        /\ UNCHANGED <<doneSignal, copyErr, hookFailed, kind, ctx, status, cpc, nread, chunk,
                       rerr, werr, out, bytes, copyDone, fd, chan, inHand, first, gen, sent>>
    BY <1>2 DEF Ready, signalVars
  <2>4. HookInv'
    <3>1. hpc'["copy"] = "idle" /\ result["on-ready"] = "none"
      BY <2>1, <2>3
    <3>2. \A g \in Procs : hpc'[g] # "idle" => result'[hname'[g]] = "none"
      BY <2>1, <3>1, Shapes
    <3> QED BY <2>1, <2>3, <3>1, <3>2
  <2>5. GateInv'
    BY <2>1, <2>2, <2>3, Shapes, SameResult, SMTT(30)
  <2>6. BytesInv'
    BY <2>1, <2>2, <2>3, Shapes, SameResult, SMTT(30)
  <2>7. DoneInv'
    BY <2>1, <2>2, <2>3, Shapes, SameResult, SMTT(30)
  <2>8. FailedInv'
    BY <2>1, <2>2, <2>3, Shapes, SameResult, SMTT(30)
  <2>9. SignalInv'
    BY <2>1, <2>2, <2>3, Shapes, SameResult, SMTT(30)
  <2> QED BY <2>4, <2>5, <2>6, <2>7, <2>8, <2>9
<1> QED BY <1>1, <1>2 DEF Ready

\* main takes a signal, and remembers it.
LEMMA SelectSignalKeeps ==
  ASSUME TypeOK, CleanupInv, OutputInv, RunInv, SelectSignal
  PROVE  RunInv'
<1>1. CASE pc = "select"
  BY <1>1, Shapes, SameErrors, SameResult, SMTT(30) DEF SelectSignal, Receive, hookVars
<1>2. CASE pc = "taken"
  BY <1>2, Shapes, SameErrors, SameResult, SMTT(30) DEF SelectSignal, Remember, hookVars
<1> QED BY <1>1, <1>2 DEF SelectSignal

\* The shutdown hook is called.
LEMMA FinishPollKeeps ==
  ASSUME TypeOK, CleanupInv, OutputInv, RunInv, FinishPoll
  PROVE  RunInv'
<1>0. /\ pc = "finishPoll" /\ pc' = "lastPoll" /\ hpc["main"] = "idle"
      /\ doneSignal' = PolledSignal /\ kind' = Classify(doneSignal', copyErr)
      /\ UNCHANGED <<copyErr, hookFailed, ctx, status, cpc, nread, chunk,
                     rerr, werr, out, bytes, copyDone, fd, chan, inHand, first, gen, sent>>
  BY DEF FinishPoll, signalVars
<1>1. CASE ~Configured("on-shutdown") /\ UNCHANGED hookVars
  BY <1>0, <1>1, Shapes, SameErrors, SameResult, SMTT(30) DEF PolledSignal, hookVars
<1>2. CASE CallHook("main", "on-shutdown")
  <2>1. /\ opts' = opts /\ hpc'["copy"] = hpc["copy"] /\ hname'["copy"] = hname["copy"]
        /\ result'["on-first-data"] = result["on-first-data"]
        /\ result'["on-ready"] = result["on-ready"]
        /\ \/ /\ hpc'["main"] = "poll" /\ hname'["main"] = "on-shutdown"
              /\ result' = result
           \/ hpc'["main"] = "idle" /\ result'["on-shutdown"] = "dry-run"
    <3>1. HookTypeOK /\ "main" \in Procs /\ "on-shutdown" \in HookNames
      BY Shapes DEF TypeOK
    <3>2. /\ opts' = opts /\ \A h \in Procs \ {"main"} : hpc'[h] = hpc[h] /\ hname'[h] = hname[h]
          /\ \A m \in HookNames \ {"on-shutdown"} : result'[m] = result[m]
          /\ \/ hpc'["main"] = "poll" /\ hname'["main"] = "on-shutdown" /\ result' = result
             \/ hpc' = hpc /\ hname' = hname /\ result'["on-shutdown"] = "dry-run"
      BY <1>2, <3>1, CallResults
    <3> QED BY <1>0, <3>2, Shapes
  <2>2. /\ HookError("on-first-data")' <=> HookError("on-first-data")
        /\ HookError("on-ready")' <=> HookError("on-ready")
    BY <2>1 DEF HookError
  <2>4. HookInv'
    <3>1. hpc'["copy"] = "idle" /\ result["on-shutdown"] = "none"
      BY <1>0, <2>1
    <3>2. \A g \in Procs : hpc'[g] # "idle" => result'[hname'[g]] = "none"
      BY <2>1, <3>1, Shapes
    <3> QED BY <1>0, <2>1, <3>1, <3>2
  <2>5. GateInv'
    BY <1>0, <2>1, <2>2, Shapes, SameResult, SMTT(30) DEF PolledSignal
  <2>6. BytesInv'
    BY <1>0, <2>1, <2>2, Shapes, SameResult, SMTT(30) DEF PolledSignal
  <2>7. DoneInv'
    BY <1>0, <2>1, <2>2, Shapes, SameResult, SMTT(30) DEF PolledSignal
  <2>8. FailedInv'
    BY <1>0, <2>1, <2>2, Shapes, SameResult, SMTT(30) DEF PolledSignal
  <2>9. SignalInv'
    BY <1>0, <2>1, <2>2, Shapes, SameResult, SMTT(30) DEF PolledSignal
  <2> QED BY <2>4, <2>5, <2>6, <2>7, <2>8, <2>9
<1> QED BY <1>1, <1>2 DEF FinishPoll

\* The main goroutine keeps it.
LEMMA MainKeeps ==
  ASSUME TypeOK, CleanupInv, OutputInv, RunInv, MainStep
  PROVE  RunInv'
<1>1. CASE Ready
  BY <1>1, ReadyKeeps
<1>2. CASE ReadyDone
  BY <1>2, Shapes, SameErrors, SameResult, SMTT(30) DEF ReadyDone, hookVars,
     signalVars
<1>3. CASE MainPoll
  BY <1>3, Shapes, SameErrors, SameResult, SMTT(30) DEF MainPoll, streamVars,
     mainVars, hookVars, PollStep, Receive, Remember
<1>4. CASE ReadyFailed
  BY <1>4, Shapes, SameErrors, SameResult, SMTT(30) DEF ReadyFailed, hookVars,
     signalVars
<1>5. CASE StartCopy
  BY <1>5, Shapes, SameErrors, SameResult, SMTT(30) DEF StartCopy, AfterPoll,
     hookVars, signalVars
<1>6. CASE WaitPoll
  BY <1>6, Shapes, SameErrors, SameResult, SMTT(30) DEF WaitPoll, AfterPoll,
     hookVars, signalVars
<1>7. CASE SelectSignal
  BY <1>7, SelectSignalKeeps
<1>8. CASE SelectCopy
  BY <1>8, Shapes, SameErrors, SameResult, SMTT(30) DEF SelectCopy, hookVars,
     signalVars
<1>9. CASE CopyPoll
  BY <1>9, Shapes, SameErrors, SameResult, SMTT(30) DEF CopyPoll, hookVars,
     signalVars
<1>10. CASE Snapshot
  BY <1>10, Shapes, SameErrors, SameResult, SMTT(30) DEF Snapshot, Reason,
     FirstDataExists, hookVars, signalVars
<1>11. CASE Cancel
  BY <1>11, Shapes, SameErrors, SameResult, SMTT(30) DEF Cancel, AfterCancel,
     hookVars, signalVars
<1>12. CASE AwaitFirstData
  BY <1>12, Shapes, SameErrors, SameResult, SMTT(30) DEF AwaitFirstData, hookVars,
     signalVars
<1>13. CASE Shutdown
  BY <1>13, Shapes, SameErrors, SameResult, SMTT(30) DEF Shutdown, hookVars,
     signalVars
<1>14. CASE FinishPoll
  BY <1>14, FinishPollKeeps
<1>15. CASE Finish
  BY <1>15, Shapes, SameErrors, SameResult, SMTT(30) DEF Finish, PolledSignal,
     hookVars, signalVars
<1> QED
  BY <1>1, <1>2, <1>3, <1>4, <1>5, <1>6, <1>7, <1>8, <1>9, <1>10, <1>11, <1>12,
     <1>13, <1>14, <1>15 DEF MainStep

\* The gate opens for the first data, or refuses it after the cancellation.
LEMMA CopyGateKeeps ==
  ASSUME TypeOK, CleanupInv, OutputInv, RunInv, CopyGate
  PROVE  RunInv'
<1>1. CASE fd.canceled
  BY <1>1, Shapes, SameErrors, SMTT(30) DEF CopyGate, mainVars, hookVars, signalVars
<1>2. CASE ~fd.canceled
  <2>1. CASE fd.done
    BY <1>2, <2>1, Shapes, SameErrors, SameResult, SMTT(30)
       DEF CopyGate, mainVars, hookVars, signalVars
  <2>2. CASE ~fd.done
    <3>a. fd' = [fd EXCEPT !.done = TRUE, !.running = TRUE]
      BY <1>2, <2>2 DEF CopyGate
    <3>b. /\ fd'.done /\ fd'.running /\ fd'.canceled = FALSE /\ fd'.failed = fd.failed
      BY <1>2, <3>a, Shapes
    <3>0. /\ cpc = "gate" /\ cpc' = "event" /\ hpc["copy"] = "idle"
          /\ fd'.done /\ fd'.running /\ fd'.canceled = FALSE /\ fd'.failed = fd.failed
          /\ UNCHANGED <<pc, doneSignal, copyErr, hookFailed, kind, ctx, status, nread,
                         chunk, rerr, werr, out, bytes, copyDone, opts, result, hpc, hname,
                         hookFrom, hookGen, chan, inHand, first, gen, sent>>
      BY <1>2, <2>2, <3>b DEF CopyGate, mainVars, hookVars, signalVars
    <3>1. HookInv'
      BY <1>2, <2>2, <3>0, Shapes, SameErrors, SameResult, SMTT(30)
    <3>2. GateInv'
      BY <1>2, <2>2, <3>0, Shapes, SameErrors, SameResult, SMTT(30)
    <3>3. BytesInv'
      BY <1>2, <2>2, <3>0, Shapes, SameErrors, SameResult, SMTT(30)
    <3>4. DoneInv'
      BY <1>2, <2>2, <3>0, Shapes, SameErrors, SameResult, SMTT(30)
    <3>5. FailedInv'
      BY <1>2, <2>2, <3>0, Shapes, SameErrors, SameResult, SMTT(30)
    <3>6. SignalInv'
      BY <1>2, <2>2, <3>0, Shapes, SameErrors, SameResult, SMTT(30)
    <3> QED BY <3>1, <3>2, <3>3, <3>4, <3>5, <3>6
  <2> QED BY <2>1, <2>2
<1> QED BY <1>1, <1>2

\* The first-data hook is called.
LEMMA FirstDataKeeps ==
  ASSUME TypeOK, CleanupInv, OutputInv, RunInv, FirstData
  PROVE  RunInv'
<1>0. /\ cpc = "event" /\ cpc' = "ungate" /\ hpc["copy"] = "idle"
      /\ UNCHANGED <<pc, doneSignal, copyErr, hookFailed, kind, ctx, status, nread, chunk,
                     rerr, werr, out, bytes, copyDone, fd, chan, inHand, first, gen, sent>>
  BY DEF FirstData, mainVars, signalVars
<1>1. CASE ~Configured("on-first-data") /\ UNCHANGED hookVars
  BY <1>0, <1>1, Shapes, SameErrors, SameResult, SMTT(30) DEF hookVars
<1>2. CASE CallHook("copy", "on-first-data")
  <2>1. /\ opts' = opts /\ hpc'["main"] = hpc["main"] /\ hname'["main"] = hname["main"]
        /\ hookFrom' = hookFrom /\ hookGen' = hookGen
        /\ result'["on-shutdown"] = result["on-shutdown"]
        /\ result'["on-ready"] = result["on-ready"]
        /\ \/ /\ hpc'["copy"] = "poll" /\ hname'["copy"] = "on-first-data"
              /\ result' = result
           \/ hpc'["copy"] = "idle" /\ result'["on-first-data"] = "dry-run"
    BY <1>0, <1>2, Shapes, CallResults DEF TypeOK
  <2>2. HookError("on-ready")' <=> HookError("on-ready")
    BY <2>1 DEF HookError
  <2> QED BY <1>0, <2>1, <2>2, Shapes, SameResult, SMTT(30)
<1> QED BY <1>1, <1>2 DEF FirstData

\* The copy goroutine keeps it.
LEMMA CopyKeeps ==
  ASSUME TypeOK, CleanupInv, OutputInv, RunInv, CopyRead \/ CopyWrite \/ CopyOwnStep
  PROVE  RunInv'
<1>1. CASE CopyRead
  BY <1>1, Shapes, SameErrors, SameResult, SMTT(30) DEF CopyRead, hookVars,
     signalVars, mainVars
<1>2. CASE CopyGate
  BY <1>2, CopyGateKeeps
<1>3. CASE FirstData
  BY <1>3, FirstDataKeeps
<1>4. CASE CopyUngate
  BY <1>4, Shapes, SameErrors, SameResult, SMTT(30) DEF CopyUngate, Finished,
     FirstBytes, hookVars, signalVars, mainVars
<1>5. CASE CopyWrite
  BY <1>5, Shapes, SameErrors, SameResult, SMTT(30) DEF CopyWrite, hookVars,
     signalVars, mainVars
<1>6. CASE CopyCount
  BY <1>6, Shapes, SameErrors, SameResult, SMTT(30) DEF CopyCount, Counted, GoesOn,
     hookVars, signalVars, mainVars
<1>7. CASE CopyFinish
  BY <1>7, Shapes, SameErrors, SameResult, SMTT(30) DEF CopyFinish, hookVars,
     signalVars, mainVars
<1> QED
  BY <1>1, <1>2, <1>3, <1>4, <1>5, <1>6, <1>7 DEF CopyOwnStep

\* A step inside an invocation changes the result of its own hook only: the
\* ready hook's while main waits for it, the shutdown hook's during cleanup,
\* the first-data hook's before the callback is over.
LEMMA ResultChanges ==
  ASSUME TypeOK, CleanupInv, RunInv, NEW g \in Procs, HookStep(g) \/ ProcExit(g)
  PROVE  /\ opts' = opts /\ hname' = hname
         /\ \A h \in Procs : hpc'[h] # "idle" => hpc[h] # "idle"
         /\ \A h \in Procs : hpc'[h] # "idle" => result'[hname[h]] = "none"
         /\ result'["on-ready"] # result["on-ready"] => pc = "readyDone"
         /\ result'["on-shutdown"] # result["on-shutdown"] =>
              pc = "lastPoll" /\ result'["on-shutdown"] # "none"
         /\ result'["on-first-data"] # result["on-first-data"] =>
              cpc = "ungate" /\ result'["on-first-data"] # "none"
         /\ hpc["main"] # "idle" /\ hpc'["main"] = "idle" /\ pc = "lastPoll" =>
              result'["on-shutdown"] # "none"
         /\ hpc["copy"] # "idle" /\ hpc'["copy"] = "idle" =>
              result'["on-first-data"] # "none"
<1>0. HookTypeOK
  BY DEF TypeOK
<1>1. /\ opts' = opts
      /\ \A h \in Procs : hpc'[h] # "idle" => hpc[h] # "idle"
  BY <1>0, HookStepsOutside
<1>2. /\ hname' = hname
      /\ \A h \in Procs \ {g} : hpc'[h] = hpc[h]
      /\ \A n \in HookNames : result'[n] # result[n] =>
            /\ n = hname[g] /\ result'[n] # "none"
            /\ hpc[g] # "idle" /\ hpc'[g] = "idle"
      /\ hpc[g] # "idle" /\ hpc'[g] = "idle" =>
            \A n \in HookNames : n = hname[g] => result'[n] # "none"
  BY <1>0, HookResults
<1>3. /\ hpc["main"] # "idle" => \/ pc = "readyDone" /\ hname["main"] = "on-ready"
                                 \/ pc = "lastPoll"  /\ hname["main"] = "on-shutdown"
      /\ hpc["copy"] # "idle" => hname["copy"] = "on-first-data" /\ cpc = "ungate"
      /\ \A h \in Procs : hpc[h] # "idle" => result[hname[h]] = "none"
  OBVIOUS
<1>4. ASSUME NEW h \in Procs, hpc'[h] # "idle"
      PROVE  result'[hname[h]] = "none"
  <2>1. hpc[h] # "idle" /\ hname[h] \in HookNames /\ result[hname[h]] = "none"
    BY <1>1, <1>3, <1>4, Shapes
  <2>2. CASE h = g
    BY <1>2, <1>4, <2>1, <2>2
  <2>3. CASE h = "main" /\ g = "copy"
    BY <1>2, <1>3, <2>1, <2>3
  <2>4. CASE h = "copy" /\ g = "main"
    BY <1>2, <1>3, <2>1, <2>4
  <2> QED BY <2>2, <2>3, <2>4, ProcsAssumption
<1>5. /\ result'["on-ready"] # result["on-ready"] => pc = "readyDone"
      /\ result'["on-shutdown"] # result["on-shutdown"] =>
           pc = "lastPoll" /\ result'["on-shutdown"] # "none"
      /\ result'["on-first-data"] # result["on-first-data"] =>
           cpc = "ungate" /\ result'["on-first-data"] # "none"
  <2>1. CASE g = "main"
    BY <1>2, <1>3, <2>1, HookNamesAssumption
  <2>2. CASE g = "copy"
    BY <1>2, <1>3, <2>2, HookNamesAssumption
  <2> QED BY <2>1, <2>2, ProcsAssumption
<1>6. /\ hpc["main"] # "idle" /\ hpc'["main"] = "idle" /\ pc = "lastPoll" =>
           result'["on-shutdown"] # "none"
      /\ hpc["copy"] # "idle" /\ hpc'["copy"] = "idle" =>
           result'["on-first-data"] # "none"
  <2>1. CASE g = "main"
    BY <1>2, <1>3, <2>1, HookNamesAssumption, ProcsAssumption
  <2>2. CASE g = "copy"
    BY <1>2, <1>3, <2>2, HookNamesAssumption, ProcsAssumption
  <2> QED BY <2>1, <2>2, ProcsAssumption
<1> HIDE DEF RunInv, HookInv, GateInv, BytesInv, DoneInv, FailedInv, SignalInv, CleanupInv
<1> QED BY <1>1, <1>2, <1>4, <1>5, <1>6

\* An invocation's own steps keep it.
LEMMA HooksKeep ==
  ASSUME TypeOK, CleanupInv, OutputInv, RunInv, NEW g \in Procs,
         HookSteps(g) \/ ProcExits(g)
  PROVE  RunInv'
<1>0. HookStep(g) \/ ProcExit(g)
  BY DEF HookSteps, ProcExits
<1>1. UNCHANGED <<pc, doneSignal, copyErr, hookFailed, kind, ctx, status, cpc, nread, chunk,
                  rerr, werr, out, bytes, copyDone, fd>>
  BY DEF HookSteps, ProcExits, streamVars, mainVars
<1>2. (first # 0 => first' = first) /\ first' \in Signals
  BY <1>0, FirstStays, HookStepSignals, HookTyping DEF TypeOK, SignalTypeOK
<1>3. CopyResult' = CopyResult
  BY <1>1, SameResult
<1>4. /\ result["on-ready"]' = result["on-ready"] =>
            (HookError("on-ready")' <=> HookError("on-ready"))
      /\ result["on-first-data"]' = result["on-first-data"] =>
            (HookError("on-first-data")' <=> HookError("on-first-data"))
  BY <1>0, ResultChanges DEF HookError
<1>5. HookInv'
  <2>1. \A h \in Procs : hpc'[h] # "idle" => result'[hname'[h]] = "none"
    BY <1>0, ResultChanges
  <2>2. /\ hpc'["main"] # "idle" => \/ pc' = "readyDone" /\ hname'["main"] = "on-ready"
                                    \/ pc' = "lastPoll"  /\ hname'["main"] = "on-shutdown"
        /\ hpc'["copy"] # "idle" => hname'["copy"] = "on-first-data"
    BY <1>0, <1>1, ResultChanges, Shapes
  <2>3. /\ pc' = "start" => result'["on-ready"] = "none"
        /\ result'["on-shutdown"] # "none" => pc' \in {"lastPoll", "returned"}
        /\ ~fd.done \/ cpc' = "event" => result'["on-first-data"] = "none"
    BY <1>0, <1>1, ResultChanges
  <2>4. pc' = "lastPoll" /\ Configured("on-shutdown")' /\ hpc'["main"] = "idle" =>
          result'["on-shutdown"] # "none"
    BY <1>0, <1>1, ResultChanges
  <2>5. /\ Configured("on-first-data")' /\ fd.done /\ cpc' # "event" /\ hpc'["copy"] = "idle"
        => result'["on-first-data"] # "none"
    BY <1>0, <1>1, ResultChanges
  <2> QED BY <1>1, <2>1, <2>2, <2>3, <2>4, <2>5
<1>6. GateInv'
  BY <1>0, <1>1, <1>4, ResultChanges, Shapes
<1>7. BytesInv'
  BY <1>1
<1>8. DoneInv'
  BY <1>1, <1>2, <1>3, Shapes
<1>9. FailedInv'
  BY <1>0, <1>1, <1>2, <1>4, ResultChanges, Shapes
<1>10. SignalInv'
  <2> USE DEF Return, hookVars
  <2>1. CASE HookPoll(g)
    BY <1>1, <2>1, Shapes, SMTT(30) DEF HookPoll, PollStep, Receive, Remember
  <2>2. CASE HookStart(g)
    BY <1>1, <2>2, Shapes, SMTT(30) DEF HookStart, Drained, signalVars
  <2>3. CASE HookStartFails(g)
    BY <1>1, <2>3, Shapes, SMTT(30) DEF HookStartFails, Drained, signalVars
  <2>4. CASE HookWait(g)
    BY <1>1, <2>4, Shapes, SMTT(30) DEF HookWait, signalVars
  <2>5. CASE HookSignal(g)
    BY <1>1, <2>5, Shapes, SMTT(30) DEF HookSignal, Receive, Remember
  <2>6. CASE HookNotified(g)
    BY <1>1, <2>6, Shapes, SMTT(30) DEF HookNotified, GenerationChanged, signalVars
  <2>7. CASE HookTimer(g)
    BY <1>1, <2>7, Shapes, SMTT(30) DEF HookTimer, signalVars
  <2>8. CASE HookTimerDecide(g)
    BY <1>1, <2>8, Shapes, SMTT(30) DEF HookTimerDecide, Drained, GenerationChanged,
       signalVars
  <2>9. CASE HookStop(g)
    BY <1>1, <2>9, Shapes, SMTT(30) DEF HookStop, signalVars
  <2>10. CASE HookStopFails(g)
    BY <1>1, <2>10, Shapes, SMTT(30) DEF HookStopFails, signalVars
  <2>11. CASE ProcExit(g)
    BY <1>1, <2>11, Shapes, SMTT(30) DEF ProcExit, signalVars
  <2> QED
    BY <1>0, <2>1, <2>2, <2>3, <2>4, <2>5, <2>6, <2>7, <2>8, <2>9, <2>10, <2>11 DEF HookStep
<1> QED BY <1>5, <1>6, <1>7, <1>8, <1>9, <1>10

\* A signal that arrives, and a step that changes nothing, keep it.
LEMMA SignalsKeep ==
  ASSUME TypeOK, CleanupInv, OutputInv, RunInv, SignalArrives \/ UNCHANGED vars
  PROVE  RunInv'
<1>1. CASE SignalArrives
  BY <1>1, Shapes, SameErrors, SameResult, SMTT(30)
     DEF SignalArrives, Deliver, streamVars, mainVars, hookVars
<1>2. CASE UNCHANGED vars
  BY <1>2, Shapes, SameErrors, SameResult, SMTT(30)
     DEF vars, streamVars, mainVars, hookVars, signalVars
<1> QED BY <1>1, <1>2

\* A run starts in it.
LEMMA InitRun ==
  ASSUME Init PROVE RunInv
<1>1. TypeOK
  BY InitTyping
<1>2. ~HookError("on-ready") /\ ~HookError("on-first-data")
  BY Shapes, <1>1 DEF Init, HookInit, HookError
<1> QED BY <1>1, <1>2, Shapes DEF Init, HookInit, SignalInit

\* The rest of this module cites the invariant's parts by name.
HIDE DEF RunInv, HookInv, GateInv, BytesInv, DoneInv, FailedInv, SignalInv, Observing,
         CleanupInv, OutputInv, CopiedAll, NoMoreFirstData, UsesFirstData, Configured,
         InHook, copyVars, sharedVars, MainActs, CopyActs, Running, PollPoints,
         FirstDataFlags, ReadErrors, WriteErrors, CopyErrors

\* The invariant about the result of a run holds in every reachable state.
LEMMA RunInvariant == Spec => []RunInv
<1>1. TypeOK /\ CleanupInv /\ OutputInv /\ RunInv /\ [Next]_vars => RunInv'
  BY MainKeeps, CopyKeeps, HooksKeep, SignalsKeep DEF Next, Returned
<1> QED
  BY <1>1, InitRun, TypeCorrect, CleanupInvariant, OutputInvariant, PTL DEF Spec

\* No byte reaches stdout before the first-data hook returned, and a failed hook
\* that no cancellation overtook ends the copy with its first read forwarded,
\* for every split of the input into reads.
THEOREM GateHolds == Spec => []FirstDataGate
<1>1. TypeOK /\ CleanupInv /\ RunInv => FirstDataGate
  <2> SUFFICES ASSUME TypeOK, CleanupInv, RunInv PROVE FirstDataGate
    OBVIOUS
  <2>1. out # <<>> /\ UsesFirstData => fd.done /\ ~fd.running
    BY DEF RunInv, GateInv
  <2>2. out # <<>> /\ Configured("on-first-data") => result["on-first-data"] # "none"
    BY <2>1 DEF RunInv, HookInv, CleanupInv, UsesFirstData, InHook
  <2>3. /\ cpc = "done" /\ Configured("on-first-data") /\ HookError("on-first-data")
        /\ ~fd.canceled /\ werr = "none"
        => Len(out) = nread /\ nread <= MaxChunk
    BY DEF RunInv, HookInv, GateInv, CleanupInv, HookError
  <2> QED BY <2>1, <2>2, <2>3 DEF FirstDataGate
<1> QED BY <1>1, TypeCorrect, CleanupInvariant, RunInvariant, PTL

\* The frozen shutdown context counts every byte that reached stdout when the
\* copy ended by itself, and never one that did not reach it.
THEOREM BytesAreCounted == Spec => []ShutdownBytes
<1>1. RunInv => ShutdownBytes
  BY DEF RunInv, BytesInv, ShutdownBytes
<1> QED BY <1>1, RunInvariant, PTL

\* Every step keeps it: the hook's own stop comes after a newer signal, and the
\* mark of the observation does not move once the hook has a result.
LEMMA InterruptionKept ==
  ASSUME TypeOK, CleanupInv, RunInv, CleanupInterruptedByNewSignal, [Next]_vars
  PROVE  CleanupInterruptedByNewSignal'
<1> USE DEF CleanupInterruptedByNewSignal
<1>1. ASSUME NEW g \in Procs, HookStep(g) \/ ProcExit(g)
      PROVE  CleanupInterruptedByNewSignal'
  <2> SUFFICES ASSUME result'["on-shutdown"] = "signal"
               PROVE  sent' > hookFrom'["main"]
    OBVIOUS
  <2>1. sent' \in Nat /\ sent \in Nat /\ sent' >= sent
    <3>1. [ (\E h \in Procs : PollStep(h)) \/ Deliver ]_signalVars
      BY <1>1, HookStepSignals
    <3>2. sent' = sent \/ sent' = sent + 1
      BY <3>1 DEF PollStep, Receive, Remember, Deliver, signalVars
    <3> QED BY <3>2, Shapes
  <2>2. CASE result["on-shutdown"] = "signal"
    <3>1. hpc["main"] # "poll"
      BY <2>2, Shapes DEF RunInv, HookInv, InHook
    <3>2. hookFrom'["main"] = hookFrom["main"]
      BY <1>1, <3>1, Shapes DEF HookStep, HookPoll, HookStart, HookStartFails, HookWait,
         HookSignal, HookNotified, HookTimer, HookTimerDecide, HookStop, HookStopFails,
         ProcExit, Return, hookVars
    <3> QED BY <2>1, <2>2, <3>2, Shapes
  <2>3. CASE result["on-shutdown"] # "signal"
    <3>1. hpc[g] = "stopSignal" /\ hname[g] = "on-shutdown" /\ hookFrom' = hookFrom
      BY <1>1, <2>3, HookInterruption, Shapes DEF TypeOK
    <3>2. g = "main" /\ pc = "lastPoll"
      BY <3>1, Shapes DEF RunInv, HookInv, InHook
    <3>3. sent > hookFrom["main"]
      BY <3>1, <3>2, Shapes DEF RunInv, SignalInv, Observing
    <3> QED BY <2>1, <3>1, <3>3, Shapes
  <2> QED BY <2>2, <2>3
<1>2. CASE /\ hookFrom' = hookFrom /\ sent' = sent
           /\ result'["on-shutdown"] = "signal" => result["on-shutdown"] = "signal"
  BY <1>2
<1>3. ASSUME NEW g \in Procs, NEW n \in HookNames, CallHook(g, n), sent' = sent
      PROVE  CleanupInterruptedByNewSignal'
  BY <1>3, Shapes DEF CallHook
<1>4. CASE MainStep
  <2> USE <1>2, <1>3, Shapes DEF hookVars, signalVars
  <2>1. CASE Ready
    BY <2>1 DEF Ready
  <2>2. CASE FinishPoll
    BY <2>2 DEF FinishPoll
  <2>3. CASE ReadyDone \/ MainPoll \/ ReadyFailed \/ StartCopy \/ WaitPoll \/ SelectSignal
    BY <2>3 DEF ReadyDone, MainPoll, PollStep, Receive, Remember, ReadyFailed, StartCopy,
       WaitPoll, SelectSignal
  <2>4. CASE SelectCopy \/ CopyPoll \/ Snapshot \/ Cancel \/ AwaitFirstData \/ Shutdown \/ Finish
    BY <2>4 DEF SelectCopy, CopyPoll, Snapshot, Cancel, AwaitFirstData, Shutdown, Finish
  <2> QED BY <1>4, <2>1, <2>2, <2>3, <2>4 DEF MainStep
<1>5. CASE CopyRead \/ CopyWrite \/ CopyOwnStep
  <2> USE <1>2, <1>3, Shapes DEF hookVars, signalVars
  <2>1. CASE FirstData
    BY <2>1 DEF FirstData
  <2>2. CASE CopyRead \/ CopyWrite \/ CopyGate \/ CopyUngate \/ CopyCount \/ CopyFinish
    BY <2>2 DEF CopyRead, CopyWrite, CopyGate, CopyUngate, CopyCount, CopyFinish
  <2> QED BY <1>5, <2>1, <2>2 DEF CopyOwnStep
<1>6. CASE SignalArrives
  BY <1>6, Shapes DEF SignalArrives, Deliver, hookVars
<1>7. CASE UNCHANGED vars
  BY <1>7 DEF vars, hookVars, signalVars
<1> QED BY <1>1, <1>4, <1>5, <1>6, <1>7 DEF Next, Returned, HookSteps, ProcExits
\* The shutdown hook is interrupted only by a signal that arrived after it began
\* to observe.
THEOREM OnlyNewSignalsInterrupt == Spec => []CleanupInterruptedByNewSignal
<1>1. Init => CleanupInterruptedByNewSignal
  BY HookNamesAssumption DEF Init, HookInit, CleanupInterruptedByNewSignal
<1> QED
  BY <1>1, InterruptionKept, TypeCorrect, CleanupInvariant, RunInvariant, PTL DEF Spec

\* Before the run returns its status is open, and what it returns agrees with
\* the exit status table.
LEMMA StatusOfReadyFailed ==
  ASSUME TypeOK, CleanupInv, OutputInv, RunInv, ReadyFailed
  PROVE  ExitStatusTable'
<1>1. /\ pc = "readyFailed" /\ UNCHANGED <<first, opts, result, cpc, rerr>>
      /\ status' = IF first # 0 THEN "running" ELSE "failed"
  BY DEF ReadyFailed, copyVars, hookVars, signalVars
<1>2. HookError("on-ready") /\ result["on-shutdown"] = "none"
  BY <1>1 DEF RunInv, FailedInv, HookInv
<1>3. HookError("on-ready")' /\ "on-ready" \in HookNames
  BY <1>1, <1>2, HookNamesAssumption DEF HookError
<1> QED BY <1>1, <1>2, <1>3 DEF ExitStatusTable, Running

\* The exit status after cleanup.
LEMMA StatusOfFinish ==
  ASSUME TypeOK, CleanupInv, OutputInv, RunInv, Finish
  PROVE  ExitStatusTable'
<1>1. /\ pc = "lastPoll" /\ ~InHook("main")
      /\ UNCHANGED <<first, opts, result, cpc, rerr>>
      /\ doneSignal' = PolledSignal
      /\ status' = IF doneSignal' # 0 THEN "signal"
                   ELSE IF HookError("on-shutdown") \/ kind = "copy-error" \/ hookFailed
                        THEN "failed" ELSE "ok"
  BY DEF Finish, MainActs, copyVars, hookVars, signalVars
<1>2. first # 0 <=> doneSignal' # 0
  BY <1>1, Shapes DEF PolledSignal, RunInv, DoneInv
<1>3. /\ Configured("on-shutdown") => result["on-shutdown"] # "none"
      /\ first = 0 => ~HookError("on-ready")
  BY <1>1 DEF RunInv, HookInv, FailedInv
<1>4. CASE first # 0
  BY <1>1, <1>2, <1>3, <1>4 DEF ExitStatusTable, Configured
<1>5. CASE first = 0
  <2>1. cpc = "done" /\ copyErr = CopyResult /\ kind = Classify(0, copyErr)
        /\ rerr # "canceled" /\ rerr # "none"
    BY <1>1, <1>5 DEF RunInv, DoneInv, OutputInv
  <2>2. hookFailed <=> HookError("on-first-data")
    BY <1>1, <2>1 DEF RunInv, FailedInv, CleanupInv
  <2>3. rerr \in {"hook", "hook+io"} => HookError("on-first-data")
    BY DEF RunInv, FailedInv
  <2>4. kind = "copy-error" <=> rerr \in {"io", "hook", "hook+io"}
    BY <2>1, Shapes DEF Classify, CopyResult, ReadErrors, CopyErrors
  <2>5. /\ HookError("on-ready")' <=> HookError("on-ready")
        /\ HookError("on-first-data")' <=> HookError("on-first-data")
        /\ HookError("on-shutdown")' <=> HookError("on-shutdown")
    BY <1>1, SameErrors
  <2>6. (\E n \in HookNames : HookError(n))' <=>
          HookError("on-first-data") \/ HookError("on-shutdown")
    BY <1>3, <1>5, <2>5, HookNamesAssumption
  <2>7. /\ first' = 0 /\ cpc' = "done" /\ rerr' = rerr /\ opts' = opts /\ result' = result
        /\ status' = IF HookError("on-shutdown") \/ kind = "copy-error" \/ hookFailed
                     THEN "failed" ELSE "ok"
    BY <1>1, <1>2, <1>5, <2>1
  <2>8. status' = IF \/ (\E n \in HookNames : HookError(n))'
                     \/ cpc' = "done" /\ rerr' \in {"io", "hook+io"}
                  THEN "failed" ELSE "ok"
    BY <2>2, <2>3, <2>4, <2>6, <2>7
  <2>9. Configured("on-shutdown")' =>
          (result'["on-shutdown"] = "none" <=> HookError("on-ready")' /\ first' = 0)
    BY <1>3, <1>5, <2>5, <2>7 DEF Configured
  <2> QED BY <2>7, <2>8, <2>9 DEF ExitStatusTable
<1> QED BY <1>4, <1>5

\* A run returns the status of the README's table, whatever signals, hook
\* failures and copy errors met on the way.
THEOREM StatusIsTheTables == Spec => []ExitStatusTable
<1>1. Init => ExitStatusTable
  BY DEF Init, ExitStatusTable, Running
<1>2. ASSUME TypeOK, CleanupInv, OutputInv, RunInv, ExitStatusTable, [Next]_vars
      PROVE  ExitStatusTable'
  <2>1. CASE ReadyFailed
    BY <1>2, <2>1, StatusOfReadyFailed
  <2>2. CASE Finish
    BY <1>2, <2>2, StatusOfFinish
  <2>3. CASE UNCHANGED vars
    BY <1>2, <2>3 DEF vars, streamVars, mainVars, copyVars, hookVars, signalVars,
       ExitStatusTable, Running, HookError, Configured
  <2>4. CASE status' = status /\ status = "running"
    BY <2>4 DEF ExitStatusTable, Running
  <2>5. [Next]_vars /\ ~ReadyFailed /\ ~Finish =>
          UNCHANGED vars \/ (status' = status /\ status = "running")
    BY DEF Next, Returned, MainStep, CopyOwnStep, HookSteps, ProcExits, SignalArrives,
       Ready, ReadyDone, MainPoll, StartCopy, WaitPoll, SelectSignal, SelectCopy, CopyPoll,
       Snapshot, Cancel, AwaitFirstData, Shutdown, FinishPoll, CopyRead, CopyGate,
       FirstData, CopyUngate, CopyWrite, CopyCount, CopyFinish, MainActs, CopyActs,
       Running, streamVars, mainVars
  <2> QED BY <1>2, <2>1, <2>2, <2>3, <2>4, <2>5
<1> QED
  BY <1>1, <1>2, TypeCorrect, CleanupInvariant, OutputInvariant, RunInvariant, PTL DEF Spec
-----------------------------------------------------------------------------
(* The recorded events follow the published lifecycle.  An observed run    *)
(* has recorded something exactly once it is past the ready event; the     *)
(* shutdown event comes with cleanup, the first-data event with the first  *)
(* data, and nothing but the ready event comes before it.                  *)

LifeInv ==
  /\ ~opts.observe => emitted = <<>>
  /\ opts.observe => (emitted = <<>> <=> pc = "start")
  /\ LastEvent = "shutdown" => pc \in {"finishPoll", "lastPoll", "returned"}
  /\ LastEvent = "first-data" => fd.done
  /\ opts.observe /\ cpc = "event" => LastEvent = "ready"

\* Recording an event makes it the last one.
LEMMA AppendLast ==
  ASSUME NEW e \in Events, emitted \in Seq(Events), emitted' = Append(emitted, e)
  PROVE  emitted' # <<>> /\ LastEvent' = e /\ LifecycleState' = StateAfter(e)
<1>1. Len(emitted') \in Nat /\ Len(emitted') > 0 /\ emitted'[Len(emitted')] = e
  OBVIOUS
<1>2. emitted' # <<>>
  BY <1>1
<1>3. LastEvent' = e
  BY <1>1, <1>2 DEF LastEvent
<1> QED BY <1>2, <1>3 DEF LifecycleState, StateAfter

\* The last event is one of the lifecycle's.
LEMMA LastEventTyping ==
  ASSUME emitted \in Seq(Events)
  PROVE  /\ emitted = <<>> <=> LastEvent = "none"
         /\ LastEvent \in Events \cup {"none"}
         /\ LifecycleState = IF LastEvent = "none" THEN "start" ELSE StateAfter(LastEvent)
<1>1. CASE emitted = <<>>
  BY <1>1 DEF LastEvent, LifecycleState, Events
<1>2. CASE emitted # <<>>
  BY <1>2 DEF LastEvent, LifecycleState, Events
<1> QED BY <1>1, <1>2

\* A step that records nothing stays where it is in the lifecycle.
LEMMA SameEvents ==
  ASSUME emitted' = emitted
  PROVE  LastEvent' = LastEvent /\ LifecycleState' = LifecycleState
<1>1. LastEvent' = LastEvent
  BY DEF LastEvent
<1> QED BY <1>1 DEF LifecycleState, StateAfter

\* Only three steps record an event.
LEMMA RecordingSteps ==
  ASSUME TypeOK, [Next]_vars
  PROVE  /\ opts' = opts
         /\ Ready \/ Shutdown \/ FirstData \/ emitted' = emitted
<1>1. CASE MainStep
  BY <1>1 DEF MainStep, Ready, ReadyDone, MainPoll, ReadyFailed, StartCopy, WaitPoll,
     SelectSignal, SelectCopy, CopyPoll, Snapshot, Cancel, AwaitFirstData, Shutdown,
     FinishPoll, Finish, CallHook, hookVars, sharedVars, streamVars
<1>2. CASE CopyRead \/ CopyWrite \/ CopyOwnStep
  BY <1>2 DEF CopyRead, CopyGate, FirstData, CopyUngate, CopyWrite, CopyCount, CopyFinish,
     CopyOwnStep, CallHook, hookVars, sharedVars
<1>3. CASE \/ \E g \in Procs : HookSteps(g) \/ ProcExits(g)
           \/ SignalArrives
           \/ UNCHANGED vars
  BY <1>3, OtherStepsOutside DEF streamVars, sharedVars
<1> QED BY <1>1, <1>2, <1>3 DEF Next, Returned

USE DEF Published!Next, Published!Take, Published!Transitions, Published!lifecycleVars,
        Published!InitialTransition

\* The ready event opens the lifecycle.
LEMMA ReadyLives ==
  ASSUME TypeOK, CleanupInv, RunInv, LifeInv, Ready
  PROVE  [Published!Next]_(Published!lifecycleVars) /\ LifeInv'
<1>0. /\ pc = "start" /\ pc' # "start" /\ cpc = "off" /\ cpc' = cpc /\ fd' = fd
      /\ emitted \in Seq(Events) /\ "ready" \in Events /\ opts' = opts
  BY RecordingSteps DEF Ready, CleanupInv, TypeOK, Events, copyVars, Next, MainStep
<1>1. CASE ~opts.observe
  <2>1. emitted' = emitted /\ emitted = <<>>
    BY <1>1 DEF Ready, Emit, LifeInv
  <2>2. LastEvent = "none"
    BY <2>1 DEF LastEvent
  <2> QED BY <1>0, <1>1, <2>1, <2>2, SameEvents DEF LifeInv
<1>2. CASE opts.observe
  <2>1. emitted' = Append(emitted, "ready") /\ emitted = <<>>
    BY <1>0, <1>2 DEF Ready, Emit, LifeInv
  <2>2. emitted' # <<>> /\ LastEvent' = "ready" /\ LifecycleState' = StateAfter("ready")
    BY <1>0, <2>1, AppendLast
  <2>3. LifecycleState = "start" /\ LifecycleState' = "ready"
    BY <2>1, <2>2 DEF LifecycleState, StateAfter
  <2>4. Published!Next
    BY <2>2, <2>3
  <2>5. LifeInv'
    BY <1>0, <1>2, <2>2 DEF LifeInv
  <2> QED BY <2>4, <2>5
<1> QED BY <1>1, <1>2

\* The first-data event follows the ready event.
LEMMA FirstDataLives ==
  ASSUME TypeOK, CleanupInv, RunInv, LifeInv, FirstData
  PROVE  [Published!Next]_(Published!lifecycleVars) /\ LifeInv'
<1>0. /\ cpc = "event" /\ cpc' # "event" /\ pc' = pc /\ fd' = fd /\ fd.done
      /\ pc \notin {"start", "returned"}
      /\ emitted \in Seq(Events) /\ "first-data" \in Events /\ opts' = opts
  BY RecordingSteps
     DEF FirstData, CleanupInv, TypeOK, Events, mainVars, Next, CopyOwnStep, RunInv,
         DoneInv, CopyActs, Running
<1>1. CASE ~opts.observe
  <2>1. emitted' = emitted /\ emitted = <<>>
    BY <1>1 DEF FirstData, Emit, LifeInv
  <2>2. LastEvent = "none"
    BY <2>1 DEF LastEvent
  <2> QED BY <1>0, <1>1, <2>1, <2>2, SameEvents DEF LifeInv
<1>2. CASE opts.observe
  <2>1. emitted' = Append(emitted, "first-data") /\ LastEvent = "ready"
    BY <1>0, <1>2 DEF FirstData, Emit, LifeInv
  <2>2. /\ emitted' # <<>> /\ LastEvent' = "first-data"
        /\ LifecycleState' = StateAfter("first-data")
    BY <1>0, <2>1, AppendLast
  <2>3. LifecycleState = StateAfter("ready")
    BY <1>0, <2>1, LastEventTyping
  <2>4. LifecycleState = "ready" /\ LifecycleState' = "active"
    BY <2>2, <2>3 DEF StateAfter
  <2>5. Published!Next
    BY <2>2, <2>4
  <2>6. LifeInv'
    BY <1>0, <1>2, <2>2 DEF LifeInv
  <2> QED BY <2>5, <2>6
<1> QED BY <1>1, <1>2

\* The shutdown event follows the ready or the first-data event.
LEMMA ShutdownLives ==
  ASSUME TypeOK, CleanupInv, RunInv, LifeInv, Shutdown
  PROVE  [Published!Next]_(Published!lifecycleVars) /\ LifeInv'
<1>0. /\ pc = "shutdown" /\ pc' = "finishPoll" /\ cpc' = cpc /\ fd' = fd
      /\ emitted \in Seq(Events) /\ "shutdown" \in Events /\ opts' = opts
      /\ opts.observe => cpc # "event"
  BY RecordingSteps
     DEF Shutdown, CleanupInv, NoMoreFirstData, UsesFirstData, TypeOK, Events, copyVars,
         Next, MainStep
<1>1. CASE ~opts.observe
  <2>1. emitted' = emitted /\ emitted = <<>>
    BY <1>1 DEF Shutdown, Emit, LifeInv
  <2>2. LastEvent = "none"
    BY <2>1 DEF LastEvent
  <2> QED BY <1>0, <1>1, <2>1, <2>2, SameEvents DEF LifeInv
<1>2. CASE opts.observe
  <2>1. /\ emitted' = Append(emitted, "shutdown")
        /\ emitted # <<>> /\ LastEvent # "shutdown"
    BY <1>0, <1>2 DEF Shutdown, Emit, LifeInv
  <2>2. emitted' # <<>> /\ LastEvent' = "shutdown" /\ LifecycleState' = StateAfter("shutdown")
    BY <1>0, <2>1, AppendLast
  <2>3. LastEvent \in {"ready", "first-data"} /\ LifecycleState = StateAfter(LastEvent)
    BY <1>0, <2>1, LastEventTyping DEF Events
  <2>4. LifecycleState \in {"ready", "active"} /\ LifecycleState' = "shutdown"
    BY <2>2, <2>3 DEF StateAfter
  <2>5. Published!Next
    BY <2>2, <2>4
  <2>6. LifeInv'
    BY <1>0, <1>2, <2>2 DEF LifeInv
  <2> QED BY <2>5, <2>6
<1> QED BY <1>1, <1>2

\* Every other step records nothing, and keeps its place in the lifecycle.
LEMMA OthersLive ==
  ASSUME TypeOK, CleanupInv, RunInv, LifeInv, [Next]_vars, emitted' = emitted,
         ~Ready, ~Shutdown, ~FirstData
  PROVE  LifeInv'
<1>T. /\ LastEvent' = LastEvent /\ opts' = opts /\ fd \in FirstDataFlags
      /\ emitted = <<>> <=> LastEvent = "none"
      /\ LastEvent \in {"ready", "first-data", "shutdown", "none"}
  BY SameEvents, RecordingSteps, LastEventTyping DEF TypeOK, Events
<1>1. CASE CopyGate
  <2>1. /\ pc' = pc /\ cpc = "gate" /\ pc \notin {"start", "returned"}
        /\ UNCHANGED fd \/ fd'.done
        /\ cpc' = "event" => ~fd.done /\ ~fd.canceled
    BY <1>T, <1>1
       DEF CopyGate, mainVars, CleanupInv, RunInv, DoneInv, CopyActs, Running,
           FirstDataFlags
  <2>2. opts.observe => UsesFirstData
    BY DEF UsesFirstData
  <2>3. cpc' = "event" /\ opts.observe => pc \notin {"finishPoll", "lastPoll"}
    BY <2>1, <2>2 DEF CleanupInv, NoMoreFirstData
  <2> QED BY <1>T, <2>1, <2>3 DEF LifeInv
<1>2. CASE /\ UNCHANGED <<pc, fd>> \/ (fd'.done = fd.done /\ pc # "start" /\ pc' # "start")
           /\ pc \in {"finishPoll", "lastPoll", "returned"} =>
                pc' \in {"finishPoll", "lastPoll", "returned"}
           /\ cpc' = "event" => cpc = "event"
  BY <1>T, <1>2 DEF LifeInv
<1>3. CASE MainStep
  <2> USE <1>2, <1>T DEF copyVars, sharedVars, PollPoints
  <2>1. CASE ReadyDone \/ MainPoll \/ ReadyFailed \/ WaitPoll
    BY <2>1 DEF ReadyDone, MainPoll, ReadyFailed, WaitPoll, AfterPoll, streamVars, mainVars
  <2>2. CASE StartCopy
    BY <2>2 DEF StartCopy, AfterPoll
  <2>3. CASE SelectSignal \/ SelectCopy \/ CopyPoll \/ Snapshot
    BY <2>3 DEF SelectSignal, SelectCopy, CopyPoll, Snapshot
  <2>4. CASE Cancel
    BY <2>4 DEF Cancel, AfterCancel, FirstDataFlags
  <2>5. CASE AwaitFirstData \/ FinishPoll \/ Finish
    BY <2>5 DEF AwaitFirstData, FinishPoll, Finish
  <2> QED BY <1>3, <2>1, <2>2, <2>3, <2>4, <2>5 DEF MainStep
<1>4. CASE CopyRead \/ CopyWrite \/ CopyOwnStep
  <2> USE <1>2, <1>T DEF mainVars, sharedVars
  <2>1. CASE CopyUngate
    <3>1. fd'.done = fd.done
      BY <2>1 DEF CopyUngate, Finished, FirstDataFlags
    <3>2. pc # "start"
      BY <2>1 DEF CopyUngate, CleanupInv
    <3> QED BY <2>1, <3>1, <3>2 DEF CopyUngate
  <2>2. CASE CopyRead \/ CopyWrite \/ CopyCount \/ CopyFinish
    BY <2>2 DEF CopyRead, CopyWrite, CopyCount, CopyFinish
  <2> QED BY <1>1, <1>4, <2>1, <2>2 DEF CopyOwnStep
<1>5. CASE \/ \E g \in Procs : HookSteps(g) \/ ProcExits(g)
           \/ SignalArrives
           \/ UNCHANGED vars
  BY <1>2, <1>5, OtherStepsOutside DEF streamVars, mainVars, copyVars, sharedVars
<1> QED BY <1>3, <1>4, <1>5 DEF Next, Returned

\* What the lifecycle's place says of the run holds in every reachable state.
LEMMA LifeInvariant == Spec => []LifeInv
<1>1. Init => LifeInv
  BY DEF Init, LifeInv, LastEvent
<1>2. TypeOK /\ CleanupInv /\ RunInv /\ LifeInv /\ [Next]_vars => LifeInv'
  BY RecordingSteps, ReadyLives, FirstDataLives, ShutdownLives, OthersLive
<1> QED BY <1>1, <1>2, TypeCorrect, CleanupInvariant, RunInvariant, PTL DEF Spec

\* The events a run records are a path of the lifecycle that --describe
\* publishes: every step takes one of its transitions or none.
THEOREM LifecycleImplemented == Spec => ImplementsLifecycle
<1>1. Init => Published!Init
  BY DEF Init, Published!Init, LastEvent, LifecycleState
<1>2. TypeOK /\ CleanupInv /\ RunInv /\ LifeInv /\ [Next]_vars
        => [Published!Next]_(Published!lifecycleVars)
  <2> SUFFICES ASSUME TypeOK, CleanupInv, RunInv, LifeInv, [Next]_vars
               PROVE  [Published!Next]_(Published!lifecycleVars)
    OBVIOUS
  <2>1. CASE emitted' = emitted
    BY <2>1, SameEvents
  <2> QED BY <2>1, RecordingSteps, ReadyLives, FirstDataLives, ShutdownLives
<1> HIDE DEF Published!Next, Published!lifecycleVars
<1> QED
  BY <1>1, <1>2, TypeCorrect, CleanupInvariant, RunInvariant, LifeInvariant, PTL
     DEF Spec, ImplementsLifecycle, Published!Spec
=============================================================================

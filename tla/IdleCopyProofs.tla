--------------------------- MODULE IdleCopyProofs ---------------------------
(***************************************************************************)
(* Theorems about IdleCopy, for any number of bytes, of signals and any    *)
(* set of command lines.                                                   *)
(***************************************************************************)
EXTENDS IdleCopy, HookRunnerProofs, TLAPS

-----------------------------------------------------------------------------
(* The inductive invariant.                                                *)

Handling == {"eventPoll", "prePoll", "ran", "postPoll", "handled"}
Returned == {"returned", "shutdown", "ended"}

\* Where a chunk is, as the goroutine of Observe sees it: its reader has it or
\* fills the buffer, it is on its way to the pump, or nothing follows.  In
\* between, at "result", it is with the pump.
InCall  == obs.pc \in {"offer", "await"}
Waiting == obs.pc = "wait" \/ (InCall /\ obs.next = "wait")
Writing == obs.pc \in {"write", "request"} \/ (InCall /\ obs.next = "write")
Over    == obs.pc \in {"end", "return", "done"} \/ (InCall /\ obs.next = "return")

\* The coordinator: while it handles an event the callback waits for it, and
\* it returns by itself only after Observe did.
CoordInv ==
  /\ stop <=> pc \in Returned
  /\ pc = "start" => obs.pc = "off"
  /\ pc \in Handling => obs.pc = "await"
  /\ pc \in {"prePoll", "ran"} => obs.event # "eos"
  /\ pc = "copyPoll" => copyDone # "empty"
  /\ copyDone # "empty" => obs.pc = "done" /\ copyDone = obs.err
  /\ ctx.reason # "unset" => pc \in {"shutdown", "ended"} /\ ctx.reason = Reason
  /\ pc \in Returned /\ done.signal = 0 =>
       /\ obs.pc = "done" /\ ~PumpHoldsBuffer
       /\ done.copyErr = IF obs.err = "stopped" THEN "none" ELSE obs.err
       /\ obs.err = "stopped" => done.firstFailed /\ Len(out) = nread

\* One chunk is in flight: the reader is off while Observe has it, the pump
\* has it only while Observe awaits its result, or gave up doing so.
PhaseInv ==
  /\ InCall => obs.next = CASE obs.event = "idle" -> "wait"
                            [] obs.event = "eos"  -> "return"
                            [] OTHER              -> "write"
  /\ obs.event \in {"idle", "resume"} => obs.begun
  /\ rd.pc # "off" <=> Waiting
  /\ obs.pc = "off" \/ Waiting \/ Writing =>
       ~PumpHoldsBuffer /\ pump.result = "empty"
  /\ pump.result # "empty" => ~PumpHoldsBuffer
  /\ PumpHoldsBuffer /\ Over => stop /\ obs.err = "stopped"
  /\ pump.queued => pump.pc \notin {"write", "count", "publish"}

\* How much of the input stdout has, at every place the chunk may be.
ChunkInv ==
  /\ \A i \in DOMAIN out : out[i] = i
  /\ pump.pc # "count" => bytes = Len(out)
  /\ obs.pc = "off" \/ (Waiting /\ rd.pc # "ready") => Len(out) = nread
  /\ rd.pc = "ready" \/ Writing \/ pump.queued => Len(out) = nread - rd.n
  /\ rd.pc = "ready" /\ rd.n = 0 => rd.err # "none"
  /\ pump.pc \in {"write", "count", "publish"} => Len(out) = nread - pump.left
  /\ pump.pc = "publish" => pump.err # "none" \/ pump.left = 0
  /\ pump.result = "none" => Len(out) = nread
  /\ ctx.reason \notin {"unset", "signal"} => ctx.bytes = Len(out)

\* Why Observe ended.
EndInv ==
  /\ rd.err = "stopped" => first # 0 \/ stop
  /\ Over /\ obs.err = "none" => rd.err = "eof" /\ Len(out) = nread
  /\ Over /\ obs.err = "stopped" =>
       first # 0 \/ stop \/ (done.firstFailed /\ Len(out) = nread)

\* After a failed first-data hook the chunk it is about is the last one.
FailInv ==
  /\ done.firstFailed => Writing \/ obs.pc = "result" \/ Over
  /\ done.firstFailed /\ ~Over => obs.event = "bos"
  /\ \A i \in DOMAIN emitted :
       emitted[i] \in {"idle", "resume"} =>
         obs.event # "bos" /\ obs.begun /\ ~done.firstFailed

IInv == TypeOK /\ CoordInv /\ PhaseInv /\ ChunkInv /\ EndInv /\ FailInv
-----------------------------------------------------------------------------
(* Typing, goroutine by goroutine.                                         *)

\* The copy's own variables, the part of TypeOK that is about them.
CopyTypeOK ==
  /\ pc \in MainPCs
  /\ done \in Completion
  /\ stop \in BOOLEAN
  /\ ctx \in [reason : {"unset", "signal", "eof", "omitted", "broken-pipe", "io-error"},
              bytes : Nat]
  /\ emitted \in Seq({"first-data", "idle", "resume", "shutdown"})
  /\ obs \in Observer
  /\ rd \in Reader
  /\ copyDone \in CopyErrors \cup {"empty"}
  /\ pump \in Pump
  /\ nread \in Nat
  /\ out \in Seq(Int)
  /\ bytes \in Nat

\* The type invariant, split into the copy's part and what it extends.
LEMMA TypeOKParts ==
  TypeOK <=> SignalTypeOK /\ HookTypeOK /\ opts \in Configs /\ CopyTypeOK
BY DEF TypeOK, CopyTypeOK

\* What the steps of Observe make of its record is a record of Observe again.
LEMMA ObserverTyping ==
  ASSUME obs \in Observer
  PROVE  /\ \A p \in {"off", "wait", "offer", "await", "write", "request", "result",
                     "end", "return", "done"} : [obs EXCEPT !.pc = p] \in Observer
         /\ \A e \in CopyErrors : Ending(e) \in Observer
         /\ Calling("eos", "return") \in Observer
         /\ [Calling("idle", "wait") EXCEPT !.idle = TRUE] \in Observer
         /\ [Calling("bos", "write") EXCEPT !.begun = TRUE] \in Observer
         /\ [Calling("resume", "write") EXCEPT !.idle = FALSE] \in Observer
BY DEF Observer, Ending, Calling, Kinds

\* The coordinator keeps the completion a completion.
LEMMA CompletionTyping ==
  ASSUME done \in Completion
  PROVE  /\ \A s \in Signals : [done EXCEPT !.signal = s] \in Completion
         /\ \A e \in CopyErrors \ {"stopped"} : [done EXCEPT !.copyErr = e] \in Completion
         /\ \A b \in BOOLEAN : /\ [done EXCEPT !.firstFailed = b] \in Completion
                             /\ [done EXCEPT !.idleErr = b] \in Completion
                             /\ [done EXCEPT !.resumeErr = b] \in Completion
BY DEF Completion

\* Recording an event keeps the record a sequence of lifecycle events.
LEMMA EmitTyping ==
  ASSUME CopyTypeOK, NEW e \in {"first-data", "idle", "resume", "shutdown"}, Emit(e)
  PROVE  emitted' \in Seq({"first-data", "idle", "resume", "shutdown"})
BY DEF Emit, CopyTypeOK

\* What a poll of the coordinator leaves, whether or not it ends the copy.
LEMMA AbortTyping ==
  ASSUME SignalTypeOK, CopyTypeOK, NEW next \in MainPCs, MayAbort(next)
  PROVE  pc' \in MainPCs /\ done' \in Completion /\ stop' \in BOOLEAN
<1>1. [done EXCEPT !.signal = first] \in Completion
  BY CompletionTyping DEF CopyTypeOK, SignalTypeOK
<1>2. first # 0 => pc' = "returned" /\ done' = [done EXCEPT !.signal = first] /\ stop' = TRUE
  BY DEF MayAbort
<1>3. first = 0 => pc' = next /\ done' = done /\ stop' = stop
  BY DEF MayAbort
<1> QED BY <1>1, <1>2, <1>3 DEF CopyTypeOK, MainPCs

\* Every step of the coordinator keeps the copy in its types; EOS has no hook.
LEMMA MainTyping ==
  ASSUME TypeOK, CoordInv, MainStep
  PROVE  TypeOK'
<1> USE DEF MainPCs, PollPoints
<1>0. SignalTypeOK /\ HookTypeOK /\ opts \in Configs /\ CopyTypeOK
  BY TypeOKParts
<1>P. "main" \in Procs /\ HookNames = {"on-first-data", "on-idle", "on-resume"}
  BY ProcsAssumption, HookNamesAssumption
<1>K. obs.event \in Kinds /\ obs.next \in {"wait", "write", "return"}
  BY <1>0 DEF CopyTypeOK, Observer
<1>1. CASE MainPoll
  <2>1. SignalTypeOK'
    BY <1>0, <1>P, <1>1, SignalTyping DEF MainPoll
  <2> QED BY <1>0, <1>1, <2>1 DEF MainPoll, TypeOK, CopyTypeOK, streamVars, mainVars,
             hookVars, HookTypeOK
<1>2. CASE StartObserve
  <2>1. pc' \in MainPCs /\ done' \in Completion /\ stop' \in BOOLEAN
    BY <1>0, <1>2, AbortTyping DEF StartObserve
  <2>2. obs' \in Observer
    BY <1>0, <1>2, ObserverTyping DEF StartObserve, CopyTypeOK
  <2>3. rd' \in Reader
    BY <1>0, <1>2 DEF StartObserve, CopyTypeOK, Reader
  <2> QED BY <1>0, <1>2, <2>1, <2>2, <2>3 DEF StartObserve, TypeOK, CopyTypeOK, hookVars,
             signalVars, HookTypeOK, SignalTypeOK
<1>3. CASE SelectSignal
  <2>1. SignalTypeOK'
    BY <1>0, <1>P, <1>3, SignalTyping DEF SelectSignal, PollStep
  <2>2. done' \in Completion
    BY <1>0, <1>3, <2>1, CompletionTyping DEF SelectSignal, CopyTypeOK, SignalTypeOK
  <2> QED BY <1>0, <1>3, <2>1, <2>2 DEF SelectSignal, TypeOK, CopyTypeOK, hookVars, HookTypeOK
<1>4. CASE SelectEvent
  <2>1. obs' \in Observer
    BY <1>0, <1>4, ObserverTyping DEF SelectEvent, CallbackAwaits, CopyTypeOK
  <2> QED BY <1>0, <1>4, <2>1 DEF SelectEvent, TypeOK, CopyTypeOK, hookVars, signalVars,
             HookTypeOK, SignalTypeOK
<1>5. CASE HandleEvent
  <2>1. pc' \in MainPCs /\ done' \in Completion /\ stop' \in BOOLEAN
    BY <1>0, <1>5, AbortTyping DEF HandleEvent
  <2>2. emitted' \in Seq({"first-data", "idle", "resume", "shutdown"})
    <3>1. CASE UNCHANGED emitted
      BY <1>0, <3>1 DEF CopyTypeOK
    <3>2. CASE IsTransition /\ Emit(IF Event = "eos" THEN "idle" ELSE EventName[Event])
      <4>1. EventName[Event] \in {"first-data", "idle", "resume", "shutdown"}
        BY <1>K, <3>2 DEF IsTransition, Event, EventName, Kinds
      <4> QED BY <1>0, <3>2, <4>1, EmitTyping DEF IsTransition
    <3> QED BY <1>5, <3>1, <3>2 DEF HandleEvent
  <2> QED BY <1>0, <1>5, <2>1, <2>2 DEF HandleEvent, TypeOK, CopyTypeOK, hookVars,
             signalVars, HookTypeOK, SignalTypeOK
<1>6. CASE RunHook
  <2>1. pc' \in MainPCs /\ done' \in Completion /\ stop' \in BOOLEAN
    BY <1>0, <1>6, AbortTyping DEF RunHook
  <2>2. HookTypeOK' /\ opts' = opts
    <3>1. CASE UNCHANGED hookVars
      BY <1>0, <3>1 DEF HookTypeOK, hookVars
    <3>2. CASE CallHook("main", HookName[Event])
      <4>1. HookName[Event] \in HookNames
        BY <1>P, <1>K, <1>6 DEF RunHook, MainAt, CoordInv, Event, HookName, Kinds
      <4> QED BY <1>0, <1>P, <3>2, <4>1, CallTyping DEF CallHook
    <3> QED BY <1>6, <3>1, <3>2 DEF RunHook
  <2> QED BY <1>0, <1>6, <2>1, <2>2 DEF RunHook, TypeOK, CopyTypeOK, signalVars, SignalTypeOK
<1>7. CASE HookRan
  <2>1. HookError(HookName[Event]) \in BOOLEAN
    BY <1>0 DEF HookError, HookTypeOK, Options
  <2>2. done.idleErr \in BOOLEAN /\ done.resumeErr \in BOOLEAN
    BY <1>0 DEF CopyTypeOK, Completion
  <2> DEFINE failed == HookError(HookName[Event])
  <2>3. done' \in { [done EXCEPT !.firstFailed = failed],
                    [done EXCEPT !.idleErr = done.idleErr \/ failed],
                    [done EXCEPT !.resumeErr = done.resumeErr \/ failed] }
    BY <1>7, <1>K DEF HookRan, MainAt, CoordInv, Event, Kinds
  <2> HIDE DEF failed
  <2>4. done' \in Completion
    <3>1. failed \in BOOLEAN
      BY <2>1 DEF failed
    <3>2. (done.idleErr \/ failed) \in BOOLEAN /\ (done.resumeErr \/ failed) \in BOOLEAN
      OBVIOUS
    <3> QED BY <1>0, <2>3, <3>1, <3>2, CompletionTyping DEF CopyTypeOK
  <2> QED BY <1>0, <1>7, <2>4 DEF HookRan, TypeOK, CopyTypeOK, hookVars, signalVars,
             HookTypeOK, SignalTypeOK
<1>8. CASE Transitioned
  <2>1. pc' \in MainPCs /\ done' \in Completion /\ stop' \in BOOLEAN
    BY <1>0, <1>8, AbortTyping DEF Transitioned
  <2> QED BY <1>0, <1>8, <2>1 DEF Transitioned, TypeOK, CopyTypeOK, hookVars,
             signalVars, HookTypeOK, SignalTypeOK
<1>9. CASE Handled
  <2>1. obs' \in Observer
    BY <1>0, <1>9, <1>K, ObserverTyping DEF Handled, CopyTypeOK
  <2> QED BY <1>0, <1>9, <2>1 DEF Handled, TypeOK, CopyTypeOK, hookVars, signalVars,
             HookTypeOK, SignalTypeOK
<1>10. CASE SelectCopy
  BY <1>0, <1>10 DEF SelectCopy, TypeOK, CopyTypeOK, hookVars, signalVars, HookTypeOK,
     SignalTypeOK
<1>11. CASE CopyEnds
  <2>1. done' = IF first # 0 THEN [done EXCEPT !.signal = first]
                ELSE [done EXCEPT !.copyErr = CopyError]
    BY <1>11 DEF CopyEnds
  <2>2. first \in Signals /\ CopyError \in CopyErrors \ {"stopped"}
    BY <1>0, <1>11 DEF CopyEnds, MainAt, CoordInv, CopyError, CopyTypeOK, CopyErrors,
       SignalTypeOK
  <2>3. done' \in Completion
    BY <1>0, <2>1, <2>2, CompletionTyping DEF CopyTypeOK
  <2> QED BY <1>0, <1>11, <2>3 DEF CopyEnds, TypeOK, CopyTypeOK, hookVars, signalVars,
             HookTypeOK, SignalTypeOK
<1>12. CASE Snapshot
  <2>1. Reason \in {"unset", "signal", "eof", "omitted", "broken-pipe", "io-error"}
    BY DEF Reason
  <2>2. ctx' \in [reason : {"unset", "signal", "eof", "omitted", "broken-pipe", "io-error"},
                  bytes : Nat]
    BY <1>0, <1>12, <2>1 DEF Snapshot, CopyTypeOK
  <2> QED BY <1>0, <1>12, <2>2 DEF Snapshot, TypeOK, CopyTypeOK, hookVars, signalVars,
             HookTypeOK, SignalTypeOK
<1>13. CASE Shutdown
  <2>1. emitted' \in Seq({"first-data", "idle", "resume", "shutdown"})
    BY <1>0, <1>13, EmitTyping DEF Shutdown
  <2> QED BY <1>0, <1>13, <2>1 DEF Shutdown, TypeOK, CopyTypeOK, hookVars, signalVars,
             HookTypeOK, SignalTypeOK
<1> QED
  BY <1>1, <1>2, <1>3, <1>4, <1>5, <1>6, <1>7, <1>8, <1>9, <1>10, <1>11, <1>12,
     <1>13 DEF MainStep

\* Every step of Observe, of its reader and of the callback does too.
LEMMA ObserverStepTyping ==
  ASSUME TypeOK, ObserveIdle \/ ReadInput \/ ObserveOwnStep
  PROVE  TypeOK'
<1>0. SignalTypeOK /\ HookTypeOK /\ opts \in Configs /\ CopyTypeOK
  BY TypeOKParts
<1>P. "obs" \in Procs
  BY ProcsAssumption
<1>K. /\ obs.next \in {"wait", "write", "return"} /\ obs.err \in CopyErrors
      /\ rd.err \in ReadErrors \cup {"stopped"}
      /\ pump.result \in WriteErrors \cup {"empty"}
  BY <1>0 DEF CopyTypeOK, Observer, Reader, Pump
<1> USE DEF CopyErrors, ReadErrors, WriteErrors
<1>1. obs' \in Observer
  <2> USE ObserverTyping DEF CopyTypeOK
  <2>1. CASE ObserveIdle
    BY <1>0, <2>1 DEF ObserveIdle
  <2>2. CASE ReadInput \/ ReadCheck \/ ReadPoll
    BY <1>0, <2>2 DEF ReadInput, ReadCheck, ReadPoll, ReadChanges
  <2>3. CASE ObserveRead
    BY <1>0, <1>K, <2>3 DEF ObserveRead
  <2>4. CASE CallbackGivesUp
    BY <1>0, <1>K, <2>4 DEF CallbackGivesUp
  <2>5. CASE WritePoll
    BY <1>0, <2>5 DEF WritePoll
  <2>6. CASE WriteRequest
    BY <1>0, <2>6 DEF WriteRequest
  <2>7. CASE WriteResult
    BY <1>0, <1>K, <2>7 DEF WriteResult, ReadNext
  <2>8. CASE ObserveEnd
    BY <1>0, <2>8 DEF ObserveEnd
  <2>9. CASE ObserveReturn
    BY <1>0, <2>9 DEF ObserveReturn
  <2> QED
    BY <2>1, <2>2, <2>3, <2>4, <2>5, <2>6, <2>7, <2>8, <2>9 DEF ObserveOwnStep
<1>2. rd' \in Reader /\ nread' \in Nat
  <2> USE DEF CopyTypeOK, Reader
  <2>1. CASE ReadCheck
    BY <1>0, <2>1 DEF ReadCheck
  <2>2. CASE ReadPoll
    BY <1>0, <2>2 DEF ReadPoll
  <2>3. CASE ReadInput
    BY <1>0, <2>3, BytesAssumption DEF ReadInput
  <2>4. CASE ObserveRead
    BY <1>0, <2>4 DEF ObserveRead, ObsChanges
  <2>5. CASE WriteResult
    BY <1>0, <2>5 DEF WriteResult, ReadNext, ObsChanges
  <2>6. CASE \/ ObserveIdle \/ CallbackGivesUp \/ WritePoll
             \/ WriteRequest \/ ObserveEnd \/ ObserveReturn
    BY <1>0, <2>6 DEF ObserveIdle, CallbackGivesUp, WritePoll, WriteRequest,
       ObserveEnd, ObserveReturn, ObsChanges
  <2> QED
    BY <2>1, <2>2, <2>3, <2>4, <2>5, <2>6 DEF ObserveOwnStep
<1>3. copyDone' \in CopyErrors \cup {"empty"}
  BY <1>0, <1>K DEF CopyTypeOK, ObserveOwnStep, ObserveIdle, ReadInput, ReadCheck, ReadPoll,
     ObserveRead, CallbackGivesUp, WritePoll, WriteRequest, WriteResult, ObserveEnd,
     ObserveReturn, ReadChanges
<1>4. pump' \in Pump
  BY <1>0 DEF CopyTypeOK, ObserveOwnStep, ObserveIdle, ReadInput, ReadCheck, ReadPoll,
     ObserveRead, CallbackGivesUp, WritePoll, WriteRequest, WriteResult, ObserveEnd,
     ObserveReturn, ReadChanges, Pump
<1>5. SignalTypeOK'
  <2>1. [ (\E g \in Procs : PollStep(g)) \/ Deliver ]_signalVars
    BY <1>P DEF ObserveOwnStep, ObserveIdle, ReadInput, ReadCheck, ReadPoll,
       ObserveRead, CallbackGivesUp, WritePoll, WriteRequest, WriteResult, ObserveEnd,
       ObserveReturn
  <2> QED BY <1>0, <2>1, SignalTyping
<1>6. UNCHANGED <<mainVars, out, bytes, hookVars>>
  BY DEF ObserveOwnStep, ObserveIdle, ReadInput, ReadCheck, ReadPoll, ObserveRead,
     CallbackGivesUp, WritePoll, WriteRequest, WriteResult, ObserveEnd, ObserveReturn,
     ReadChanges, ObsChanges
<1> QED
  BY <1>0, <1>1, <1>2, <1>3, <1>4, <1>5, <1>6 DEF TypeOK, CopyTypeOK, mainVars, hookVars,
     HookTypeOK

\* And every step of the pump.
LEMMA PumpTyping ==
  ASSUME TypeOK, PumpWrite \/ PumpOwnStep
  PROVE  TypeOK'
<1>0. SignalTypeOK /\ HookTypeOK /\ opts \in Configs /\ CopyTypeOK
  BY TypeOKParts
<1>1. pump' \in Pump
  <2> USE DEF CopyTypeOK, Pump, WriteErrors
  <2>1. CASE PumpCheck
    BY <1>0, <2>1 DEF PumpCheck
  <2>2. CASE PumpSelect
    BY <1>0, <2>2 DEF PumpSelect, Reader
  <2>3. CASE PumpWrite
    <3>1. PICK k \in 0..pump.left, e \in WriteErrors :
            pump' = [pump EXCEPT !.pc = "count", !.left = pump.left - k,
                       !.err = IF e = "none" /\ k = 0 THEN "io" ELSE e]
      BY <2>3 DEF PumpWrite
    <3> DEFINE werr == IF e = "none" /\ k = 0 THEN "io" ELSE e
    <3>2. werr \in WriteErrors /\ pump.left - k \in Nat
      BY <1>0
    <3>3. pump' = [pump EXCEPT !.pc = "count", !.left = pump.left - k, !.err = werr]
      BY <3>1
    <3> HIDE DEF werr
    <3> QED BY <1>0, <3>2, <3>3
  <2>4. CASE PumpCount
    BY <1>0, <2>4 DEF PumpCount
  <2>5. CASE PumpPublish
    BY <1>0, <2>5 DEF PumpPublish
  <2> QED BY <2>1, <2>2, <2>3, <2>4, <2>5 DEF PumpOwnStep
<1>2. out' \in Seq(Int) /\ bytes' \in Nat
  <2>1. CASE PumpWrite
    <3>1. PICK k \in 0..pump.left : out' = out \o [i \in 1..k |-> nread - pump.left + i]
      BY <2>1 DEF PumpWrite
    <3>2. pump.left \in Nat /\ nread \in Nat
      BY <1>0 DEF CopyTypeOK, Pump
    <3>3. [i \in 1..k |-> nread - pump.left + i] \in Seq(Int)
      BY <3>2
    <3>4. out \in Seq(Int) /\ bytes \in Nat /\ bytes' = bytes
      BY <1>0, <2>1 DEF PumpWrite, CopyTypeOK
    <3> HIDE DEF PumpWrite
    <3> QED BY <3>1, <3>3, <3>4
  <2>2. CASE PumpOwnStep
    BY <1>0, <2>2 DEF PumpOwnStep, PumpCheck, PumpSelect, PumpCount, PumpPublish, CopyTypeOK
  <2> QED BY <2>1, <2>2
<1>3. PumpChanges
  BY DEF PumpOwnStep, PumpWrite, PumpCheck, PumpSelect, PumpCount, PumpPublish
<1> QED
  BY <1>0, <1>1, <1>2, <1>3 DEF PumpChanges, TypeOK, CopyTypeOK, mainVars, hookVars,
     signalVars, HookTypeOK, SignalTypeOK

\* Hooks, processes, signals and the ended run leave the copy alone.
LEMMA OtherSteps ==
  ASSUME TypeOK, HookSteps \/ ProcExits \/ SignalArrives \/ UNCHANGED vars
  PROVE  /\ TypeOK' /\ UNCHANGED streamVars /\ opts' = opts
         /\ first # 0 => first' = first
         /\ ~InHook("main") => ~InHook("main")'
<1>0. SignalTypeOK /\ HookTypeOK /\ opts \in Configs /\ CopyTypeOK
  BY TypeOKParts
<1>P. "main" \in Procs
  BY ProcsAssumption
<1>1. UNCHANGED streamVars
  BY DEF HookSteps, ProcExits, SignalArrives, vars
<1>2. [ (\E g \in Procs : PollStep(g)) \/ Deliver ]_signalVars
  BY <1>P, HookStepSignals DEF HookSteps, ProcExits, SignalArrives, vars
<1>3. SignalTypeOK' /\ (first # 0 => first' = first)
  BY <1>0, <1>2, SignalTyping, FirstStays
<1>4. HookTypeOK' /\ opts' = opts /\ (~InHook("main") => ~InHook("main")')
  <2>1. CASE HookSteps \/ ProcExits
    BY <1>0, <1>P, <2>1, HookTyping, HookStepsOutside DEF HookSteps, ProcExits
  <2>2. CASE UNCHANGED hookVars
    BY <1>0, <2>2 DEF HookTypeOK, hookVars, InHook
  <2> QED BY <2>1, <2>2 DEF SignalArrives, vars
<1> QED
  BY <1>0, <1>1, <1>3, <1>4 DEF TypeOK, CopyTypeOK, streamVars, mainVars
-----------------------------------------------------------------------------
(* Every step keeps the invariant.  Most leaves prove all of it at once;   *)
(* a step that branches is split by its branches.                          *)

\* No step forgets the run's signal.
FirstKept == first # 0 => first' = first

\* What the types say of the variables the invariant mentions.
LEMMA Shapes ==
  ASSUME TypeOK
  PROVE  /\ obs \in Observer /\ rd \in Reader /\ pump \in Pump /\ done \in Completion
         /\ nread \in Nat /\ bytes \in Nat /\ Len(out) \in Nat /\ stop \in BOOLEAN
         /\ ctx \in [reason : {"unset", "signal", "eof", "omitted", "broken-pipe", "io-error"},
                     bytes : Nat]
         /\ emitted \in Seq({"first-data", "idle", "resume", "shutdown"})
         /\ out \in Seq(Int) /\ copyDone \in CopyErrors \cup {"empty"} /\ first \in Signals
BY DEF TypeOK, SignalTypeOK

\* The reason of the shutdown context depends on the completion only.
LEMMA SameReason ==
  ASSUME done' = done PROVE Reason' = Reason
BY DEF Reason

\* No step of the run forgets the first signal (completion.go, remember).
LEMMA NextKeepsFirst ==
  ASSUME TypeOK, [Next]_vars
  PROVE  FirstKept
<1>1. [ (\E g \in Procs : PollStep(g)) \/ Deliver ]_signalVars
  <2>1. "main" \in Procs /\ "obs" \in Procs
    BY ProcsAssumption
  <2>2. CASE MainStep
    BY <2>1, <2>2 DEF MainStep, MainPoll, StartObserve, SelectSignal, SelectEvent,
       HandleEvent,
       RunHook, HookRan, Transitioned, Handled, SelectCopy, CopyEnds, Snapshot, Shutdown, PollStep
  <2>3. CASE ObserveIdle \/ ReadInput \/ ObserveOwnStep
    BY <2>1, <2>3 DEF ObserveOwnStep, ObserveIdle, ReadInput, ReadCheck, ReadPoll,
       ObserveRead,
       CallbackGivesUp, WritePoll, WriteRequest, WriteResult, ObserveEnd, ObserveReturn
  <2>4. CASE PumpWrite \/ PumpOwnStep
    BY <2>4 DEF PumpOwnStep, PumpWrite, PumpCheck, PumpSelect, PumpCount, PumpPublish,
       PumpChanges
  <2>5. CASE HookSteps \/ ProcExits \/ SignalArrives \/ UNCHANGED vars
    BY <2>1, <2>5, HookStepSignals DEF HookSteps, ProcExits, SignalArrives, vars
  <2> QED BY <2>2, <2>3, <2>4, <2>5 DEF Next, Ended
<1> QED BY <1>1, FirstStays DEF FirstKept, TypeOK

\* Writing the next k bytes extends the prefix by k.
LEMMA PrefixExtends ==
  ASSUME out \in Seq(Int), nread \in Nat, NEW left \in Nat, NEW k \in 0..left,
         \A i \in DOMAIN out : out[i] = i,
         Len(out) = nread - left,
         out' = out \o [i \in 1..k |-> nread - left + i]
  PROVE  /\ \A i \in DOMAIN out' : out'[i] = i
         /\ Len(out') = Len(out) + k
<1> DEFINE w == [i \in 1..k |-> nread - left + i]
<1>1. w \in Seq(Int) /\ Len(w) = k /\ \A i \in 1..k : w[i] = Len(out) + i
  OBVIOUS
<1>2. Len(out \o w) = Len(out) + k /\ DOMAIN (out \o w) = 1..(Len(out) + k)
  BY <1>1
<1>3. ASSUME NEW i \in 1..(Len(out) + k) PROVE (out \o w)[i] = i
  <2> HIDE DEF w
  <2>0. i \in Nat /\ Len(out) \in Nat
    BY <1>2
  <2>1. CASE i <= Len(out)
    BY <1>1, <2>1
  <2>2. CASE i > Len(out)
    <3>1. (out \o w)[i] = w[i - Len(out)] /\ i - Len(out) \in 1..k
      BY <1>1, <2>0, <2>2
    <3> QED BY <1>1, <2>0, <3>1
  <2>3. i <= Len(out) \/ i > Len(out)
    BY <2>0
  <2> QED BY <2>1, <2>2, <2>3
<1> QED BY <1>2, <1>3

\* An appended sequence holds the old elements and the new one.
LEMMA AppendElements ==
  ASSUME NEW S, NEW s \in Seq(S), NEW e \in S, NEW i \in DOMAIN Append(s, e)
  PROVE  Append(s, e)[i] = e \/ (i \in DOMAIN s /\ Append(s, e)[i] = s[i])
<1>1. i \in 1..(Len(s) + 1) /\ Len(s) \in Nat
  OBVIOUS
<1> QED BY <1>1

USE DEF IInv, CoordInv, PhaseInv, ChunkInv, EndInv, FailInv, FirstKept, InCall, Waiting,
        Writing, Over, Handling, Returned, PumpHoldsBuffer, Observer, Reader, Pump,
        Completion, Kinds, CopyErrors, ReadErrors, WriteErrors

\* A step that leaves the copy alone.
LEMMA StutterKeeps ==
  ASSUME IInv, TypeOK', UNCHANGED streamVars, FirstKept
  PROVE  IInv'
BY Shapes, SameReason, SMTT(30) DEF streamVars, mainVars

\* The coordinator takes a signal, and remembers it.
LEMMA SelectSignalKeeps ==
  ASSUME IInv, TypeOK', SelectSignal, FirstKept
  PROVE  IInv'
<1>1. CASE pc = "select"
  BY <1>1, Shapes, SameReason, SMTT(30) DEF SelectSignal, MainAt, Receive
<1>2. CASE pc = "taken"
  <2>1. /\ pc' = "returned" /\ stop' = TRUE /\ first' # 0
        /\ done' = [done EXCEPT !.signal = first']
        /\ UNCHANGED <<ctx, emitted, obs, rd, copyDone, pump, nread, out, bytes>>
    BY <1>2, ProcsAssumption DEF SelectSignal, MainAt, Remember, TypeOK, SignalTypeOK
  <2> QED BY <1>2, <2>1, Shapes, SMTT(30)
<1> QED BY <1>1, <1>2 DEF SelectSignal, MainAt

\* The coordinator records an event it was given, unless a signal came first.
LEMMA HandleEventKeeps ==
  ASSUME IInv, TypeOK', HandleEvent, FirstKept
  PROVE  IInv'
<1>1. CASE first # 0
  BY <1>1, Shapes, SameReason, SMTT(30) DEF HandleEvent, MainAt, MayAbort, signalVars
<1>2. CASE first = 0
  <2>1. /\ pc = "eventPoll" /\ obs.pc = "await"
        /\ pc' \in {"handled", "prePoll", "postPoll"}
        /\ pc' = "prePoll" => obs.event # "eos"
        /\ UNCHANGED <<done, stop, ctx, obs, rd, copyDone, pump, nread, out, bytes, first>>
    BY <1>2, SMTT(30) DEF HandleEvent, MainAt, MayAbort, IsTransition, Event, signalVars
  <2>2. \/ emitted' = emitted
        \/ /\ obs.event # "eos"
           /\ emitted' = Append(emitted, EventName[obs.event])
    BY <1>2 DEF HandleEvent, IsTransition, Event, Emit
  <2>3. \A i \in DOMAIN emitted' :
          emitted'[i] \in {"idle", "resume"} =>
            obs.event # "bos" /\ obs.begun /\ ~done.firstFailed
    <3>1. obs.event \in {"idle", "resume"} => obs.begun /\ ~done.firstFailed
      BY <2>1, Shapes, SMTT(30)
    <3>2. obs.event # "eos" =>
            (EventName[obs.event] \in {"idle", "resume"} => obs.event \in {"idle", "resume"})
      BY Shapes DEF EventName
    <3>3. CASE emitted' = emitted
      BY <3>3
    <3>4. CASE obs.event # "eos" /\ emitted' = Append(emitted, EventName[obs.event])
      <4>1. emitted \in Seq({"first-data", "idle", "resume", "shutdown"})
        BY Shapes
      <4>2. EventName[obs.event] \in {"first-data", "idle", "resume", "shutdown"}
        BY <3>4, Shapes DEF EventName
      <4>3. ASSUME NEW i \in DOMAIN emitted'
            PROVE  emitted'[i] = EventName[obs.event]
                   \/ (i \in DOMAIN emitted /\ emitted'[i] = emitted[i])
        BY <3>4, <4>1, <4>2, AppendElements
      <4> QED BY <3>1, <3>2, <3>4, <4>3
    <3> QED BY <2>2, <3>3, <3>4
  <2> QED BY <2>1, <2>3, Shapes, SameReason, SMTT(30)
<1> QED BY <1>1, <1>2

\* The poll after a transition.
LEMMA TransitionedKeeps ==
  ASSUME IInv, TypeOK', Transitioned, FirstKept
  PROVE  IInv'
<1>1. CASE first # 0
  BY <1>1, Shapes, SMTT(30) DEF Transitioned, MainAt, MayAbort, signalVars
<1>2. CASE first = 0
  BY <1>2, Shapes, SameReason, SMTT(30) DEF Transitioned, MainAt, MayAbort, signalVars
<1> QED BY <1>1, <1>2

\* The poll before a hook.
LEMMA RunHookKeeps ==
  ASSUME IInv, TypeOK', RunHook, FirstKept
  PROVE  IInv'
<1>1. CASE first # 0
  BY <1>1, Shapes, SMTT(30) DEF RunHook, MainAt, MayAbort, signalVars
<1>2. CASE first = 0
  BY <1>2, Shapes, SameReason, SMTT(30) DEF RunHook, MainAt, MayAbort, signalVars
<1> QED BY <1>1, <1>2

\* The coordinator keeps it.
LEMMA MainKeeps ==
  ASSUME IInv, TypeOK', MainStep, FirstKept
  PROVE  IInv'
<1>1. CASE MainPoll
  BY <1>1, StutterKeeps DEF MainPoll
<1>2. CASE StartObserve
  BY <1>2, Shapes, SameReason, SMTT(30) DEF StartObserve, MainAt, MayAbort,
     signalVars
<1>3. CASE SelectSignal
  BY <1>3, SelectSignalKeeps
<1>4. CASE SelectEvent
  BY <1>4, Shapes, SameReason, SMTT(30) DEF SelectEvent, MainAt,
     CallbackAwaits, signalVars
<1>5. CASE HandleEvent
  BY <1>5, HandleEventKeeps
<1>6. CASE RunHook
  BY <1>6, RunHookKeeps
<1>7. CASE HookRan
  BY <1>7, Shapes, SameReason, SMTT(30) DEF HookRan, MainAt, Event, signalVars
<1>8. CASE Transitioned
  BY <1>8, TransitionedKeeps
<1>9. CASE Handled
  BY <1>9, Shapes, SameReason, SMTT(30) DEF Handled, MainAt, signalVars
<1>10. CASE SelectCopy
  BY <1>10, Shapes, SameReason, SMTT(30) DEF SelectCopy, MainAt, signalVars
<1>11. CASE CopyEnds
  BY <1>11, Shapes, SameReason, SMTT(30) DEF CopyEnds, MainAt, CopyError,
     signalVars
<1>12. CASE Snapshot
  BY <1>12, Shapes, SameReason, SMTT(30) DEF Snapshot, MainAt, Reason,
     signalVars
<1>13. CASE Shutdown
  BY <1>13, Shapes, SameReason, SMTT(30) DEF Shutdown, MainAt, Emit,
     signalVars
<1> QED
  BY <1>1, <1>2, <1>3, <1>4, <1>5, <1>6, <1>7, <1>8, <1>9, <1>10, <1>11,
     <1>12, <1>13 DEF MainStep

\* Write, until the chunk is requested: what it waits for may be overtaken by a
\* signal or by the end of the copy.
LEMMA WritePollKeeps ==
  ASSUME IInv, TypeOK', WritePoll, FirstKept
  PROVE  IInv'
<1>0. obs.pc = "write" /\ UNCHANGED <<mainVars, nread, out, bytes, rd, copyDone, pump>>
  BY DEF WritePoll, ObsChanges
<1>1. CASE UNCHANGED obs
  BY <1>0, <1>1, StutterKeeps DEF streamVars
<1>2. CASE (first # 0 \/ stop) /\ obs' = Ending("stopped")
  BY <1>0, <1>2, Shapes, SameReason, SMTT(30) DEF Ending, mainVars
<1>3. CASE obs' = [obs EXCEPT !.pc = "request"]
  BY <1>0, <1>3, Shapes, SameReason, SMTT(30) DEF mainVars
<1> QED BY <1>1, <1>2, <1>3 DEF WritePoll

\* Write hands its chunk to the pump, or gives up because the copy has ended.
LEMMA WriteRequestKeeps ==
  ASSUME IInv, TypeOK', WriteRequest, FirstKept
  PROVE  IInv'
<1>0. obs.pc = "request" /\ UNCHANGED <<mainVars, nread, out, bytes, rd, copyDone, first>>
  BY DEF WriteRequest, ObsChanges, signalVars
<1>1. CASE /\ pump' = [pump EXCEPT !.queued = TRUE]
           /\ obs' = [obs EXCEPT !.pc = "result"]
  BY <1>0, <1>1, Shapes, SameReason, SMTT(30) DEF mainVars
<1>2. CASE stop /\ obs' = Ending("stopped") /\ UNCHANGED pump
  BY <1>0, <1>2, Shapes, SameReason, SMTT(30) DEF Ending, mainVars
<1> QED BY <1>1, <1>2 DEF WriteRequest

\* Write returns: the pump's answer ends Observe or goes on to its next read,
\* and the end of the copy abandons the chunk.
LEMMA WriteResultKeeps ==
  ASSUME IInv, TypeOK', WriteResult, FirstKept
  PROVE  IInv'
<1>0. obs.pc = "result" /\ UNCHANGED <<mainVars, nread, out, bytes, copyDone, first>>
  BY DEF WriteResult, ObsChanges, signalVars
<1>1. CASE stop /\ obs' = Ending("stopped") /\ UNCHANGED <<rd, pump>>
  BY <1>0, <1>1, Shapes, SameReason, SMTT(30) DEF Ending, mainVars
<1>2. CASE pump.result # "empty" /\ pump' = [pump EXCEPT !.result = "empty"]
  <2>0. obs.pc = "result" /\ ~PumpHoldsBuffer
    BY <1>0, <1>2, Shapes, SMTT(30)
  <2>1. CASE pump.result \in {"pipe", "io"} /\ obs' = Ending(pump.result) /\ UNCHANGED rd
    BY <1>0, <1>2, <2>1, Shapes, SameReason, SMTT(30) DEF Ending, mainVars
  <2>2. CASE /\ pump.result \notin {"pipe", "io"} /\ done.firstFailed
             /\ obs' = Ending(IF rd.err = "io" THEN "io" ELSE "stopped")
             /\ UNCHANGED rd
    BY <1>0, <1>2, <2>2, Shapes, SameReason, SMTT(30) DEF Ending, mainVars
  <2>3. CASE /\ pump.result \notin {"pipe", "io"} /\ ~done.firstFailed
             /\ rd.err = "none"
             /\ obs' = [obs EXCEPT !.pc = "wait"] /\ rd' = [rd EXCEPT !.pc = "check"]
    BY <1>0, <1>2, <2>3, Shapes, SameReason, SMTT(30) DEF mainVars
  <2>4. CASE /\ pump.result \notin {"pipe", "io"} /\ ~done.firstFailed
             /\ rd.err # "none"
             /\ obs' = Ending(IF rd.err = "eof" THEN "none" ELSE rd.err) /\ UNCHANGED rd
    BY <1>0, <1>2, <2>4, Shapes, SameReason, SMTT(30) DEF Ending, mainVars
  <2> QED
    BY <1>2, <2>1, <2>2, <2>3, <2>4, Shapes DEF WriteResult, StopsAfterChunk, ReadNext
<1> QED BY <1>1, <1>2 DEF WriteResult, Answered

\* Observe ends, with or without EOS.
LEMMA ObserveEndKeeps ==
  ASSUME IInv, TypeOK', ObserveEnd, FirstKept
  PROVE  IInv'
<1>0. obs.pc = "end" /\ UNCHANGED <<mainVars, nread, out, bytes, rd, copyDone, pump, first>>
  BY DEF ObserveEnd, ObsChanges, signalVars
<1>1. CASE obs' = Calling("eos", "return")
  BY <1>0, <1>1, Shapes, SameReason, SMTT(30) DEF Calling, mainVars
<1>2. CASE obs' = [obs EXCEPT !.pc = "return"]
  BY <1>0, <1>2, Shapes, SameReason, SMTT(30) DEF mainVars
<1> QED BY <1>1, <1>2 DEF ObserveEnd

\* Observe, its reader and its callback keep it.
LEMMA ObserverKeeps ==
  ASSUME IInv, TypeOK', ObserveIdle \/ ReadInput \/ ObserveOwnStep, FirstKept
  PROVE  IInv'
<1>1. CASE ReadCheck
  BY <1>1, Shapes, SameReason, SMTT(30) DEF ReadCheck, ReadChanges, mainVars,
     signalVars
<1>2. CASE ReadPoll
  BY <1>2, Shapes, SameReason, SMTT(30) DEF ReadPoll, ReadChanges,
     SignalPolled, mainVars, signalVars
<1>3. CASE ReadInput
  BY <1>3, Shapes, SameReason, SMTT(30) DEF ReadInput, ReadChanges, mainVars,
     signalVars
<1>4. CASE ObserveIdle
  BY <1>4, Shapes, SameReason, SMTT(30) DEF ObserveIdle, ObsChanges, Calling,
     mainVars, signalVars
<1>5. CASE ObserveRead
  BY <1>5, Shapes, SameReason, SMTT(30) DEF ObserveRead, ObsChanges, Calling,
     Ending, mainVars, signalVars
<1>6. CASE CallbackGivesUp
  BY <1>6, Shapes, SameReason, SMTT(30) DEF CallbackGivesUp, Abandons,
     ObsChanges, mainVars, signalVars
<1>7. CASE WritePoll
  BY <1>7, WritePollKeeps
<1>8. CASE WriteRequest
  BY <1>8, WriteRequestKeeps
<1>9. CASE WriteResult
  BY <1>9, WriteResultKeeps
<1>10. CASE ObserveEnd
  BY <1>10, ObserveEndKeeps
<1>11. CASE ObserveReturn
  BY <1>11, Shapes, SameReason, SMTT(30) DEF ObserveReturn, ObsChanges,
     mainVars, signalVars
<1> QED
  BY <1>1, <1>2, <1>3, <1>4, <1>5, <1>6, <1>7, <1>8, <1>9, <1>10, <1>11 DEF
     ObserveOwnStep

\* The pump takes the chunk, or stops.
LEMMA PumpSelectKeeps ==
  ASSUME IInv, TypeOK', PumpSelect, FirstKept
  PROVE  IInv'
<1>0. pump.pc = "select" /\ UNCHANGED <<mainVars, obs, rd, copyDone, nread, out, bytes, first>>
  BY DEF PumpSelect, PumpChanges, signalVars
<1>1. CASE /\ pump.queued
           /\ pump' = [pump EXCEPT !.pc = "write", !.queued = FALSE, !.left = rd.n]
  BY <1>0, <1>1, Shapes, SameReason, SMTT(30) DEF mainVars
<1>2. CASE stop /\ pump' = [pump EXCEPT !.pc = "exit"]
  BY <1>0, <1>2, Shapes, SameReason, SMTT(30) DEF mainVars
<1> QED BY <1>1, <1>2 DEF PumpSelect

\* The pump writes a part of the chunk, the next bytes of the input.
LEMMA PumpWriteKeeps ==
  ASSUME IInv, TypeOK', PumpWrite, FirstKept
  PROVE  IInv'
<1>0. pump.pc = "write" /\ UNCHANGED <<mainVars, obs, rd, copyDone, nread, bytes, first>>
  BY DEF PumpWrite, PumpChanges, signalVars
<1>1. PICK k \in 0..pump.left, e \in WriteErrors :
        /\ out' = out \o [i \in 1..k |-> nread - pump.left + i]
        /\ pump' = [pump EXCEPT !.pc = "count", !.left = pump.left - k,
                      !.err = IF e = "none" /\ k = 0 THEN "io" ELSE e]
  BY DEF PumpWrite
<1>2. /\ pump.left \in Nat /\ Len(out) = nread - pump.left
      /\ \A i \in DOMAIN out : out[i] = i
  BY <1>0, Shapes
<1>3. /\ \A i \in DOMAIN out' : out'[i] = i
      /\ Len(out') = Len(out) + k
  <2>1. out \in Seq(Int) /\ nread \in Nat
    BY Shapes
  <2> QED BY <1>1, <1>2, <2>1, PrefixExtends
<1>4. obs.pc \notin {"off", "write", "request"} /\ ~Waiting /\ pump.result = "empty"
  BY <1>0, Shapes, SMTT(30)
<1>5. /\ pump'.pc = "count" /\ pump'.left = pump.left - k
      /\ pump'.queued = pump.queued /\ pump'.result = pump.result
  BY <1>1, Shapes
<1>6. /\ Over => stop /\ obs.err = "stopped"
      /\ ~pump.queued
      /\ ctx.reason \in {"unset", "signal"}
  BY <1>0, Shapes, SMTT(30) DEF Reason
<1>7. Reason' = Reason
  BY <1>0, SameReason DEF mainVars
<1>8. pump'.err \in WriteErrors
  BY <1>1, Shapes
<1> HIDE DEF WriteErrors
<1> QED
  BY <1>0, <1>2, <1>3, <1>4, <1>5, <1>6, <1>7, <1>8, Shapes, SMTT(30) DEF mainVars

\* The pump keeps it.
LEMMA PumpKeeps ==
  ASSUME IInv, TypeOK', PumpWrite \/ PumpOwnStep, FirstKept
  PROVE  IInv'
<1>1. CASE PumpCheck
  BY <1>1, Shapes, SameReason, SMTT(30) DEF PumpCheck, PumpStops, PumpChanges,
     mainVars, signalVars
<1>2. CASE PumpSelect
  BY <1>2, PumpSelectKeeps
<1>3. CASE PumpWrite
  BY <1>3, PumpWriteKeeps
<1>4. CASE PumpCount
  BY <1>4, Shapes, SameReason, SMTT(30) DEF PumpCount, ChunkOver, PumpChanges,
     mainVars, signalVars
<1>5. CASE PumpPublish
  BY <1>5, Shapes, SameReason, SMTT(30) DEF PumpPublish, PumpStops,
     PumpChanges, mainVars, signalVars
<1> QED
  BY <1>1, <1>2, <1>3, <1>4, <1>5 DEF PumpOwnStep

HIDE DEF IInv, CoordInv, PhaseInv, ChunkInv, EndInv, FailInv, FirstKept, InCall, Waiting,
         Writing, Over, Handling, Returned, PumpHoldsBuffer, Observer, Reader, Pump,
         Completion, Kinds, CopyErrors, ReadErrors, WriteErrors

-----------------------------------------------------------------------------
(* The theorems.                                                           *)

\* An idle copy starts in the invariant.
LEMMA InitEstablishes == Init => IInv
<1> SUFFICES ASSUME Init PROVE IInv
  OBVIOUS
<1>1. TypeOK
  <2>1. SignalTypeOK
    BY MaxSignalsAssumption DEF Init, SignalInit, SignalTypeOK, Signals
  <2>2. HookTypeOK /\ opts \in Configs
    BY ConfigsAssumption, MaxSignalsAssumption
       DEF Init, HookInit, HookTypeOK, HookPCs, Results, Signals
  <2>3. CopyTypeOK
    <3>1. obs \in Observer /\ rd \in Reader /\ pump \in Pump
      BY DEF Init, Observer, Reader, Pump, Kinds, CopyErrors, ReadErrors, WriteErrors
    <3>2. done \in Completion
      BY MaxSignalsAssumption DEF Init, Completion, Signals, CopyErrors
    <3>3. out \in Seq(Int) /\ emitted \in Seq({"first-data", "idle", "resume", "shutdown"})
      BY DEF Init
    <3>4. ctx \in [reason : {"unset", "signal", "eof", "omitted", "broken-pipe", "io-error"},
                  bytes : Nat]
      BY DEF Init
    <3> QED BY <3>1, <3>2, <3>3, <3>4 DEF Init, CopyTypeOK, MainPCs, PollPoints
  <2> QED BY <2>1, <2>2, <2>3, TypeOKParts
<1>2. CoordInv /\ PhaseInv /\ ChunkInv /\ EndInv /\ FailInv
  BY DEF Init, CoordInv, PhaseInv, ChunkInv, EndInv, FailInv, InCall, Waiting, Writing,
         Over, Handling, Returned, PumpHoldsBuffer
<1> QED BY <1>1, <1>2 DEF IInv

\* Every step of the three goroutines, a hook or a signal keeps it.
LEMMA NextKeeps == IInv /\ [Next]_vars => IInv'
<1> SUFFICES ASSUME IInv, [Next]_vars PROVE IInv'
  OBVIOUS
<1>0. TypeOK /\ CoordInv /\ FirstKept
  BY NextKeepsFirst DEF IInv
<1>1. CASE MainStep
  BY <1>0, <1>1, MainTyping, MainKeeps
<1>2. CASE ObserveIdle \/ ReadInput \/ ObserveOwnStep
  BY <1>0, <1>2, ObserverStepTyping, ObserverKeeps
<1>3. CASE PumpWrite \/ PumpOwnStep
  BY <1>0, <1>3, PumpTyping, PumpKeeps
<1>4. CASE HookSteps \/ ProcExits \/ SignalArrives \/ UNCHANGED vars
  BY <1>0, <1>4, OtherSteps, StutterKeeps
<1> QED BY <1>1, <1>2, <1>3, <1>4 DEF Next, Ended

\* The invariant holds in every reachable state.
THEOREM Inductive == Spec => []IInv
BY InitEstablishes, NextKeeps, PTL DEF Spec

\* Type correctness of a run with --idle.
THEOREM TypeCorrect == Spec => []TypeOK
<1>1. IInv => TypeOK
  BY DEF IInv
<1> QED BY <1>1, Inductive, PTL

\* stdout holds the input's bytes in order, without gap or repetition, however
\* the three goroutines interleave and writes are split; all of them when the
\* run reports "eof".
THEOREM OutputIsFaithful == Spec => []OutputFaithful
<1>1. IInv => OutputFaithful
  <2> SUFFICES ASSUME IInv PROVE OutputFaithful
    OBVIOUS
  <2>1. ASSUME ctx.reason = "eof"
        PROVE  Len(out) = nread /\ rd.err = "eof"
    <3>1. pc \in Returned /\ Reason = "eof"
      BY <2>1 DEF IInv, CoordInv, Returned
    <3>2. done.signal = 0 /\ done.copyErr \notin {"pipe", "io"}
          /\ ~(done.copyErr = "none" /\ done.firstFailed)
      BY <3>1 DEF Reason
    <3>3. /\ obs.pc = "done"
          /\ done.copyErr = IF obs.err = "stopped" THEN "none" ELSE obs.err
          /\ obs.err = "stopped" => done.firstFailed
      BY <3>1, <3>2 DEF IInv, CoordInv
    <3>4. obs.err = "none"
      BY <3>2, <3>3, Shapes DEF IInv, Observer, CopyErrors
    <3> QED BY <3>3, <3>4 DEF IInv, EndInv, Over
  <2> QED BY <2>1 DEF IInv, ChunkInv, OutputFaithful
<1> QED BY <1>1, Inductive, PTL

\* While the coordinator handles an event the pump has no chunk to write.
THEOREM TransitionIsFirst == Spec => []TransitionBeforeChunk
<1>1. IInv => TransitionBeforeChunk
  BY DEF IInv, CoordInv, PhaseInv, TransitionBeforeChunk, Handling, Waiting, Writing,
         InCall, Over, Returned
<1> QED BY <1>1, Inductive, PTL

\* The reader never fills the buffer the pump may still write from.
THEOREM BufferIsExclusive == Spec => []BufferHasOneUser
<1>1. IInv => BufferHasOneUser
  BY DEF IInv, PhaseInv, BufferHasOneUser
<1> QED BY <1>1, Inductive, PTL

\* A failed first-data hook ends the copy with the chunk that triggered it.
THEOREM FailedFirstDataIsLast == Spec => []FailedFirstDataStops
<1>1. IInv => FailedFirstDataStops
  <2> SUFFICES ASSUME IInv, done.firstFailed
               PROVE  /\ rd.pc = "off"
                      /\ \A i \in DOMAIN emitted : emitted[i] \notin {"idle", "resume"}
                      /\ ctx.reason \in {"unset", "omitted", "signal", "io-error",
                                         "broken-pipe"}
                      /\ ctx.reason = "omitted" => Len(out) = nread
    BY DEF FailedFirstDataStops
  <2>1. rd.pc = "off"
    BY DEF IInv, PhaseInv, FailInv, Writing, Over, Waiting, InCall
  <2>2. \A i \in DOMAIN emitted : emitted[i] \notin {"idle", "resume"}
    BY DEF IInv, FailInv
  <2>3. ctx.reason # "unset" => pc \in Returned /\ ctx.reason = Reason
    BY DEF IInv, CoordInv, Returned
  <2>4. pc \in Returned /\ done.signal = 0 =>
          /\ obs.pc = "done"
          /\ done.copyErr = IF obs.err = "stopped" THEN "none" ELSE obs.err
          /\ obs.err = "stopped" => Len(out) = nread
    BY DEF IInv, CoordInv
  <2>5. obs.pc = "done" /\ obs.err = "none" => Len(out) = nread
    BY DEF IInv, EndInv, Over
  <2>6. Reason \in {"omitted", "signal", "io-error", "broken-pipe"}
    BY Shapes DEF IInv, Reason, Completion, CopyErrors
  <2>7. Reason = "omitted" => done.signal = 0 /\ done.copyErr = "none"
    BY DEF Reason
  <2> QED BY <2>1, <2>2, <2>3, <2>4, <2>5, <2>6, <2>7
<1> QED BY <1>1, Inductive, PTL

\* After a completion without a signal nothing is written any more.
THEOREM CompletionIsQuiet == Spec => []QuietAfterCompletion
<1>1. IInv => QuietAfterCompletion
  BY DEF IInv, CoordInv, ChunkInv, QuietAfterCompletion, Reason, Returned
<1> QED BY <1>1, Inductive, PTL

-----------------------------------------------------------------------------
(* The lifecycle.  While the copy goes on, the last event recorded tells   *)
(* where Observe is, but for the event the coordinator has yet to record;  *)
(* once it is stopped, only the shutdown event can follow.                 *)

Unrecorded == (obs.pc = "offer" \/ pc = "eventPoll") /\ obs.event # "eos"

Position ==
  IF Unrecorded
    THEN CASE obs.event = "bos"    -> "ready"
           [] obs.event = "idle"   -> "active"
           [] obs.event = "resume" -> "idle"
    ELSE IF ~obs.begun THEN "ready" ELSE IF obs.idle THEN "idle" ELSE "active"

LifeInv ==
  /\ obs.idle => obs.begun
  /\ InCall /\ obs.event = "idle" => obs.idle
  /\ InCall /\ obs.event \in {"bos", "resume"} => obs.begun /\ ~obs.idle
  /\ LastEvent = "shutdown" => pc = "ended"
  /\ opts.observe /\ ~stop => StateAfter(LastEvent) = Position

\* Recording an event makes it the last one.
LEMMA AppendLast ==
  ASSUME NEW e, emitted \in Seq({"first-data", "idle", "resume", "shutdown"}),
         e \in {"first-data", "idle", "resume", "shutdown"},
         emitted' = Append(emitted, e)
  PROVE  LastEvent' = e
<1>1. Len(emitted') \in Nat /\ Len(emitted') > 0 /\ emitted'[Len(emitted')] = e
  OBVIOUS
<1>2. emitted' # <<>>
  BY <1>1
<1> QED BY <1>1, <1>2 DEF LastEvent

\* The last event is one of the lifecycle's.
LEMMA LastEventTyping ==
  ASSUME emitted \in Seq({"first-data", "idle", "resume", "shutdown"})
  PROVE  LastEvent \in {"ready", "first-data", "idle", "resume", "shutdown"}
<1>1. CASE emitted = <<>>
  BY <1>1 DEF LastEvent
<1>2. CASE emitted # <<>>
  BY <1>2 DEF LastEvent
<1> QED BY <1>1, <1>2

\* A step that records nothing.
LEMMA SameEvents ==
  ASSUME emitted' = emitted
  PROVE  LastEvent' = LastEvent /\ StateAfter(LastEvent)' = StateAfter(LastEvent)
<1>1. LastEvent' = LastEvent
  BY DEF LastEvent
<1> QED BY <1>1 DEF StateAfter

\* Only two steps record an event: the coordinator handling a transition, and
\* the shutdown event.
LEMMA RecordingSteps ==
  ASSUME TypeOK, [Next]_vars
  PROVE  HandleEvent \/ Shutdown \/ (emitted' = emitted /\ opts' = opts)
<1>1. CASE MainStep
  BY <1>1 DEF MainStep, MainPoll, StartObserve, SelectSignal, SelectEvent, RunHook, HookRan,
     Transitioned, Handled, SelectCopy, CopyEnds, Snapshot, CallHook, hookVars, streamVars, mainVars
<1>2. CASE ObserveIdle \/ ReadInput \/ ObserveOwnStep
  BY <1>2 DEF ObserveOwnStep, ObserveIdle, ReadInput, ReadCheck, ReadPoll, ObserveRead,
     CallbackGivesUp, WritePoll, WriteRequest, WriteResult, ObserveEnd, ObserveReturn,
     ReadChanges, ObsChanges, mainVars, hookVars
<1>3. CASE PumpWrite \/ PumpOwnStep
  BY <1>3 DEF PumpOwnStep, PumpWrite, PumpCheck, PumpSelect, PumpCount, PumpPublish,
     PumpChanges, mainVars, hookVars
<1>4. CASE HookSteps \/ ProcExits \/ SignalArrives \/ UNCHANGED vars
  BY <1>4, OtherSteps DEF streamVars, mainVars
<1> QED BY <1>1, <1>2, <1>3, <1>4 DEF Next, Ended

USE DEF Published!Next, Published!Take, Published!Transitions, Published!lifecycleVars

\* Recording one of Observe's events takes the transition published for it.
LEMMA HandleEventLives ==
  ASSUME IInv, LifeInv, HandleEvent
  PROVE  [Published!Next]_(Published!lifecycleVars) /\ LifeInv'
<1>T. /\ emitted \in Seq({"first-data", "idle", "resume", "shutdown"})
      /\ obs \in Observer /\ stop \in BOOLEAN /\ opts' = opts
  BY Shapes DEF IInv, HandleEvent, hookVars
<1>0. /\ pc = "eventPoll" /\ ~stop /\ obs' = obs /\ obs.pc = "await"
      /\ pc' \notin {"eventPoll", "ended"}
  BY DEF HandleEvent, MainAt, MayAbort, IInv, CoordInv, Returned, Handling,
     IsTransition, Event
<1>1. CASE emitted' = emitted /\ (stop' \/ obs.event = "eos" \/ ~opts.observe)
  BY <1>T, <1>0, <1>1, SameEvents DEF LifeInv, Position, Unrecorded, InCall
<1>2. CASE /\ opts.observe /\ obs.event # "eos"
           /\ emitted' = Append(emitted, EventName[obs.event])
  <2>1. EventName[obs.event] \in {"first-data", "idle", "resume"}
    BY <1>T, <1>2 DEF Observer, Kinds, EventName
  <2>2. LastEvent' = EventName[obs.event]
    BY <1>T, <1>2, <2>1, AppendLast
  <2>3. StateAfter(LastEvent) = CASE obs.event = "bos"    -> "ready"
                                  [] obs.event = "idle"   -> "active"
                                  [] obs.event = "resume" -> "idle"
    BY <1>0, <1>2 DEF LifeInv, Position, Unrecorded
  <2>4. StateAfter(LastEvent)' = StateAfter(LastEvent')
    BY DEF StateAfter
  <2>5. PICK t \in Published!Transitions :
          t.from = StateAfter(LastEvent) /\ t.event = LastEvent' /\ t.to = StateAfter(LastEvent)'
    <3>1. CASE obs.event = "bos"
      <4>1. StateAfter(LastEvent) = "ready" /\ LastEvent' = "first-data"
        BY <2>2, <2>3, <3>1 DEF EventName
      <4>2. StateAfter(LastEvent)' = "active"
        BY <4>1 DEF StateAfter
      <4> QED BY <4>1, <4>2
    <3>2. CASE obs.event = "idle"
      <4>1. StateAfter(LastEvent) = "active" /\ LastEvent' = "idle"
        BY <2>2, <2>3, <3>2 DEF EventName
      <4>2. StateAfter(LastEvent)' = "idle"
        BY <4>1 DEF StateAfter
      <4> QED BY <4>1, <4>2
    <3>3. CASE obs.event = "resume"
      <4>1. StateAfter(LastEvent) = "idle" /\ LastEvent' = "resume"
        BY <2>2, <2>3, <3>3 DEF EventName
      <4>2. StateAfter(LastEvent)' = "active"
        BY <4>1 DEF StateAfter
      <4> QED BY <4>1, <4>2
    <3> QED BY <1>T, <1>2, <3>1, <3>2, <3>3 DEF Observer, Kinds
  <2>6. Published!Next
    BY <2>5
  <2>7. LifeInv'
    BY <1>T, <1>0, <1>2, <2>2, <2>4
       DEF Observer, Kinds, EventName, StateAfter, LifeInv, Position, Unrecorded, InCall
  <2> QED BY <2>6, <2>7
<1>3. \/ emitted' = emitted /\ (stop' \/ obs.event = "eos" \/ ~opts.observe)
      \/ /\ opts.observe /\ obs.event # "eos"
         /\ emitted' = Append(emitted, EventName[obs.event])
  BY DEF HandleEvent, MayAbort, IsTransition, Event, Emit
<1> QED BY <1>1, <1>2, <1>3

\* The shutdown event is published from every state but its own.
LEMMA ShutdownLives ==
  ASSUME IInv, LifeInv, Shutdown
  PROVE  [Published!Next]_(Published!lifecycleVars) /\ LifeInv'
<1>T. /\ emitted \in Seq({"first-data", "idle", "resume", "shutdown"})
      /\ LastEvent \in {"ready", "first-data", "idle", "resume", "shutdown"}
  BY Shapes, LastEventTyping DEF IInv
<1>0. pc = "shutdown" /\ pc' = "ended" /\ stop /\ stop' = stop /\ obs' = obs
  BY DEF Shutdown, MainAt, IInv, CoordInv, Returned
<1>1. LifeInv'
  BY <1>0 DEF LifeInv, InCall
<1>2. CASE emitted' = emitted
  BY <1>1, <1>2, SameEvents
<1>3. CASE emitted' = Append(emitted, "shutdown")
  <2>1. LastEvent' = "shutdown"
    BY <1>T, <1>3, AppendLast
  <2>2. LastEvent # "shutdown"
    BY <1>0 DEF LifeInv
  <2>3. StateAfter(LastEvent)' = "shutdown"
    BY <2>1 DEF StateAfter
  <2>4. StateAfter(LastEvent) \in {"ready", "active", "idle"}
    BY <1>T, <2>2 DEF StateAfter
  <2>5. PICK t \in Published!Transitions :
          t.from = StateAfter(LastEvent) /\ t.event = LastEvent' /\ t.to = StateAfter(LastEvent)'
    BY <2>1, <2>3, <2>4
  <2> QED BY <1>1, <2>5
<1> QED BY <1>2, <1>3 DEF Shutdown, Emit

\* Every other step records nothing, and keeps the place Observe is at.
LEMMA OthersLive ==
  ASSUME IInv, IInv', LifeInv, [Next]_vars, emitted' = emitted, opts' = opts,
         ~HandleEvent, ~Shutdown
  PROVE  LifeInv'
<1> USE DEF InCall, Position, Unrecorded
<1>T. /\ obs \in Observer /\ stop \in BOOLEAN
      /\ LastEvent' = LastEvent /\ StateAfter(LastEvent)' = StateAfter(LastEvent)
      /\ stop <=> pc \in Returned
      /\ pc \in Handling => obs.pc = "await"
      /\ stop' <=> pc' \in Returned
  BY Shapes, SameEvents DEF IInv, CoordInv
<1> USE DEF Returned, Handling
<1>I. /\ obs.idle => obs.begun
      /\ InCall /\ obs.event = "idle" => obs.idle
      /\ InCall /\ obs.event \in {"bos", "resume"} => obs.begun /\ ~obs.idle
      /\ LastEvent = "shutdown" => pc = "ended"
      /\ opts.observe /\ ~stop => StateAfter(LastEvent) = Position
  BY DEF LifeInv
<1>1. CASE MainStep
  <2>1. CASE MainPoll
    BY <1>T, <1>I, <2>1 DEF MainPoll, LifeInv, streamVars, mainVars
  <2>2. CASE StartObserve
    <3>1. /\ pc' \in {"select", "returned"}
          /\ pc = "start" /\ UNCHANGED opts
          /\ obs' = [obs EXCEPT !.pc = "wait"] \/ obs' = obs
      BY <2>2 DEF StartObserve, MainAt, MayAbort, hookVars
    <3>2. /\ obs'.pc \in {obs.pc, "wait"}
          /\ UNCHANGED <<obs.event, obs.begun, obs.idle>>
      BY <1>T, <3>1 DEF Observer
    <3>3. obs.pc = "off"
      BY <3>1 DEF IInv, CoordInv
    <3> QED BY <1>T, <1>I, <3>1, <3>2, <3>3 DEF LifeInv
  <2>3. CASE SelectEvent
    BY <1>T, <1>I, <2>3 DEF SelectEvent, MainAt, CallbackAwaits, LifeInv, Observer
  <2>4. CASE Handled
    BY <1>T, <1>I, <2>4 DEF Handled, MainAt, LifeInv, Observer
  <2>5. CASE \/ SelectSignal \/ RunHook \/ HookRan \/ Transitioned
             \/ SelectCopy \/ CopyEnds \/ Snapshot
    <3>1. /\ pc \notin {"eventPoll", "ended"} /\ pc' \notin {"eventPoll", "ended"}
          /\ UNCHANGED obs
          /\ stop => stop'
      BY <1>T, <2>5 DEF SelectSignal, RunHook, HookRan, Transitioned, SelectCopy, CopyEnds,
         Snapshot, MainAt, MayAbort
    <3> QED BY <1>T, <1>I, <3>1 DEF LifeInv
  <2> QED BY <1>1, <2>1, <2>2, <2>3, <2>4, <2>5 DEF MainStep
<1>2. CASE ObserveIdle \/ ReadInput \/ ObserveOwnStep
  <2>0. UNCHANGED <<pc, stop>>
    BY <1>2 DEF ObserveOwnStep, ObserveIdle, ReadInput, ReadCheck, ReadPoll, ObserveRead,
       CallbackGivesUp, WritePoll, WriteRequest, WriteResult, ObserveEnd, ObserveReturn,
       ReadChanges, ObsChanges, mainVars
  <2>1. CASE UNCHANGED obs
    BY <1>T, <1>I, <2>0, <2>1 DEF LifeInv
  <2>2. CASE ObserveIdle
    BY <1>T, <1>I, <2>0, <2>2 DEF ObserveIdle, Calling, LifeInv, Observer
  <2>3. CASE ObserveRead
    BY <1>T, <1>I, <2>0, <2>3 DEF ObserveRead, Calling, Ending, LifeInv, Observer
  <2>4. CASE CallbackGivesUp
    BY <1>T, <1>I, <2>0, <2>4 DEF CallbackGivesUp, Abandons, LifeInv, Observer
  <2>5. CASE ObserveEnd
    BY <1>T, <1>I, <2>0, <2>5 DEF ObserveEnd, Calling, LifeInv, Observer
  <2>6. CASE WritePoll \/ WriteRequest \/ WriteResult \/ ObserveReturn
    <3>1. /\ ~InCall /\ obs'.pc \notin {"offer", "await"}
          /\ UNCHANGED <<obs.begun, obs.idle>>
      <4>1. /\ obs.pc \in {"write", "request", "result", "return"}
            /\ \/ obs' = obs
               \/ \E e \in CopyErrors \cup ReadErrors : obs' = Ending(e)
               \/ \E p \in {"request", "result", "wait", "done"} : obs' = [obs EXCEPT !.pc = p]
        BY <2>6, Shapes DEF IInv, WritePoll, WriteRequest, WriteResult, ReadNext,
           ObserveReturn,
           Reader, ReadErrors, CopyErrors
      <4> QED BY <1>T, <4>1 DEF Ending, Observer
    <3> QED BY <1>T, <1>I, <2>0, <3>1 DEF LifeInv
  <2> QED
    BY <1>2, <2>1, <2>2, <2>3, <2>4, <2>5, <2>6 DEF ObserveOwnStep, ReadInput, ReadCheck,
       ReadPoll, ReadChanges
<1>3. CASE PumpWrite \/ PumpOwnStep
  BY <1>T, <1>I, <1>3 DEF PumpOwnStep, PumpWrite, PumpCheck, PumpSelect, PumpCount,
     PumpPublish,
     PumpChanges, mainVars, LifeInv
<1>4. CASE HookSteps \/ ProcExits \/ SignalArrives \/ UNCHANGED vars
  BY <1>T, <1>I, <1>4 DEF HookSteps, ProcExits, SignalArrives, vars, streamVars,
     mainVars, LifeInv
<1> QED BY <1>1, <1>2, <1>3, <1>4 DEF Next, Ended, MainStep

\* Observe's place in the lifecycle agrees with the recorded events in every
\* reachable state.
LEMMA LifeInvariant == Spec => []LifeInv
<1>1. Init => LifeInv
  BY DEF Init, LifeInv, InCall, Position, Unrecorded, LastEvent, StateAfter
<1>2. IInv /\ IInv' /\ LifeInv /\ [Next]_vars => LifeInv'
  BY RecordingSteps, HandleEventLives, ShutdownLives, OthersLive DEF IInv
<1> QED BY <1>1, <1>2, Inductive, PTL DEF Spec

\* The events a run with --idle records are a path of the lifecycle that
\* --describe publishes: every step takes one of its transitions or none.
THEOREM LifecycleImplemented == Spec => ImplementsLifecycle
<1>1. IInv /\ IInv' /\ LifeInv /\ [Next]_vars
        => [Published!Next]_(Published!lifecycleVars)
  <2> SUFFICES ASSUME IInv, IInv', LifeInv, [Next]_vars
               PROVE  [Published!Next]_(Published!lifecycleVars)
    OBVIOUS
  <2>1. CASE emitted' = emitted
    BY <2>1, SameEvents
  <2> QED BY <2>1, RecordingSteps, HandleEventLives, ShutdownLives DEF IInv
<1> QED BY <1>1, Inductive, LifeInvariant, PTL DEF Spec, ImplementsLifecycle
=============================================================================

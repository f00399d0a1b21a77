------------------------------ MODULE IdleCopy -------------------------------
(***************************************************************************)
(* Copying with --idle (idle_copy.go): three goroutines instead of two.    *)
(*                                                                         *)
(*   main  the coordinator (idleCopyRunner), which runs hooks and owns the *)
(*         lifecycle; it closes `stop` when it returns                     *)
(*   obs   khsier.Observe, a library: reads the input, times idle windows, *)
(*         calls the callback for each event and writes each chunk         *)
(*   pump  idleWritePump, the only writer of stdout                        *)
(*                                                                         *)
(* Observe is modelled from how the code uses it.  One chunk is in flight  *)
(* at a time, in a buffer the three share.  Bytes are named by their place *)
(* in the input.  Asynchronous hooks return at once: AsyncHooks is their   *)
(* module, and here --on-idle.async is an event without a hook.            *)
(***************************************************************************)
EXTENDS HookRunner, Sequences

CONSTANTS Configs,    \* the command lines a run may start with
          MaxBytes,   \* bound: bytes the producer sends
          MaxChunk    \* bound: bytes one read returns

ASSUME ProcsAssumption     == Procs = {"main", "obs"}
ASSUME HookNamesAssumption == HookNames = {"on-first-data", "on-idle", "on-resume"}
ASSUME ConfigsAssumption   == Configs \subseteq Options
ASSUME BytesAssumption     == MaxBytes \in Nat /\ MaxChunk \in Nat

VARIABLES pc,        \* coordinator
          done,      \* runner.done
          stop,      \* writer.stop is closed
          ctx,       \* the frozen shutdown context
          emitted,   \* lifecycle events recorded
          obs,       \* the goroutine of Observe, with the callback and Write
          rd,        \* its reader, with Read and the buffer it fills
          copyDone,  \* the copyDone channel
          pump,      \* idleWritePump: its goroutine and its two channels
          nread,     \* bytes taken from stdin
          out,       \* what stdout has received
          bytes      \* lifecycleState.bytes

mainVars   == <<pc, done, stop, ctx, emitted>>
streamVars == <<mainVars, obs, rd, copyDone, pump, nread, out, bytes>>
vars       == <<streamVars, hookVars, signalVars>>

PollPoints == {"start", "eventPoll", "prePoll", "postPoll", "copyPoll"}
MainPCs == PollPoints \cup {"select", "taken", "ran", "handled", "returned",
                            "shutdown", "ended"}
ReadErrors  == {"none", "eof", "io"}
WriteErrors == {"none", "pipe", "io"}
CopyErrors  == {"none", "io", "pipe", "stopped"}
Kinds       == {"bos", "idle", "resume", "eos"}
EventName   == [bos |-> "first-data", idle |-> "idle", resume |-> "resume"]
HookName    == [bos |-> "on-first-data", idle |-> "on-idle", resume |-> "on-resume"]

Completion == [signal : Signals, copyErr : CopyErrors \ {"stopped"}, firstFailed : BOOLEAN,
               idleErr : BOOLEAN, resumeErr : BOOLEAN]
Observer ==
  [pc : {"off", "wait", "offer", "await", "write", "request", "result", "end",
         "return", "done"},
   event : Kinds,                       \* the event the callback was given
   next : {"wait", "write", "return"},  \* where the callback returns to
   err : CopyErrors,                    \* what Observe will return
   begun : BOOLEAN,                     \* BOS was sent
   idle : BOOLEAN]                      \* idle was sent in this window
Reader == [pc : {"off", "check", "poll", "reading", "ready"}, n : Nat,
           err : ReadErrors \cup {"stopped"}]
Pump   == [pc : {"check", "select", "write", "count", "publish", "exit"},
           left : Nat,                  \* bytes of the chunk still to write
           err : WriteErrors,           \* how the last Write ended
           queued : BOOLEAN,            \* requests holds a chunk
           result : WriteErrors \cup {"empty"}]

TypeOK ==
  /\ SignalTypeOK
  /\ HookTypeOK
  /\ opts \in Configs
  /\ pc \in MainPCs
  /\ done \in Completion
  /\ stop \in BOOLEAN
  /\ ctx \in [reason : {"unset", "signal", "eof", "omitted", "broken-pipe", "io-error"},
              bytes : Nat]
  /\ emitted \in Seq({"first-data", "idle", "resume", "shutdown"})
  /\ obs \in Observer
  /\ rd \in Reader
  /\ copyDone \in CopyErrors \cup {"empty"}
  /\ pump \in Pump
  /\ nread \in Nat
  /\ out \in Seq(Int)
  /\ bytes \in Nat

Init ==
  /\ SignalInit
  /\ HookInit
  /\ opts \in Configs
  /\ pc = "start"
  /\ done = [signal |-> 0, copyErr |-> "none", firstFailed |-> FALSE,
             idleErr |-> FALSE, resumeErr |-> FALSE]
  /\ stop = FALSE
  /\ ctx = [reason |-> "unset", bytes |-> 0]
  /\ emitted = <<>>
  /\ obs = [pc |-> "off", event |-> "bos", next |-> "wait", err |-> "none",
            begun |-> FALSE, idle |-> FALSE]
  /\ rd = [pc |-> "off", n |-> 0, err |-> "none"]
  /\ copyDone = "empty"
  /\ pump = [pc |-> "check", left |-> 0, err |-> "none", queued |-> FALSE,
             result |-> "empty"]
  /\ nread = 0
  /\ out = <<>>
  /\ bytes = 0

MainAt(at) == pc = at /\ ~InHook("main")

\* The event being handled, and whether a synchronous hook is set for it.
Event == obs.event
HasHook == Configured(HookName[Event])

\* state.emit and reporter.event.
Emit(e) == emitted' = IF opts.observe THEN Append(emitted, e) ELSE emitted

\* completionReason.
Reason ==
  IF done.signal # 0 THEN "signal"
  ELSE CASE done.copyErr = "pipe"                     -> "broken-pipe"
         [] done.copyErr = "io"                       -> "io-error"
         [] done.copyErr = "none" /\ done.firstFailed -> "omitted"
         [] OTHER                                     -> "eof"
-----------------------------------------------------------------------------
(* The coordinator. *)

\* A poll of the coordinator is over.  abortForSignal ends the copy when a
\* signal is remembered: the pump is stopped and the input closed, which makes
\* a pending read fail (ReadInput allows that at any time).
MayAbort(next) ==
  IF first # 0
    THEN pc' = "returned" /\ done' = [done EXCEPT !.signal = first] /\ stop' = TRUE
    ELSE pc' = next /\ UNCHANGED <<done, stop>>

\* One turn of pollSignal.
MainPoll ==
  /\ pc \in PollPoints /\ ~InHook("main")
  /\ PollStep("main")
  /\ UNCHANGED <<streamVars, hookVars>>

\* The poll before Observe is started.
StartObserve ==
  /\ MainAt("start") /\ Drained("main")
  /\ MayAbort("select")
  /\ IF pc' = "select"
       THEN /\ obs' = [obs EXCEPT !.pc = "wait"]
            /\ rd' = [rd EXCEPT !.pc = "check"]
       ELSE UNCHANGED <<obs, rd>>
  /\ UNCHANGED <<ctx, emitted, copyDone, pump, nread, out, bytes,
                 hookVars, signalVars>>

\* case sig := <-tracker.signals
SelectSignal ==
  \/ /\ MainAt("select") /\ Receive("main")
     /\ pc' = "taken"
     /\ UNCHANGED <<done, stop>>
     /\ UNCHANGED <<ctx, emitted, obs, rd, copyDone, pump, nread, out, bytes, hookVars>>
  \/ /\ MainAt("taken") /\ Remember("main")
     /\ pc' = "returned"
     /\ done' = [done EXCEPT !.signal = first']
     /\ stop' = TRUE
     /\ UNCHANGED <<ctx, emitted, obs, rd, copyDone, pump, nread, out, bytes, hookVars>>

\* case event := <-events: the callback, which is offering it, goes on to wait
\* for `handled`.
CallbackReturns == obs.next             \* fault: `handled` is not awaited
CallbackAwaits == "await"

SelectEvent ==
  /\ MainAt("select") /\ obs.pc = "offer"
  /\ pc' = "eventPoll"
  /\ obs' = [obs EXCEPT !.pc = CallbackAwaits]
  /\ UNCHANGED <<done, stop, ctx, emitted, rd, copyDone, pump, nread, out, bytes,
                 hookVars, signalVars>>

\* handleEvent up to a hook's call.  Events that end in a poll go there even
\* without a hook; BOS does not; EOS is not a transition.
IdleForEOS == TRUE                        \* fault: EOS is taken for a transition
IsTransition == Event # "eos"

HandleEvent ==
  /\ MainAt("eventPoll") /\ Drained("main")
  /\ MayAbort(IF ~IsTransition THEN "handled"
              ELSE IF Event # "eos" /\ HasHook THEN "prePoll"
              ELSE IF Event = "bos" THEN "handled" ELSE "postPoll")
  /\ IF first = 0 /\ IsTransition
       THEN Emit(IF Event = "eos" THEN "idle" ELSE EventName[Event])
       ELSE UNCHANGED emitted
  /\ UNCHANGED <<ctx, obs, rd, copyDone, pump, nread, out, bytes, hookVars, signalVars>>

\* The poll before a hook, and the hook's call.
RunHook ==
  /\ MainAt("prePoll") /\ Drained("main")
  /\ MayAbort("ran")
  /\ IF first = 0 THEN CallHook("main", HookName[Event]) ELSE UNCHANGED hookVars
  /\ UNCHANGED <<ctx, emitted, obs, rd, copyDone, pump, nread, out, bytes, signalVars>>

\* The hook returned: its error is kept for the exit status.
HookRan ==
  /\ MainAt("ran")
  /\ LET failed == HookError(HookName[Event]) IN
     done' = CASE Event = "bos"    -> [done EXCEPT !.firstFailed = failed]
               [] Event = "idle"   -> [done EXCEPT !.idleErr = @ \/ failed]
               [] Event = "resume" -> [done EXCEPT !.resumeErr = @ \/ failed]
  /\ pc' = "postPoll"
  /\ UNCHANGED <<stop, ctx, emitted, obs, rd, copyDone, pump, nread, out, bytes,
                 hookVars, signalVars>>

\* The poll after the transition.
Transitioned ==
  /\ MainAt("postPoll") /\ Drained("main")
  /\ MayAbort("handled")
  /\ UNCHANGED <<ctx, emitted, obs, rd, copyDone, pump, nread, out, bytes,
                 hookVars, signalVars>>

\* handled <- struct{}{}: the callback returns to Observe.
Handled ==
  /\ MainAt("handled") /\ obs.pc = "await"
  /\ pc' = "select"
  /\ obs' = [obs EXCEPT !.pc = obs.next]
  /\ UNCHANGED <<done, stop, ctx, emitted, rd, copyDone, pump, nread, out, bytes,
                 hookVars, signalVars>>

\* case err := <-copyDone
SelectCopy ==
  /\ MainAt("select") /\ copyDone # "empty"
  /\ pc' = "copyPoll"
  /\ UNCHANGED <<done, stop, ctx, emitted, obs, rd, copyDone, pump, nread, out,
                 bytes, hookVars, signalVars>>

\* The poll after it: a signal wins, errIdleStopped is no copy error.
RawError == copyDone                      \* fault: errIdleStopped is reported
CopyError == IF copyDone = "stopped" THEN "none" ELSE copyDone

CopyEnds ==
  /\ MainAt("copyPoll") /\ Drained("main")
  /\ pc' = "returned"
  /\ done' = IF first # 0 THEN [done EXCEPT !.signal = first]
             ELSE [done EXCEPT !.copyErr = CopyError]
  /\ stop' = TRUE
  /\ copyDone' = "empty"
  /\ UNCHANGED <<ctx, emitted, obs, rd, pump, nread, out, bytes, hookVars, signalVars>>

\* runIdleCopy has returned: snapshotShutdownContext.
Snapshot ==
  /\ MainAt("returned")
  /\ ctx' = [reason |-> Reason, bytes |-> bytes]
  /\ pc' = "shutdown"
  /\ UNCHANGED <<done, stop, emitted, obs, rd, copyDone, pump, nread, out, bytes,
                 hookVars, signalVars>>

\* The shutdown event.
Shutdown ==
  /\ MainAt("shutdown")
  /\ Emit("shutdown")
  /\ pc' = "ended"
  /\ UNCHANGED <<done, stop, ctx, obs, rd, copyDone, pump, nread, out, bytes,
                 hookVars, signalVars>>

MainStep ==
  \/ MainPoll \/ StartObserve \/ SelectSignal \/ SelectEvent \/ HandleEvent
  \/ RunHook \/ HookRan \/ Transitioned \/ Handled \/ SelectCopy \/ CopyEnds
  \/ Snapshot \/ Shutdown
-----------------------------------------------------------------------------
(* idleObservedStream.Read, called by Observe's reader. *)

ReadChanges == UNCHANGED <<mainVars, obs, copyDone, pump, out, bytes, hookVars>>

\* No new read once the copy is stopped ...
ReadCheck ==
  /\ rd.pc = "check"
  /\ rd' = IF stop THEN [pc |-> "ready", n |-> 0, err |-> "stopped"]
           ELSE [rd EXCEPT !.pc = "poll"]
  /\ ReadChanges /\ UNCHANGED <<nread, signalVars>>

\* ... or a signal was accepted.
PollIgnored == FALSE                      \* fault: what poll returns is unused
SignalPolled == first # 0

ReadPoll ==
  /\ rd.pc = "poll"
  /\ \/ PollStep("obs") /\ UNCHANGED rd
     \/ /\ Drained("obs")
        /\ rd' = IF SignalPolled THEN [pc |-> "ready", n |-> 0, err |-> "stopped"]
                 ELSE [rd EXCEPT !.pc = "reading"]
        /\ UNCHANGED signalVars
  /\ ReadChanges /\ UNCHANGED nread

\* stream.in.Read: some bytes, an error, or both.
ReadInput ==
  /\ rd.pc = "reading"
  /\ \E n \in 0..MaxChunk, e \in ReadErrors :
       /\ n > 0 \/ e # "none"
       /\ nread + n <= MaxBytes
       /\ nread' = nread + n
       /\ rd' = [pc |-> "ready", n |-> n, err |-> e]
  /\ ReadChanges /\ UNCHANGED signalVars

-----------------------------------------------------------------------------
(* khsier.Observe (external), its callback, and idleObservedStream.Write.  *)

ObsChanges == UNCHANGED <<mainVars, nread, out, bytes, hookVars>>

\* Observe is about to return err.
Ending(err) == [obs EXCEPT !.pc = "end", !.err = err]

\* The callback is called with an event.
Calling(event, next) == [obs EXCEPT !.pc = "offer", !.event = event, !.next = next]

\* The idle window passes, after the first data, once until data arrives.
ObserveIdle ==
  /\ obs.pc = "wait" /\ obs.begun /\ ~obs.idle
  /\ obs' = [Calling("idle", "wait") EXCEPT !.idle = TRUE]
  /\ ObsChanges /\ UNCHANGED <<rd, copyDone, pump, signalVars>>

\* A read returned: BOS for the first data, resume for data after idle, then
\* the chunk is written; without data Observe ends.
ObserveRead ==
  /\ obs.pc = "wait" /\ rd.pc = "ready"
  /\ obs' = IF rd.n = 0
              THEN Ending(IF rd.err = "eof" THEN "none" ELSE rd.err)
            ELSE IF ~obs.begun
              THEN [Calling("bos", "write") EXCEPT !.begun = TRUE]
            ELSE IF obs.idle
              THEN [Calling("resume", "write") EXCEPT !.idle = FALSE]
            ELSE [obs EXCEPT !.pc = "write"]
  /\ rd' = [rd EXCEPT !.pc = "off"]
  /\ ObsChanges /\ UNCHANGED <<copyDone, pump, signalVars>>

\* The callback gives up when the copy is stopped; Observe does not know.
OfferForever == FALSE                     \* fault: it waits for the coordinator
Abandons == stop

CallbackGivesUp ==
  /\ obs.pc \in {"offer", "await"} /\ Abandons
  /\ obs' = [obs EXCEPT !.pc = obs.next]
  /\ ObsChanges /\ UNCHANGED <<rd, copyDone, pump, signalVars>>

\* Write's two checks: no new write once a signal was accepted or the copy is
\* stopped.
WritePoll ==
  /\ obs.pc = "write"
  /\ \/ PollStep("obs") /\ UNCHANGED obs
     \/ /\ Drained("obs")
        /\ obs' = IF first # 0 \/ stop THEN Ending("stopped")
                  ELSE [obs EXCEPT !.pc = "request"]
        /\ UNCHANGED signalVars
  /\ ObsChanges /\ UNCHANGED <<rd, copyDone, pump>>

\* pump.request: the slot is free, and the stop may win the select.
WriteRequest ==
  /\ obs.pc = "request"
  /\ \/ /\ ~pump.queued
        /\ pump' = [pump EXCEPT !.queued = TRUE]
        /\ obs' = [obs EXCEPT !.pc = "result"]
     \/ /\ stop
        /\ obs' = Ending("stopped")
        /\ UNCHANGED pump
  /\ ObsChanges /\ UNCHANGED <<rd, copyDone, signalVars>>

\* The next read of Observe, after a chunk was written without an error.
ReadNext ==
  IF rd.err = "none"
    THEN obs' = [obs EXCEPT !.pc = "wait"] /\ rd' = [rd EXCEPT !.pc = "check"]
    ELSE obs' = Ending(IF rd.err = "eof" THEN "none" ELSE rd.err) /\ UNCHANGED rd

\* Write returns: a write error first, then the end of a copy whose first-data
\* hook failed, which keeps the error that came with the chunk.
FailureForgotten == FALSE                 \* fault: the failed hook stops nothing
StopsAfterChunk == done.firstFailed

\* The pump has published the result of the write.
NotAwaited == TRUE                        \* fault: Write returns at once
Answered == pump.result # "empty"

WriteResult ==
  /\ obs.pc = "result"
  /\ \/ /\ Answered
        /\ pump' = [pump EXCEPT !.result = "empty"]
        /\ IF pump.result \in {"pipe", "io"}
             THEN obs' = Ending(pump.result) /\ UNCHANGED rd
           ELSE IF StopsAfterChunk
             THEN obs' = Ending(IF rd.err = "io" THEN "io" ELSE "stopped") /\ UNCHANGED rd
           ELSE ReadNext
     \/ /\ stop
        /\ obs' = Ending("stopped")
        /\ UNCHANGED <<rd, pump>>
  /\ ObsChanges /\ UNCHANGED <<copyDone, signalVars>>

\* Observe ends: it may send EOS, then its error goes to copyDone.
ObserveEnd ==
  /\ obs.pc = "end"
  /\ \/ obs' = Calling("eos", "return")
     \/ obs' = [obs EXCEPT !.pc = "return"]
  /\ ObsChanges /\ UNCHANGED <<rd, copyDone, pump, signalVars>>

ObserveReturn ==
  /\ obs.pc = "return"
  /\ obs' = [obs EXCEPT !.pc = "done"]
  /\ copyDone' = obs.err
  /\ ObsChanges /\ UNCHANGED <<rd, pump, signalVars>>

ObserveOwnStep ==
  \/ ReadCheck \/ ReadPoll \/ ObserveRead \/ CallbackGivesUp \/ WritePoll
  \/ WriteRequest \/ WriteResult \/ ObserveEnd \/ ObserveReturn
-----------------------------------------------------------------------------
(* idleWritePump.write and writeIdleChunk. *)

PumpChanges == UNCHANGED <<mainVars, obs, rd, copyDone, nread, hookVars, signalVars>>

\* The check of stop, before a request is selected and before a result is
\* published.
PumpStops == stop

PumpCheck ==
  /\ pump.pc = "check"
  /\ pump' = [pump EXCEPT !.pc = IF PumpStops THEN "exit" ELSE "select"]
  /\ PumpChanges /\ UNCHANGED <<out, bytes>>

\* Both cases of the select may be ready, and Go takes either.
PumpSelect ==
  /\ pump.pc = "select"
  /\ \/ /\ pump.queued
        /\ pump' = [pump EXCEPT !.pc = "write", !.queued = FALSE, !.left = rd.n]
     \/ /\ stop
        /\ pump' = [pump EXCEPT !.pc = "exit"]
  /\ PumpChanges /\ UNCHANGED <<out, bytes>>

\* One out.Write of what is left of the chunk: any part of it, or an error.
PumpWrite ==
  /\ pump.pc = "write"
  /\ \E k \in 0..pump.left, e \in WriteErrors :
       /\ out' = out \o [i \in 1..k |-> nread - pump.left + i]
       /\ pump' = [pump EXCEPT !.pc = "count", !.left = @ - k,
                     !.err = IF e = "none" /\ k = 0 THEN "io" ELSE e]
  /\ PumpChanges /\ UNCHANGED bytes

\* countingWriter counts it; a short write without an error goes on with the
\* rest, and a write of nothing is ErrShortWrite.
ChunkDone == TRUE                         \* fault: a short write ends the chunk
ChunkOver == pump.err # "none" \/ pump.left = 0

PumpCount ==
  /\ pump.pc = "count"
  /\ bytes' = Len(out)
  /\ pump' = [pump EXCEPT !.pc = IF ChunkOver THEN "publish" ELSE "write"]
  /\ PumpChanges /\ UNCHANGED out

PumpPublish ==
  /\ pump.pc = "publish"
  /\ pump' = IF PumpStops THEN [pump EXCEPT !.pc = "exit"]
             ELSE [pump EXCEPT !.pc = "check", !.result = pump.err]
  /\ PumpChanges /\ UNCHANGED <<out, bytes>>

PumpOwnStep == PumpCheck \/ PumpSelect \/ PumpCount \/ PumpPublish

-----------------------------------------------------------------------------
HookSteps == HookStep("main") /\ UNCHANGED streamVars
ProcExits == ProcExit("main") /\ UNCHANGED streamVars
SignalArrives == pc # "ended" /\ Deliver /\ UNCHANGED <<streamVars, hookVars>>

\* The copy is over.
Ended == pc = "ended" /\ UNCHANGED vars

Next ==
  \/ MainStep
  \/ ObserveIdle \/ ReadInput \/ ObserveOwnStep
  \/ PumpWrite \/ PumpOwnStep
  \/ HookSteps \/ ProcExits \/ SignalArrives
  \/ Ended

Spec == Init /\ [][Next]_vars

\* Goroutines are scheduled and a hook's process ends; nothing makes the
\* producer send, the consumer accept, a timer fire or a signal arrive.
FairSpec ==
  /\ Spec
  /\ WF_vars(MainStep) /\ WF_vars(ObserveOwnStep) /\ WF_vars(PumpOwnStep)
  /\ WF_vars(HookSteps) /\ WF_vars(ProcExits)

\* The producer closes stdin at last, or closing the input ends its read, and
\* the consumer keeps reading: an assumption of properties, not of FairSpec.
StreamMoves == WF_vars(ReadInput) /\ WF_vars(PumpWrite)

-----------------------------------------------------------------------------
(* What makes copying with --idle correct. *)

PumpHoldsBuffer == pump.queued \/ pump.pc \in {"write", "count", "publish"}

\* stdout holds the producer's bytes in order, without gap or repetition, when
\* consumers take a chunk in parts; and a run that reports "eof" forwarded all
\* of the input.
OutputFaithful ==
  /\ \A i \in DOMAIN out : out[i] = i
  /\ ctx.reason = "eof" => Len(out) = nread /\ rd.err = "eof"

\* "Observe must wait until the transition finishes before forwarding its
\* pending chunk" (idle_copy.go:187): while the coordinator handles an event
\* and runs its hook, the pump has nothing to write.
TransitionBeforeChunk ==
  pc \in {"eventPoll", "prePoll", "ran", "postPoll", "handled"} => ~PumpHoldsBuffer

\* "this worker never writes ahead of the coordinator" (idle_copy.go:88): one
\* buffer serves reader and pump, and no read fills it while the pump may
\* still write from it, an abandoned write included.
BufferHasOneUser ==
  PumpHoldsBuffer => rd.pc # "reading"

\* A failed first-data hook ends the copy after the chunk that triggered it:
\* no second read, no idle window (idle_copy.go:62), and "io-error" is kept
\* for an error that came with the chunk or from writing it.
FailedFirstDataStops ==
  done.firstFailed =>
    /\ rd.pc = "off"
    /\ \A i \in DOMAIN emitted : emitted[i] \notin {"idle", "resume"}
    /\ ctx.reason \in {"unset", "omitted", "signal", "io-error", "broken-pipe"}
    /\ ctx.reason = "omitted" => Len(out) = nread

\* Once a run ends other than by a signal nothing is written any more, so the
\* shutdown context's byte count is what stdout received for good.
QuietAfterCompletion ==
  ctx.reason \notin {"unset", "signal"} => ctx.bytes = Len(out) /\ ~PumpHoldsBuffer

\* The recorded events are a path of the lifecycle that --describe publishes,
\* from "ready", the event recorded before copying starts.
StateAfter(e) ==
  CASE e = "ready"                    -> "ready"
    [] e \in {"first-data", "resume"} -> "active"
    [] e = "idle"                     -> "idle"
    [] e = "shutdown"                 -> "shutdown"
LastEvent == IF emitted = <<>> THEN "ready" ELSE emitted[Len(emitted)]
Published == INSTANCE LifecycleMachine WITH state <- StateAfter(LastEvent),
                                            event <- LastEvent
ImplementsLifecycle == [][Published!Next]_(Published!lifecycleVars)

\* A handled signal ends the copy, with a producer that sends nothing more and
\* a consumer that accepts nothing, whichever goroutine took the signal.
SignalEndsRun == (chan # 0 \/ first # 0) ~> pc = "ended"

\* Where reads and writes return, the copy ends, and neither the pump nor
\* Observe's goroutine is left behind waiting for a coordinator that has gone.
NobodyLeftBehind ==
  StreamMoves =>
    <>[](pc = "ended" /\ obs.pc \in {"off", "done"} /\ pump.pc = "exit")
=============================================================================

---------------------------- MODULE Passthrough -----------------------------
(***************************************************************************)
(* A run of pipewisp without --idle (run.go, runWithOptions): the main     *)
(* goroutine, which owns the lifecycle, and the copy goroutine, which      *)
(* moves stdin to stdout through firstDataReader (first_data.go) and       *)
(* countingWriter (lifecycle_state.go).  They meet in the copyDone         *)
(* channel, in firstDataReader's mutex and `finished` channel, and in the  *)
(* signal tracker; each also runs hooks (HookRunner).                      *)
(*                                                                         *)
(* Bytes are named by their place in the input: the producer sends 1, 2,   *)
(* 3, ... up to MaxBytes, in reads of at most MaxChunk.                    *)
(***************************************************************************)
EXTENDS HookRunner, Sequences

CONSTANTS Configs,    \* the command lines a run may start with
          MaxBytes,   \* bound: bytes the producer sends
          MaxChunk    \* bound: bytes one read returns

ASSUME ProcsAssumption     == Procs = {"main", "copy"}
ASSUME HookNamesAssumption == HookNames = {"on-ready", "on-first-data", "on-shutdown"}
ASSUME ConfigsAssumption   == Configs \subseteq Options
ASSUME BytesAssumption     == MaxBytes \in Nat /\ MaxChunk \in Nat

VARIABLES pc,          \* main goroutine's control point
          doneSignal,  \* completion.signal, 0 for nil
          copyErr,     \* completion.copyErr
          hookFailed,  \* completion.firstDataHookFailed
          kind,        \* completionKind chosen by finishCompletionWithTracker
          ctx,         \* shutdownContext: its reason and byte count
          status,      \* the exit status, "running" before runWithOptions returns
          cpc,         \* copy goroutine's control point
          nread,       \* bytes taken from stdin
          chunk,       \* bytes of the current read still to be written
          rerr,        \* error that accompanies the current read
          werr,        \* error of the current write
          copyDone,    \* the copyDone channel: "empty" or the copy's error
          fd,          \* firstDataReader's flags
          out,         \* what stdout has received
          bytes,       \* lifecycleState.bytes
          emitted      \* lifecycle events recorded (verbose and --events-fd)

mainVars   == <<pc, doneSignal, copyErr, hookFailed, kind, ctx, status>>
copyVars   == <<cpc, nread, chunk, rerr, werr, out, bytes>>
sharedVars == <<copyDone, fd, emitted>>
streamVars == <<mainVars, copyVars, sharedVars>>
vars       == <<streamVars, hookVars, signalVars>>

PollPoints == {"readyFailed", "readyPoll", "waitPoll", "copyPoll",
               "finishPoll", "lastPoll"}
MainPCs == PollPoints \cup {"start", "readyDone", "select", "taken",
                            "snapshot", "cancel", "await", "shutdown",
                            "returned"}
CopyPCs == {"off", "read", "gate", "event", "ungate", "write", "count",
            "finish", "done"}
ReadErrors  == {"none", "eof", "io"}
WriteErrors == {"none", "pipe", "io"}
CopyErrors  == {"none", "io", "pipe", "hook", "hook+io", "canceled"}
Reasons     == {"unset", "eof", "signal", "broken-pipe", "io-error", "omitted"}
Kinds       == {"success", "copy-error", "broken-pipe", "signal"}
Events      == {"ready", "first-data", "shutdown"}
FirstDataFlags == [running : BOOLEAN, canceled : BOOLEAN, done : BOOLEAN, failed : BOOLEAN]

TypeOK ==
  /\ SignalTypeOK
  /\ HookTypeOK
  /\ opts \in Configs
  /\ pc \in MainPCs
  /\ doneSignal \in Signals
  /\ copyErr \in CopyErrors
  /\ hookFailed \in BOOLEAN
  /\ kind \in Kinds
  /\ ctx \in [reason : Reasons, bytes : Nat]
  /\ status \in {"running", "ok", "failed", "signal"}
  /\ cpc \in CopyPCs
  /\ nread \in Nat
  /\ chunk \in Nat
  /\ rerr \in ReadErrors \cup CopyErrors
  /\ werr \in WriteErrors
  /\ copyDone \in CopyErrors \cup {"empty"}
  /\ fd \in FirstDataFlags
  /\ out \in Seq(Int)
  /\ bytes \in Nat
  /\ emitted \in Seq(Events)

Init ==
  /\ SignalInit
  /\ HookInit
  /\ opts \in Configs
  /\ pc = "start"
  /\ doneSignal = 0
  /\ copyErr = "none"
  /\ hookFailed = FALSE
  /\ kind = "success"
  /\ ctx = [reason |-> "unset", bytes |-> 0]
  /\ status = "running"
  /\ cpc = "off"
  /\ nread = 0
  /\ chunk = 0
  /\ rerr = "none"
  /\ werr = "none"
  /\ copyDone = "empty"
  /\ fd = [running |-> FALSE, canceled |-> FALSE, done |-> FALSE, failed |-> FALSE]
  /\ out = <<>>
  /\ bytes = 0
  /\ emitted = <<>>

\* The input is wrapped in a firstDataReader.
UsesFirstData == Configured("on-first-data") \/ opts.observe

\* `firstData != nil`: the wrapper exists only once copying was set up.
FirstDataExists == UsesFirstData /\ cpc # "off"

Running == status = "running"
MainActs == Running /\ ~InHook("main")
CopyActs == Running /\ ~InHook("copy")

\* state.emit and reporter.event: a record only with --verbose or --events-fd.
Emit(e) == emitted' = IF opts.observe THEN Append(emitted, e) ELSE emitted

\* completionReason.
Reason(sig, err) ==
  IF sig # 0 THEN "signal"
  ELSE CASE err = "none"    -> "eof"
         [] err = "hook"    -> "omitted"
         [] err = "pipe"    -> "broken-pipe"
         [] OTHER           -> "io-error"

\* classifyCompletion.
Classify(sig, err) ==
  IF sig # 0 THEN "signal"
  ELSE CASE err = "none"    -> "success"
         [] err = "pipe"    -> "broken-pipe"
         [] OTHER           -> "copy-error"
\* `if sig := tracker.poll(); sig != nil { done.signal = sig }`
StaleSignal == doneSignal               \* fault: the recheck is forgotten
PolledSignal == IF first # 0 THEN first ELSE doneSignal

\* Where main goes after a poll that may end the run.
IgnoringSignal(next) == next            \* fault: the polled signal is dropped
AfterPoll(next) == IF first # 0 THEN "snapshot" ELSE next

\* `if firstData.cancel() { <-firstData.finished }`
NotAwaiting == "shutdown"               \* fault: a running hook is not awaited
AfterCancel == IF fd.running THEN "await" ELSE "shutdown"

\* firstDataReader once its hook returned.
FinishedUnlessCanceled ==               \* fault: `finished` stays open on cancel
  [fd EXCEPT !.running = fd.canceled, !.failed = HookError("on-first-data")]
Finished == [fd EXCEPT !.running = FALSE, !.failed = HookError("on-first-data")]

\* What Read returns with the first bytes when their hook returned.
FirstBytesDropped == IF HookError("on-first-data") THEN 0 ELSE chunk  \* fault
FirstBytes == chunk

\* The bytes countingWriter has counted after a write.
CountAttempt == bytes + chunk           \* fault: the attempt is counted
Counted == Len(out)

\* io.Copy goes on after a write.
GoesOnAfterShortWrite == rerr = "none"  \* fault: the write's result is unused
GoesOn == werr = "none" /\ rerr = "none"

\* io.Copy's result does not report EOF.
RawError == rerr                        \* fault: EOF is an error
CopyResult == IF rerr = "eof" THEN "none" ELSE rerr
-----------------------------------------------------------------------------
(* The main goroutine. *)

\* The ready event and, when configured, the ready hook.
Ready ==
  /\ MainActs /\ pc = "start"
  /\ Emit("ready")
  /\ IF Configured("on-ready")
       THEN CallHook("main", "on-ready") /\ pc' = "readyDone"
       ELSE UNCHANGED hookVars /\ pc' = "readyPoll"
  /\ UNCHANGED <<doneSignal, copyErr, hookFailed, kind, ctx, status,
                 copyVars, copyDone, fd, signalVars>>

\* hooks.run returned.
ReadyDone ==
  /\ MainActs /\ pc = "readyDone"
  /\ pc' = IF HookError("on-ready") THEN "readyFailed" ELSE "readyPoll"
  /\ UNCHANGED <<doneSignal, copyErr, hookFailed, kind, ctx, status,
                 copyVars, sharedVars, hookVars, signalVars>>

\* One turn of the poll main is in.
MainPoll ==
  /\ MainActs /\ pc \in PollPoints
  /\ PollStep("main")
  /\ UNCHANGED <<streamVars, hookVars>>

\* A failed ready hook ends the run at once, unless a signal explains it.
ReadyFailed ==
  /\ MainActs /\ pc = "readyFailed" /\ Drained("main")
  /\ doneSignal' = first
  /\ pc' = IF first # 0 THEN "snapshot" ELSE "returned"
  /\ status' = IF first # 0 THEN "running" ELSE "failed"
  /\ UNCHANGED <<copyErr, hookFailed, kind, ctx,
                 copyVars, sharedVars, hookVars, signalVars>>

\* The poll after readiness: copying starts unless a signal came.
StartCopy ==
  /\ MainActs /\ pc = "readyPoll" /\ Drained("main")
  /\ doneSignal' = first
  /\ pc' = AfterPoll("waitPoll")
  /\ cpc' = IF pc' = "waitPoll" THEN "read" ELSE cpc
  /\ UNCHANGED <<copyErr, hookFailed, kind, ctx, status, nread, chunk, rerr,
                 werr, out, bytes, sharedVars, hookVars, signalVars>>

\* waitForCopy's poll.
WaitPoll ==
  /\ MainActs /\ pc = "waitPoll" /\ Drained("main")
  /\ doneSignal' = first
  /\ pc' = AfterPoll("select")
  /\ UNCHANGED <<copyErr, hookFailed, kind, ctx, status,
                 copyVars, sharedVars, hookVars, signalVars>>

\* waitForCopy's select takes a signal, and remembers it.
SelectSignal ==
  \/ /\ MainActs /\ pc = "select"
     /\ Receive("main")
     /\ pc' = "taken"
     /\ UNCHANGED <<doneSignal, copyErr, hookFailed, kind, ctx, status,
                    copyVars, sharedVars, hookVars>>
  \/ /\ MainActs /\ pc = "taken"
     /\ Remember("main")
     /\ doneSignal' = first'
     /\ pc' = "snapshot"
     /\ UNCHANGED <<copyErr, hookFailed, kind, ctx, status,
                    copyVars, sharedVars, hookVars>>

\* waitForCopy's select takes the copy's result.
SelectCopy ==
  /\ MainActs /\ pc = "select"
  /\ copyDone # "empty"
  /\ copyErr' = copyDone
  /\ copyDone' = "empty"
  /\ pc' = "copyPoll"
  /\ UNCHANGED <<doneSignal, hookFailed, kind, ctx, status,
                 copyVars, fd, emitted, hookVars, signalVars>>

\* The poll after it: a signal delivered with copy completion wins.
CopyPoll ==
  /\ MainActs /\ pc = "copyPoll" /\ Drained("main")
  /\ doneSignal' = first
  /\ pc' = "snapshot"
  /\ UNCHANGED <<copyErr, hookFailed, kind, ctx, status,
                 copyVars, sharedVars, hookVars, signalVars>>

\* snapshotShutdownContext.
Snapshot ==
  /\ MainActs /\ pc = "snapshot"
  /\ ctx' = [reason |-> Reason(doneSignal, copyErr), bytes |-> bytes]
  /\ pc' = IF doneSignal # 0 /\ FirstDataExists THEN "cancel" ELSE "shutdown"
  /\ UNCHANGED <<doneSignal, copyErr, hookFailed, kind, status,
                 copyVars, sharedVars, hookVars, signalVars>>

\* firstData.cancel().  Closing the input afterwards can only make a pending
\* read fail, which CopyRead allows at any time.
Cancel ==
  /\ MainActs /\ pc = "cancel"
  /\ fd' = [fd EXCEPT !.canceled = TRUE]
  /\ pc' = AfterCancel
  /\ UNCHANGED <<doneSignal, copyErr, hookFailed, kind, ctx, status,
                 copyVars, copyDone, emitted, hookVars, signalVars>>

\* <-firstData.finished
AwaitFirstData ==
  /\ MainActs /\ pc = "await"
  /\ fd.done /\ ~fd.running
  /\ pc' = "shutdown"
  /\ UNCHANGED <<doneSignal, copyErr, hookFailed, kind, ctx, status,
                 copyVars, sharedVars, hookVars, signalVars>>

\* The shutdown event, and firstData.hookFailed().
Shutdown ==
  /\ MainActs /\ pc = "shutdown"
  /\ Emit("shutdown")
  /\ hookFailed' = fd.failed
  /\ pc' = "finishPoll"
  /\ UNCHANGED <<doneSignal, copyErr, kind, ctx, status,
                 copyVars, copyDone, fd, hookVars, signalVars>>

\* finishCompletionWithTracker up to the shutdown hook's call.
FinishPoll ==
  /\ MainActs /\ pc = "finishPoll" /\ Drained("main")
  /\ doneSignal' = PolledSignal
  /\ kind' = Classify(doneSignal', copyErr)
  /\ IF Configured("on-shutdown") THEN CallHook("main", "on-shutdown") ELSE UNCHANGED hookVars
  /\ pc' = "lastPoll"
  /\ UNCHANGED <<copyErr, hookFailed, ctx, status,
                 copyVars, sharedVars, signalVars>>

\* The recheck after cleanup, and the exit status.
Finish ==
  /\ MainActs /\ pc = "lastPoll" /\ Drained("main")
  /\ doneSignal' = PolledSignal
  /\ status' =
       IF doneSignal' # 0 THEN "signal"
       ELSE IF HookError("on-shutdown") \/ kind = "copy-error" \/ hookFailed
            THEN "failed" ELSE "ok"
  /\ pc' = "returned"
  /\ UNCHANGED <<copyErr, hookFailed, kind, ctx,
                 copyVars, sharedVars, hookVars, signalVars>>

MainStep ==
  \/ Ready \/ ReadyDone \/ MainPoll \/ ReadyFailed \/ StartCopy \/ WaitPoll
  \/ SelectSignal \/ SelectCopy \/ CopyPoll \/ Snapshot \/ Cancel
  \/ AwaitFirstData \/ Shutdown \/ FinishPoll \/ Finish
-----------------------------------------------------------------------------
(* The copy goroutine: io.Copy over firstDataReader.Read and               *)
(* countingWriter.Write.  It dies with the process, when the run returns.  *)

\* One read from stdin: some bytes, an error, or both.
CopyRead ==
  /\ CopyActs /\ cpc = "read"
  /\ \E n \in 0..MaxChunk, e \in ReadErrors :
       /\ n > 0 \/ e # "none"
       /\ nread + n <= MaxBytes
       /\ nread' = nread + n
       /\ chunk' = n
       /\ rerr' = e
       /\ cpc' = IF n = 0 THEN "finish" ELSE IF UsesFirstData THEN "gate" ELSE "write"
  /\ UNCHANGED <<mainVars, sharedVars, werr, out, bytes, hookVars, signalVars>>

\* The first critical section of Read: canceled, already past the first data,
\* or the first data.
CopyGate ==
  /\ CopyActs /\ cpc = "gate"
  /\ IF fd.canceled
       THEN cpc' = "finish" /\ chunk' = 0 /\ rerr' = "canceled" /\ UNCHANGED fd
       ELSE /\ UNCHANGED <<chunk, rerr>>
            /\ IF fd.done
                 THEN cpc' = "write" /\ UNCHANGED fd
                 ELSE /\ cpc' = "event"
                      /\ fd' = [fd EXCEPT !.done = TRUE, !.running = TRUE]
  /\ UNCHANGED <<mainVars, nread, werr, out, bytes, copyDone, emitted,
                 hookVars, signalVars>>

\* The first-data event and the hook's call.
FirstData ==
  /\ CopyActs /\ cpc = "event"
  /\ Emit("first-data")
  /\ IF Configured("on-first-data") THEN CallHook("copy", "on-first-data") ELSE UNCHANGED hookVars
  /\ cpc' = "ungate"
  /\ UNCHANGED <<mainVars, nread, chunk, rerr, werr, out, bytes, copyDone, fd,
                 signalVars>>

\* The second critical section, and what Read returns.
CopyUngate ==
  /\ CopyActs /\ cpc = "ungate"
  /\ fd' = Finished
  /\ IF fd.canceled
       THEN cpc' = "finish" /\ chunk' = 0 /\ rerr' = "canceled"
       ELSE /\ cpc' = "write"
            /\ chunk' = FirstBytes
            /\ rerr' = IF ~HookError("on-first-data") THEN rerr
                       ELSE IF rerr = "io" THEN "hook+io" ELSE "hook"
  /\ UNCHANGED <<mainVars, nread, werr, out, bytes, copyDone, emitted,
                 hookVars, signalVars>>

\* One write to stdout: all of it, or a part and an error.
CopyWrite ==
  /\ CopyActs /\ cpc = "write"
  /\ \E k \in 0..chunk, e \in WriteErrors :
       /\ k = chunk \/ e # "none"
       /\ out' = out \o [i \in 1..k |-> nread - chunk + i]
       /\ werr' = e
  /\ cpc' = "count"
  /\ UNCHANGED <<mainVars, nread, chunk, rerr, bytes, sharedVars, hookVars, signalVars>>

\* countingWriter counts the write; io.Copy goes on or stops.
CopyCount ==
  /\ CopyActs /\ cpc = "count"
  /\ bytes' = Counted
  /\ chunk' = 0
  /\ cpc' = IF GoesOn THEN "read" ELSE "finish"
  /\ rerr' = IF werr # "none" THEN werr ELSE rerr
  /\ UNCHANGED <<mainVars, nread, werr, out, sharedVars, hookVars, signalVars>>

\* copyDone <- err: io.Copy does not report EOF.
CopyFinish ==
  /\ CopyActs /\ cpc = "finish"
  /\ copyDone' = CopyResult
  /\ cpc' = "done"
  /\ UNCHANGED <<mainVars, nread, chunk, rerr, werr, out, bytes, fd, emitted,
                 hookVars, signalVars>>

\* The steps that need neither the producer nor the consumer.
CopyOwnStep == CopyGate \/ FirstData \/ CopyUngate \/ CopyCount \/ CopyFinish

-----------------------------------------------------------------------------
HookSteps(g) == Running /\ HookStep(g) /\ UNCHANGED streamVars
ProcExits(g) == Running /\ ProcExit(g) /\ UNCHANGED streamVars
SignalArrives == Running /\ Deliver /\ UNCHANGED <<streamVars, hookVars>>

\* runWithOptions has returned: nothing is left to do.
Returned == pc = "returned" /\ UNCHANGED vars

Next ==
  \/ MainStep
  \/ CopyRead \/ CopyWrite \/ CopyOwnStep
  \/ \E g \in Procs : HookSteps(g) \/ ProcExits(g)
  \/ SignalArrives
  \/ Returned

Spec == Init /\ [][Next]_vars

\* The goroutines are scheduled, and a hook's process ends; nothing makes the
\* producer send, the consumer accept or a signal arrive.
Fairness ==
  /\ WF_vars(MainStep)
  /\ WF_vars(CopyOwnStep)
  /\ \A g \in Procs : WF_vars(HookSteps(g)) /\ WF_vars(ProcExits(g))
FairSpec == Spec /\ Fairness

\* The producer closes stdin at last and the consumer keeps reading: an
\* assumption of a property, not of FairSpec.
StreamMoves == WF_vars(CopyRead) /\ WF_vars(CopyWrite)

-----------------------------------------------------------------------------
(* What makes a run correct. *)

\* From the shutdown event on, the first-data callback is over and stays over:
\* its hook never overlaps cleanup (run.go:137).  In the code this rests on
\* cancel and Read agreeing, under the mutex, on who came first.
CleanupAlone ==
  pc \in {"shutdown", "finishPoll", "lastPoll"} => ~fd.running /\ ~InHook("copy")

\* stdout holds the producer's bytes, in order, with no gap and no repetition,
\* whatever write failed or hook was interrupted; and a run that reports "eof"
\* forwarded every byte it read.
OutputFaithful ==
  /\ \A i \in DOMAIN out : out[i] = i
  /\ Len(out) <= nread
  /\ ctx.reason = "eof" => Len(out) = nread

\* No byte reaches stdout before the first-data hook returned, and a failed
\* hook stops the copy after the bytes of the read that triggered it, which
\* are still written (README, exit status of --on-first-data).
FirstDataGate ==
  /\ out # <<>> /\ UsesFirstData => fd.done /\ ~fd.running
  /\ out # <<>> /\ Configured("on-first-data") => result["on-first-data"] # "none"
  /\ /\ cpc = "done" /\ Configured("on-first-data") /\ HookError("on-first-data")
     /\ ~fd.canceled /\ werr = "none"
     => Len(out) = nread /\ nread <= MaxChunk

\* The exit status table of the README: a remembered signal wins, then any
\* hook failure that is not ignored or any I/O error but a broken pipe; the
\* shutdown hook runs in every case but a failed ready hook without a signal.
ExitStatusTable ==
  ~Running =>
    /\ status =
         IF first # 0 THEN "signal"
         ELSE IF \/ \E n \in HookNames : HookError(n)
                 \/ cpc = "done" /\ rerr \in {"io", "hook+io"}
              THEN "failed" ELSE "ok"
    /\ Configured("on-shutdown") =>
         (result["on-shutdown"] = "none" <=> HookError("on-ready") /\ first = 0)

\* The frozen shutdown context never counts a byte that was not written, and
\* counts every byte that ever reaches stdout unless a signal ended the copy.
ShutdownBytes ==
  /\ ctx.bytes <= Len(out)
  /\ ctx.reason \notin {"unset", "signal"} => ctx.bytes = Len(out)

\* The shutdown hook is interrupted only by a signal delivered after it began
\* to observe, never by the one that ended the stream (hook.go:230), although
\* the two goroutines may remember signals in any order.
CleanupInterruptedByNewSignal ==
  result["on-shutdown"] = "signal" => sent > hookFrom["main"]

\* The first signal delivered is the one that decides the status: "Keep the
\* first signal because later signals cannot change the shell-visible status."
\* (completion.go:45)
FirstSignalWins == first \in {0, 1}

\* The recorded events are a path of the lifecycle that --describe publishes.
StateAfter(e) ==
  CASE e = "ready"      -> "ready"
    [] e = "first-data" -> "active"
    [] e = "shutdown"   -> "shutdown"
LastEvent == IF emitted = <<>> THEN "none" ELSE emitted[Len(emitted)]
LifecycleState == IF emitted = <<>> THEN "start" ELSE StateAfter(LastEvent)
Published == INSTANCE LifecycleMachine WITH state <- LifecycleState, event <- LastEvent
ImplementsLifecycle == Published!Spec

\* A handled signal ends the run, with a producer that sends nothing more and
\* a consumer that accepts nothing (README, exit status of SIGINT, SIGTERM and
\* SIGHUP).
SignalEndsRun == (chan # 0 \/ first # 0) ~> ~Running

\* The same for the command lines without a first-data hook, where main is the
\* only goroutine that receives signals.
SignalEndsMainOnlyRun ==
  (chan # 0 \/ first # 0) /\ ~Configured("on-first-data") ~> ~Running

\* A run whose input ends returns: neither goroutine waits for the other for
\* ever, wherever a signal finds the first-data hook.
Termination == StreamMoves => <>~Running
=============================================================================

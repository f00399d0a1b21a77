# Verification of pipewisp

pipewisp copies stdin to stdout unchanged and runs shell hooks at the points of
the stream's lifecycle: ready, first data, idle, resume, shutdown. The bytes are
easy. What is hard is that several goroutines take signals from one channel,
hooks run on more than one of them, hooks own process groups that change while
they are being stopped, and the exit status and the shutdown context must come
out right in every order of those events. This directory holds TLA+ models of
that concurrency, of the two diagnostic outputs and of the command line, the TLC
runs that check them, and TLAPS proofs of every invariant and action property that
the passing runs check.

Paths below are relative to `src/internal/pipewisp/`. `README.md:N` is the
program's own README.

## The system

| Part | State it keeps | Operations | Hard because |
| --- | --- | --- | --- |
| signal tracking (`completion.go`, `signals_unix.go`) | one-slot channel, first signal, generation, notify channel | poll, remember, beginHookObservation | several goroutines receive; receive and remember are two steps; the slot drops signals |
| synchronous hooks (`hook.go`) | process, timer, observation | run, executeHook..., stopHookAndWait | exit, timeout, signal and notification race |
| stream run (`run.go`, `first_data.go`, `lifecycle_state.go`) | copy goroutine, first-data gate, byte counter, shutdown context | ready, copy, cancel, cleanup | the first-data hook runs on the copy goroutine, cleanup on main |
| completion (`completion.go`) | copy error, signal, kind, status | waitForCopy, finishCompletionWithTracker | a signal may come at any later moment |
| process boundary (`hook_unix.go`, `hook_windows.go`) | process group or job object | start, stop, hasRunningProcesses, killedRoot, close | three system calls, and the group changes in between |
| asynchronous hooks (`async_hook.go`) | registered hooks, `stopped`, one goroutine per hook | start, wait, stopAndWait | exit, descendants, timeout and shutdown race |
| idle copy (`idle_copy.go`) | coordinator, khsier's goroutine, write pump, stop channel | handleEvent, Read, Write, write | three goroutines share one buffer and abandon each other |
| event stream (`events*.go`), reporter (`verbose.go`) | descriptor, disabled flag; start-of-line flag | emit, report | every goroutine writes; records, hook output and a warning share one stderr; locks are held across writes |
| command line (`cli.go`, `cli_metadata.go`) | option set | parseArgs, describe | constraints written twice, order-dependent errors |
| version, signal names | none | print | pure |

Calls go down the table. Main calls hooks directly; the copy goroutine calls the
first-data hook; with `--idle` the coordinator (main) runs every hook and khsier
calls back into it over two unbuffered channels. All goroutines share the
tracker. `asyncHookManager.stopAndWait` runs on main between the end of the
stream and the shutdown hook.

## Modules

| Module | Models | Composition |
| --- | --- | --- |
| `LifecycleMachine` | the transitions `--describe` publishes | abstract specification |
| `SignalTracker` | signalTracker | |
| `HookRunner` | one synchronous invocation per goroutine | extends SignalTracker |
| `Passthrough` | a run without `--idle`: main, copy goroutine, hooks | extends HookRunner, implements LifecycleMachine |
| `IdleCopy` | runIdleCopy: coordinator, Observe's goroutine, write pump | extends HookRunner, implements LifecycleMachine |
| `HookBoundary` | the process group or job object and the system calls on it | |
| `HookExecution` | one synchronous invocation over a process tree and a shared tracker | extends SignalTracker and HookBoundary, implements HookRunner |
| `AsyncHooks` | asyncHookManager and one waiter per hook | extends HookBoundary |
| `Diagnostics` | what all goroutines write to stderr and to the event descriptor | |
| `CommandLine` | parseArgs, Run's dispatch, the published option metadata | |
| `MCPassthrough`, `MCIdleCopy`, `MCAsyncHooks`, `MCHookExecution`, `MCDiagnostics`, `MCCommandLine` | instances for TLC | |
| `HookRunnerProofs`, `HookBoundaryProofs` | lemmas about the modules that others extend | |
| `PassthroughProofs`, `IdleCopyProofs` | theorems about a run | extend HookRunnerProofs |
| `AsyncHooksProofs`, `HookExecutionProofs` | theorems about hooks | extend HookBoundaryProofs |
| `DiagnosticsProofs` | theorems about the outputs | |
| `CommandLineProofs` | theorems about the parser and the exit status | |

**How code becomes actions.** A goroutine's control point is a variable (`pc`,
`cpc`, `hpc`, `obs.pc`, `rd.pc`, `pump.pc`, `inv[h].pc`). An action runs from one
operation on shared state to the next: a channel operation, a critical section, a
system call, a read or a write. A `select` with several ready cases is a
disjunction: TLC takes every one. `poll` is a loop, so its turns are actions
(`PollStep`) and the caller's next action waits for `Drained`. Two polls with
nothing in between are one.

**SignalTracker.** A signal is its place in the order of delivery: 1 is the first
one the program was sent. `inHand[g]` is the signal goroutine g has received and
not yet remembered.

**HookRunner.** While `hpc[g] # "idle"` goroutine g is inside an invocation and its
caller's actions are disabled. A hook's process is its outcome here; stopping a
boundary can find it exited, kill it, or fail. A command line is a record
`opts` with the set of hooks that have a command.

**Passthrough.** `pc` is main, `cpc` the copy goroutine. Bytes are named 1, 2, 3,
... by their place in the input, so `out` shows every gap and repetition.
`chunk` bytes have been read and not written. A read may bring bytes, an error or
both; a write may take a part and fail. `fd` is firstDataReader's flags.

**IdleCopy.** `obs` is the goroutine of khsier.Observe with the callback and `Write`
it calls, `rd` its reader with `Read`, `pump` the write pump with its two one-slot
channels. khsier is a library outside this repository; `ObserveIdle`,
`ObserveRead`, `ReadNext` and `ObserveEnd` are what idle_copy.go and its tests rely
on: a beginning before the first chunk, one idle event per window and never while
a chunk is written, a resume before the first chunk after idle, no read while a
chunk is forwarded, and an end that may or may not be announced.

**HookBoundary, AsyncHooks.** The kernel's side (`Fork`, `KidsExit`, `RootExit`,
`Reap`) runs against pipewisp's side. `os` is the platform, fixed for a run: the
two boundaries ask the same three questions of different objects. On Unix an
exited shell is a zombie and counts as a member of its group until Cmd.Wait reaps
it, which is when `Signal(0)` begins to say ErrProcessDone; a job object counts
running processes only, and TerminateJobObject accepts an empty job. How a root
ended tells pipewisp's SIGKILL (`killed`) from anybody else's (`sigkill`: its own,
the OOM killer's). The code cannot: on Unix `killedRoot` takes a death by SIGKILL
for its own kill if the root was not reaped at `Signal(0)`, on Windows any end of a
root that was running when stop looked. `start` and `stopAndWait` may be called
concurrently.

**HookExecution.** The models of a whole run use HookRunner, where a hook's process
is an outcome and stopping it is one step. HookExecution takes the steps apart:
`ProbeRoot`, `ProbeGroup`, `Kill`, the wait result, with processes that fork and
end in between. Its refinement mapping shows the root's end to HookRunner from the
moment at which pipewisp can tell it from its own kill (`CountsAsKilled`): an end
that counts as a kill, or may come to count as one, is hidden until the invocation
returns. HookRunner allows a boundary error whether or not the root has ended,
because the kill of its descendants may be refused after that; the mapping shows
one (`reap`) where it costs a root its success.

**Diagnostics.** An actor (main, the side-effect goroutine, os/exec's copiers, the
wait goroutines, the goroutine that warns) is the list `todo[a]` of operations it
has left, in the order of the code it runs; `phase[a]` is how far it is in the
first one. A script lists the run's lifecycle events with their hooks, because
Passthrough and IdleCopy already show in which order events come; `at` is main's
place in it, and main loads the operations of one event when those of the last one
are done (`NextEvent`). A wait goroutine reports a failure when it sees the root fail,
after the end record, or, where the rest of the hook then times out or cannot be
stopped, both times (`Endings`). What a step writes is a kind of record; `atStart`
is where stderr really stands, `lineStart` what the reporter believes.

**CommandLine.** An action is a case of parseArgs' loop (`ReadOther`,
`ReadExclusive`, `ReadFlag`, `ReadEquals`, `ReadSeparate`), with its errors in their
order; `Validate` is the checks after it. `Requires`, `RequiresAny` and `Conflicts`
are the table in cli_metadata.go, and `Valid` reads a command line under that table
without any order: some way to pair options with values must satisfy it. Five
lexical rules of the reference are not published by `--describe`, which gives a
value's type only, and come from cli.go: durations are positive, descriptors not
below 3, commands and durations not blank, names free of control characters and
brackets, and a separate name or command has no leading dash. A string is what the
parser can tell of it (leading dashes, blank, how it reads as a duration, a
descriptor or a name).

## Runs

Bounds are constants of the models: `MaxSignals`, `MaxBytes`, `MaxChunk`, the
number of hooks. `inv[h].direct` counts reports up to 2.

| Run | Shows |
| --- | --- |
| `stream_safety` | 2 signals, 3 bytes in reads of 1 or 2, hooks under `--ignore-hook-errors`, `--hook-timeout` and `--dry-run`: CleanupAlone, OutputFaithful, FirstDataGate, ShutdownBytes, ExitStatusTable, CleanupInterruptedByNewSignal, ImplementsLifecycle |
| `stream_liveness` | without a first-data hook a signal ends the run though stdin and stdout stand still; a run whose reads and writes return ends |
| `async_safety` | 2 hooks on either platform, failing kills, timeouts: NothingSurvivesShutdown, FailureReportedOnce, ShutdownBeatsTimeout |
| `async_stop` | 2 hooks that never end by themselves, no timeout: StopReturns, HookReleased |
| `idle` | 3 bytes, partial writes, idle windows, a signal: OutputFaithful, TransitionBeforeChunk, BufferHasOneUser, FailedFirstDataStops, QuietAfterCompletion, ImplementsLifecycle; a signal ends the copy whichever goroutine took it (SignalEndsRun), and coordinator, pump and observer all end (NobodyLeftBehind) |
| `hook_execution` | one hook and its descendants on either platform, 2 signals, a second goroutine that takes them, refused kills: StopLeavesNobody, SignalEndsHook, ImplementsRunner |
| `command_line` | every list of up to 3 arguments over all 17 options and the values that differ: SchemaDecides, OptionsAndValuesApart |
| `diagnostics` | overlapping asynchronous hooks, one with output beside a synchronous hook, synchronous hooks alone; verbose, quiet and dry run; stderr a file or not: EventsInOrder, RecordsBeginLines, HookOrder, ShutdownAfterHooks, WritersSerialized, Completes, WarningDelaysNobody |
| `signal_lost`, `first_signal`, `async_timeout`, `hook_interrupted` | disagreements, see below |

**Why the bounds are enough.** A run with `--hook-timeout` may do whatever one
without it does, since the timer need not fire. Two signals are what it takes to
reorder them, to interrupt the stream and then the cleanup, and to overflow the
slot; a third meets the same states. Three bytes in reads of up to two give a first
chunk, a later chunk, a chunk cut by a short write, a read that brings data with an
error, and an input longer than any first read, which FirstDataGate is about; with
`--idle` the third byte is a chunk after resume. Two hooks are what a start
racing with a shutdown needs besides a registered one, and hooks interact only
through the mutex and the snapshot. One hook is all that an invocation owns, and
`kids` stands for any number of descendants because the boundary answers only
whether there are some. An option, its value and a rival, or two options and a
requirement, are three arguments; every constraint of the metadata relates two
options. In Diagnostics a write to a hook's output may or may not end a line, so
one write leaves a line open and a second one (the `Cleanup` script) goes on with
it; any record of the event stream may be the one that fails.

**Fairness.** Weak fairness for each goroutine's own steps: the Go scheduler runs
every runnable goroutine. A synchronous hook's process is taken to end, since the
program waits for it without `--hook-timeout`; asynchronous ones are not. The
kernel reaps and Cmd.Wait returns (WaitDelay bounds it). Nothing is assumed of
the producer, the consumer, timers or signals: `FairSpec` lets a read or a write
block for ever. `StreamMoves`, that reads and writes return, is an assumption of
the properties Termination and NobodyLeftBehind only. In Diagnostics the fair
steps are those that cannot block on stderr or the pipe (`QuietStep`), taken
together, which asks less than fairness for each goroutine; `StderrMoves`, that
writes to stderr return, is an assumption of Completes, while WarningDelaysNobody
holds without it. A write made blocking by somebody else's change of the
descriptor's mode (`Stuck`) is excluded from both, as the program's README.md:179
makes the caller maintain the mode. HookReleased needs the descendant ticker,
which is part of the waiter's steps. A hook in HookExecution need never end:
SignalEndsHook rests on the caller's and the kernel's steps, and on the other
goroutine remembering a signal that it received. No run assumes strong fairness.

## Disagreements found

* **A signal can be lost to main** (`signal_lost`, hook.go:233). The first-data
  hook runs on the copy goroutine and drains the channel. If it takes the signal
  while main is between its poll and its select (completion.go:93, 96) and the
  hook then ends by itself, main waits for the copy as if no signal had come. The
  run goes on until EOF, an error or another signal; the status is then the
  signal's. README.md:529-531 promises that the signal leads to cleanup. With
  `--idle`, Read, Write and the coordinator poll so that this cannot happen
  (`idle`).
* **The first signal remembered may be the second** (`first_signal`,
  completion.go:45-46), because two goroutines receive and remember in two steps.
* **A hook that ended by itself may be reported as timed out** (`async_timeout`,
  hook_unix.go:107). If the group empties between the probe and the kill, ESRCH is
  dropped and `stop` returns nil where the caller expects os.ErrProcessDone;
  async_hook.go:257-259 says that this is not a timeout.
* **A hook that ended by itself may be reported as interrupted** (`hook_interrupted`,
  hook_windows.go:166). On Windows killedRoot repeats what was seen before
  TerminateJobObject; a root that ends in between counts as killed. README.md:437
  reserves `interrupted` for a hook that was still running. On Unix the same happens
  to a root only if it died of a SIGKILL that pipewisp did not send and is still a
  zombie at `Signal(0)` (hook_unix.go:93-95); TLC finds that too when the run is
  given `Platforms = {"unix"}`. On both platforms the window also suppresses the
  failure report of an asynchronous hook (async_hook.go:281), so FailureReportedOnce
  excepts such roots by name (`TakenForKilled`).

Three smaller windows have no run of their own. The idle pump may take a request
that the coordinator has abandoned, because its select follows the check of `stop`
(idle_copy.go:114-121); `idle` covers it, and output and buffer stay sound. The
event descriptor's mode can change between its check and the write
(events_fd_unix.go:80-84), which blocks the emitter with its lock held
(`EmitBlocks`). And the reporter keeps one line state for all hooks: with
overlapping hooks the line break it adds ends a line that another hook left open,
so RecordsBeginLines is stated of the position on stderr, which is what "each
individual record is complete" (README.md:408) needs. A warning written directly
to a file (events.go:105) may continue such a line, and is not claimed to begin
one.

## Proofs

TLAPS proves what the runs check on small instances for every number of signals,
bytes and hooks, every read size, every set of command lines or scripts and both
platforms. A theorem is about `Spec`, which every `FairSpec` implies. What is
assumed are the named assumptions of the modules: the goroutines and hooks that
exist (`ProcsAssumption`, `HookNamesAssumption`, `HookAssumption`), that a constant
is a number, a truth value or a set of options, platforms or scripts
(`MaxSignalsAssumption`, `BytesAssumption`, `TimeoutAssumption`, `KillAssumption`,
`ConfigsAssumption`, `PlatformAssumption`, `RunsAssumption`, `DescriptorsAssumption`,
`MaxArgsAssumption`), that "no hook" is not a hook (`NoHookAssumption`), and what
arguments are (`ArgumentsAssumption`). Every inductive invariant below was checked by TLC
on the instance of the run named after its module before it was proved.

The plan is the same in every module: typing first, with one lemma for each
component's steps; then an inductive invariant with one step per action and one
conjunct per idea; then the properties as its consequences.

**A run without `--idle`** (`PassthroughProofs`).

* `TypeCorrect`. The hook and signal steps are typed once, in HookRunnerProofs, and
  used for both goroutines.
* `CleanupIsAlone`. CleanupAlone is not inductive: it does not say that a read in
  flight cannot still enter the gate. `CleanupInv` adds where the copy goroutine is
  whenever the callback runs, that a completion without a signal means the copy
  goroutine is done, and that from the shutdown event on no callback can begin any
  more (`NoMoreFirstData`).
* `OutputIsFaithful`. `OutputInv` relates the bytes read, held and written at each
  control point of the copy goroutine (`Len(out) + chunk = nread` before a write),
  and follows "the copy ended with EOF" from the goroutine through the copyDone
  channel and main's completion to the frozen context's reason.
* `GateHolds` (FirstDataGate), `BytesAreCounted` (ShutdownBytes), `StatusIsTheTables`
  (ExitStatusTable) and `OnlyNewSignalsInterrupt` (CleanupInterruptedByNewSignal)
  need `RunInv`. Its parts say which hook is in which slot and when its result is
  final (`HookInv`), what the gate's flags mean for the copy goroutine (`GateInv`),
  where the counter lags behind stdout (`BytesInv`), what main knows at each
  control point after the stream (`DoneInv`), which failure led to which kind and
  reason (`FailedInv`), and that while the shutdown hook observes and nothing was
  sent since it began, no signal is in the channel or in a goroutine's hand and the
  generation is the one it began with (`SignalInv`). The last theorem also needs a
  lemma about HookRunner alone (`HookInterruption`): an invocation becomes
  "interrupted" only by stopping for a signal.
* `LifecycleImplemented`: each step maps to one transition of LifecycleMachine or a
  stutter. `LifeInv` ties the last recorded event to main's control point and to
  the gate, so that no event follows the shutdown and "first-data" comes once.

**A run with `--idle`** (`IdleCopyProofs`). The chunk wanders between Observe's
reader, the callback, the request channel and the pump. `PhaseInv` says who has it:
the goroutine of Observe is waiting, writing, in a callback whose outcome is fixed,
or over, and the pump holds the buffer only while Observe waits for its result or
after everybody stopped. `CoordInv` is the handshake with the coordinator,
`ChunkInv` how much of the input stdout has at every place the chunk may be,
`EndInv` why Observe ended, `FailInv` what a failed first-data hook leaves. From
them follow `TypeCorrect`, `OutputIsFaithful`, `TransitionIsFirst`,
`BufferIsExclusive`, `FailedFirstDataIsLast` and `CompletionIsQuiet`.
`LifecycleImplemented` needs `LifeInv` besides: while the copy goes on, the last
recorded event tells where Observe is, but for the one event that the coordinator
has yet to record (`Position`).

**Asynchronous hooks** (`AsyncHooksProofs`): `TypeCorrect`, `NothingSurvives`
(NothingSurvivesShutdown), `FailuresReportedOnce`, `NoLateTimeout`
(ShutdownBeatsTimeout), for any set of hooks; FailureReportedOnce is of every failure
that the code can tell from its own kill. The invariant has a part for the
manager (`ManagerInv`: the registered hooks are those with a waiter, no start is
under way once stopped, and stopAndWait's snapshot misses nobody) and one for each
hook (`LocalInv`: which result its waiter can have received, that a stop which was
not refused empties the boundary and that it stays empty, how often it reported).
A step of one hook leaves the other hooks' part alone (`OwnBoundary` in
HookBoundaryProofs and its use), which is what makes the proof independent of how
many there are.

**One invocation over a process tree** (`HookExecutionProofs`): `TypeCorrect`,
`StoppedHookIsGone` (StopLeavesNobody, of every invocation that called stop), and
`Refinement`: on either platform every step is a step of HookRunner or a stutter.
The invariant (`ControlInv`, `RootOrder`) says for each control point whether the
root has ended and whether stop has looked, and what a stop that was not refused
leaves. Each system call of stop, each end of a process and the reap is then nothing
to HookRunner, the end of its process, or a boundary error (`Unseen`), and the wait
result is HookRunner's (`AwaitMaps`) because `killedRoot` answers just what
`CountsAsKilled` has hidden. What the theorem does not say is that a hidden end was a
kill: that is the fourth disagreement.

**The outputs** (`DiagnosticsProofs`), for every script, mode and set of them:
`TypeCorrect`, `OneWriter` (WritersSerialized), `RecordsAreLines`
(RecordsBeginLines, for every step), `PipeInOrder` (EventsInOrder), `RecordsInOrder`
(HookOrder) and `HooksBeforeShutdown` (ShutdownAfterHooks).

* `ShapeInv` is what makes scripts of any length tractable: whatever the script, an
  actor's list is one of finitely many, because main has one event's operations at a
  time. It says which lists go with which place in the script.
* `WritesInv` has who holds which lock at which phase of an operation (`LockInv`),
  that the reporter never believes stderr to be at the start of a line when it is
  not (`LineInv`), that an incomplete record stays the last one of the pipe
  (`TornIsLast`), and that a disabled emitter has warned once or is about to
  (`WarnInv`).
* `HooksInv` follows a hook's goroutines: which of its side-effect goroutine, copier,
  waiter and process can be alive at each place of main (`HookInv`), and that
  stopAndWait returns only after every asynchronous hook's waiter (`StopInv`).
* `RecordsInv` relates the outputs to main's place: the pipe begins with the script's
  first event, each record on it is the one after its predecessor, and until the
  emitter is disabled the last one is the latest that main has come to (`PipeInv`);
  and a hook has nothing on stderr after its end record, which one
  goroutine still has ahead of it or has written (`ShownInv`).

**The command line** (`CommandLineProofs`), for lists of any length over any
arguments: `TypeCorrect`, `SchemaIsDecided` (SchemaDecides) and `OptionsKept`
(OptionsAndValuesApart). The metadata knows no order: a list is valid if some set of
its places can be taken as values. `SoundInv` says that the places the loop has taken as
values are such a set for what it has read, so that it accepts only valid lists;
`CompleteInv` says that whatever set makes the list valid, the loop has taken the
same places and found no error, so that it refuses only invalid ones. `ReturnInv`
ties the exit status to what parseArgs returned. The first half of OptionsKept
follows from SoundInv: a place taken as a value cannot hold an option, because no
option reads as a duration or a descriptor, and commands and names refuse a leading
dash. The second half is an invariant of its own (`MissingInv`): what a duration or
descriptor refuses as an option begins with "--", and no such string reads as a
duration or a descriptor. ArgumentsAssumption states these facts about strings.

**What only TLC checks.**

* Liveness: StopReturns, HookReleased, SignalEndsRun, NobodyLeftBehind, SignalEndsHook,
  Completes, WarningDelaysNobody and the two properties of `stream_liveness`.
  Fairness and ENABLED are out of the prover's reach.
* The four disagreements: TLC finds their counterexamples.

## Not modelled

Usage text, the JSON of `--describe`, version output, signal names and
per-platform exit codes: constant tables and printing. Duplicating the event
descriptor under ForkLock, closing it, and the Windows PIPE_NOWAIT query: system
calls with no state of the program behind them. A Writer that breaks its contract,
a Read that returns nothing and no error, durations in contexts, the hook
environment, reuse of process and group identifiers, processes that leave their
boundary, a failing accounting query of a job object and tracking errors of a
process group other than EPERM. Names and commands are classes of strings.

The models stop at two seams. IdleCopy ends with the shutdown event, after which a
run with `--idle` does what `Passthrough` models from `FinishPoll` on, and
`stopAndWait` (AsyncHooks) comes just before that event. Diagnostics takes the
order of lifecycle events as given and leaves out reports that are not about a
hook: copy errors and boundary errors, one more line under the same lock. The line
"cleanup failed" that an asynchronous hook's boundary error adds before the failure
is left out for the same reason.

## Plan

1. A composition of IdleCopy, AsyncHooks and the finishing steps of a run, for the
   exit status with idle and resume errors.
2. An abstract specification of an asynchronous hook's invocation that AsyncHooks
   implements, as HookExecution implements HookRunner, so that the composition can
   use it.

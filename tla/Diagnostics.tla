---------------------------- MODULE Diagnostics -----------------------------
(***************************************************************************)
(* What a run writes beside its stream: the event pipe (eventEmitter,      *)
(* events.go) and the diagnostics (verboseReporter, verbose.go, or         *)
(* synchronizedWriter, async_hook.go), with every goroutine that writes to *)
(* them.                                                                   *)
(*                                                                         *)
(* The lifecycle events come one after the other (Passthrough and IdleCopy *)
(* show it), so one actor, main, stands for the goroutine that records the *)
(* current one.  A synchronous hook adds a goroutine for its side-effect   *)
(* record; each hook adds os/exec's copier of its output; an asynchronous  *)
(* one its wait goroutine; a failure of the pipe adds one that warns.  An  *)
(* actor is the list of operations it still has to do, as the code it runs *)
(* has them: main for the current event, the others for the event in their *)
(* name.                                                                   *)
(***************************************************************************)
EXTENDS Integers, SequencesExt

CONSTANT Runs    \* the runs to check: [script, mode]

HookKinds == {"none", "sync", "async"}

\* A command line and what stderr is.
Mode == [verbose : BOOLEAN, file : BOOLEAN, dryRun : BOOLEAN]

\* A lifecycle event with its hook; `output` bounds the writes of the hook to
\* its output.
Event == [event : STRING, hook : HookKinds, output : Nat]

\* A script is the run's events, told apart by their names.  The shutdown comes
\* last; there is no asynchronous shutdown hook.
ASSUME RunsAssumption ==
  \A r \in Runs :
    /\ r \in [script : Seq(Event), mode : Mode] /\ r.script # <<>>
    /\ \A i, j \in DOMAIN r.script :
         r.script[i].event = r.script[j].event => i = j
    /\ \A i \in DOMAIN r.script :
         r.script[i].event = "shutdown" <=> i = Len(r.script)
    /\ r.script[Len(r.script)].hook # "async"

VARIABLES script, mode,   \* fixed for the run
          at,             \* main's event, by its place in the script
          todo,           \* per actor: its operations
          phase,          \* per actor: how far it is in the first of them
          proc,           \* per hook: its process
          chunks,         \* per hook: writes to its output so far
          shown,          \* per event: what was written to stderr about it
          warned,         \* how often the warning was written (bound 2)
          atStart,        \* stderr is at the start of a line
          lineStart,      \* reporter.lineStart
          outLock,        \* holder of reporter.mu or synchronizedWriter.mu
          managerLock,    \* holder of asyncHookManager.mu
          emitLock,       \* holder of emitter.mu
          disabled,       \* emitter.disabled
          pipe            \* what was written to the event descriptor

outVars  == <<shown, warned, atStart, lineStart, outLock>>
pipeVars == <<emitLock, disabled, pipe>>
hookVars == <<script, mode, at, proc, chunks>>
vars == <<hookVars, todo, phase, outVars, managerLock, pipeVars>>

Hooks == UNION {{s.event : s \in ToSet(r.script)} : r \in Runs}

Main      == <<"main", "">>
Warner    == <<"warner", "">>
Side(e)   == <<"side", e>>
Copier(e) == <<"copier", e>>
Waiter(e) == <<"waiter", e>>
Nobody    == <<"nobody", "">>
Actors    == {Main, Warner} \cup {Side(e) : e \in Hooks}
               \cup {Copier(e) : e \in Hooks} \cup {Waiter(e) : e \in Hooks}

Lines == {"event", "start", "end", "fail", "dry", "warn"}
Ops   == Lines \cup {"chunk", "emit", "side", "hook", "launch", "reap", "join",
                     "lock", "unlock", "await"}

TypeOK ==
  /\ [script |-> script, mode |-> mode] \in Runs
  /\ at \in 0 .. Len(script)
  /\ todo \in [Actors -> Seq(Ops)]
  /\ phase \in [Actors -> {"ready", "locked", "separated", "checked", "blocked"}]
  /\ proc \in [Hooks -> {"none", "alive", "ok", "fail"}]
  /\ chunks \in [Hooks -> Nat]
  /\ shown \in [Hooks -> Seq(Lines \cup {"chunk"})] /\ warned \in 0..2
  /\ {atStart, lineStart, disabled} \subseteq BOOLEAN
  /\ {outLock, managerLock, emitLock} \subseteq Actors \cup {Nobody}
  /\ pipe \in Seq([kind : {"emit", "side"}, of : Hooks, torn : BOOLEAN])

-----------------------------------------------------------------------------
(* What the code does for one lifecycle event: before shutdown              *)
(* manager.stopAndWait; the event's records; hookRunner.run or              *)
(* manager.start.                                                           *)
EventOps(e) ==
  IF e = "shutdown" THEN <<"lock", "unlock", "await", "event", "emit", "hook">>
  ELSE <<"event", "emit", "hook">>

HookOps(kind) ==
  CASE kind = "none"  -> <<>>
    [] kind = "sync"  -> IF mode.dryRun THEN <<"side", "dry">>
                         ELSE <<"start", "launch">>
    [] kind = "async" -> IF mode.dryRun THEN <<"lock", "side", "dry", "unlock">>
                         ELSE <<"lock", "start", "launch">>

Init ==
  /\ \E r \in Runs : script = r.script /\ mode = r.mode
  /\ at = 0 /\ todo = [a \in Actors |-> <<>>]
  /\ phase = [a \in Actors |-> "ready"]
  /\ proc = [e \in Hooks |-> "none"] /\ chunks = [e \in Hooks |-> 0]
  /\ shown = [e \in Hooks |-> <<>>] /\ warned = 0
  /\ atStart = TRUE /\ lineStart = TRUE
  /\ outLock = Nobody /\ managerLock = Nobody /\ emitLock = Nobody
  /\ disabled = FALSE /\ pipe = <<>>

Hook(e) == CHOOSE s \in ToSet(script) : s.event = e
Kind(e) == Hook(e).hook
Busy(a) == todo[a] # <<>>
Op(a) == Head(todo[a])
Of(a) == IF a = Main THEN script[at].event ELSE a[2]
Doing(a, ops) == Busy(a) /\ Op(a) \in ops

Goto(a, p) == phase' = [phase EXCEPT ![a] = p] /\ UNCHANGED todo
\* The first operation is over, and `more` comes before the rest.
Continue(a, more) ==
  /\ todo' = [todo EXCEPT ![a] = more \o Tail(@)]
  /\ phase' = [phase EXCEPT ![a] = "ready"]

-----------------------------------------------------------------------------
(* Writing to stderr. *)

\* Event and hook records are written in verbose mode only, a failure only if
\* there was one.
Wanted(a) ==
  CASE Op(a) \in {"event", "start", "end"} -> mode.verbose
    [] Op(a) = "fail"                      -> proc[Of(a)] = "fail"
    [] OTHER                               -> TRUE

Skip(a) ==
  /\ Doing(a, Lines) /\ ~Wanted(a)
  /\ Continue(a, <<>>)
  /\ UNCHANGED <<hookVars, outVars, managerLock, pipeVars>>

Stderr(a) == Doing(a, Lines \cup {"chunk"}) /\ Wanted(a)

\* "Only os.File supports concurrent writes here": the warning does not wait
\* for the lock if stderr is a file.
AlwaysDirect(a) == a = Warner       \* fault: nor if it is not
Direct(a) == a = Warner /\ mode.file

Acquire(a) ==
  /\ Stderr(a) /\ phase[a] = "ready" /\ ~Direct(a)
  /\ outLock = Nobody
  /\ outLock' = a
  /\ Goto(a, "locked")
  /\ UNCHANGED <<hookVars, shown, warned, atStart, lineStart, managerLock, pipeVars>>

NoSeparator(a) == FALSE             \* fault: the state of the line is not kept
NeedsSeparator(a) == mode.verbose /\ ~lineStart /\ Op(a) # "chunk"

Separate(a) ==
  /\ phase[a] = "locked" /\ Stderr(a) /\ NeedsSeparator(a)
  /\ atStart' = TRUE
  /\ Goto(a, "separated")
  /\ UNCHANGED <<hookVars, shown, warned, lineStart, outLock, managerLock, pipeVars>>

\* The record, or the hook's output, which may end within a line.
WriteOut(a) ==
  /\ Stderr(a)
  /\ \/ Direct(a)
     \/ phase[a] = "separated"
     \/ phase[a] = "locked" /\ ~NeedsSeparator(a)
  /\ \E ends \in (IF Op(a) = "chunk" THEN BOOLEAN ELSE {TRUE}) :
       /\ atStart' = ends
       /\ lineStart' = IF Direct(a) THEN lineStart ELSE ends
  /\ IF Op(a) = "warn"
       THEN warned' = warned + 1 /\ UNCHANGED shown
       ELSE shown' = [shown EXCEPT ![Of(a)] = Append(@, Op(a))] /\ UNCHANGED warned
  /\ outLock' = IF Direct(a) THEN outLock ELSE Nobody
  /\ Continue(a, <<>>)
  /\ UNCHANGED <<hookVars, managerLock, pipeVars>>

-----------------------------------------------------------------------------
(* emitRecord and writeEvent. *)

Retry(a) ==                         \* fault: a failed write is tried again
  phase' = [phase EXCEPT ![a] = "ready"] /\ UNCHANGED <<todo, disabled>>

WarnAgain(a) ==                     \* fault: the emitter is not disabled
  /\ UNCHANGED disabled
  /\ todo' = [todo EXCEPT ![a] = Tail(@), ![Warner] = Append(@, "warn")]
  /\ phase' = [phase EXCEPT ![a] = "ready"]

Sulk(a) ==                          \* fault: the emitter itself warns
  /\ disabled' = TRUE
  /\ todo' = [todo EXCEPT ![a] = <<"warn">> \o Tail(@)]
  /\ phase' = [phase EXCEPT ![a] = "ready"]

Disable(a) ==
  /\ disabled' = TRUE
  /\ todo' = [todo EXCEPT ![a] = Tail(@), ![Warner] = Append(@, "warn")]
  /\ phase' = [phase EXCEPT ![a] = "ready"]

\* The lock, the disabled flag and the mode of the descriptor, which another
\* process may have changed.
EmitChecks(a) ==
  /\ Doing(a, {"emit", "side"}) /\ phase[a] = "ready" /\ emitLock = Nobody
  /\ \/ disabled /\ Continue(a, <<>>) /\ UNCHANGED <<emitLock, disabled>>
     \/ ~disabled /\ Goto(a, "checked") /\ emitLock' = a /\ UNCHANGED disabled
     \/ ~disabled /\ Disable(a) /\ UNCHANGED emitLock
  /\ UNCHANGED <<hookVars, outVars, managerLock, pipe>>

Put(a, torn) == pipe' = Append(pipe, [kind |-> Op(a), of |-> Of(a), torn |-> torn])

\* The write takes the record, a part of it, or nothing (a full pipe, or no
\* reader).
EmitWrite(a) ==
  /\ Doing(a, {"emit", "side"}) /\ phase[a] = "checked"
  /\ \/ Put(a, FALSE) /\ Continue(a, <<>>) /\ UNCHANGED disabled
     \/ Put(a, TRUE) /\ Disable(a)
     \/ UNCHANGED pipe /\ Disable(a)
  /\ emitLock' = Nobody
  /\ UNCHANGED <<hookVars, outVars, managerLock>>

\* The mode changed after the check and the pipe is full: the write blocks,
\* until the reader makes room.
EmitBlocks(a) ==
  /\ Doing(a, {"emit", "side"})
  /\ \/ phase[a] = "checked" /\ Goto(a, "blocked") /\ UNCHANGED <<emitLock, pipe>>
     \/ /\ phase[a] = "blocked" /\ Put(a, FALSE) /\ Continue(a, <<>>)
        /\ emitLock' = Nobody
  /\ UNCHANGED <<hookVars, outVars, managerLock, disabled>>

-----------------------------------------------------------------------------
(* Hooks. *)

\* The process starts.  Of a synchronous hook another goroutine records the side
\* effect, and is waited for; of an asynchronous one main does, when it has
\* released the manager and started the wait goroutine.
Launch(a) ==
  /\ Doing(a, {"launch"})
  /\ LET e == Of(a) IN
     /\ proc' = [proc EXCEPT ![e] = "alive"]
     /\ \/ /\ Kind(e) = "sync"
           /\ todo' = [todo EXCEPT ![a] = <<"reap", "join", "end", "fail">> \o Tail(@),
                                   ![Side(e)] = <<"side">>]
           /\ UNCHANGED managerLock
        \/ /\ Kind(e) = "async"
           /\ todo' = [todo EXCEPT ![a] = <<"side">> \o Tail(@),
                                   ![Waiter(e)] = <<"reap", "lock", "unlock">>]
           /\ managerLock' = Nobody
  /\ UNCHANGED <<script, mode, at, phase, chunks, outVars, pipeVars>>

LaunchFails(a) ==
  /\ Doing(a, {"launch"})
  /\ LET e == Of(a) IN
     /\ proc' = [proc EXCEPT ![e] = "fail"]
     /\ Continue(a, IF Kind(e) = "async" THEN <<"side", "end", "fail", "unlock">>
                    ELSE <<"side", "end", "fail">>)
  /\ UNCHANGED <<script, mode, at, chunks, outVars, managerLock, pipeVars>>

\* Cmd.Wait: the process has ended and the copier has written its output.
Exited(e) == proc[e] \in {"ok", "fail"}     \* fault: the output is not drained
Drained(e) == proc[e] \in {"ok", "fail"} /\ ~Busy(Copier(e))

NotJoined(a) == TRUE                \* fault: the side effect is not waited for
Joined(a) == ~Busy(Side(Of(a)))

NeverAwaited == TRUE                \* fault: the wait goroutines are not waited for
\* stopAndWait returns: every wait goroutine is done.
AllDone == \A e \in Hooks : ~Busy(Waiter(e))

\* The wait goroutine reports a failure when it sees it, or after the end, or,
\* where the root failed and the rest of the hook timed out or could not be
\* stopped, both times.  A hook that shutdown stops reports none, as one that
\* succeeds.
Endings(e) ==
  IF proc[e] = "ok" THEN {<<"end">>}
  ELSE {<<"fail", "end">>, <<"end", "fail">>, <<"fail", "end", "fail">>}

Proceed(a) ==
  /\ \/ /\ Doing(a, {"reap"}) /\ Drained(Of(a))
        /\ \E more \in (IF Kind(Of(a)) = "async" THEN Endings(Of(a)) ELSE {<<>>}) :
             Continue(a, more)
     \/ Doing(a, {"hook"}) /\ Continue(a, HookOps(Kind(Of(a))))
     \/ Doing(a, {"join"}) /\ Joined(a) /\ Continue(a, <<>>)
     \/ Doing(a, {"await"}) /\ AllDone /\ Continue(a, <<>>)
  /\ UNCHANGED <<hookVars, outVars, managerLock, pipeVars>>

Lock(a) ==
  /\ \/ Doing(a, {"lock"}) /\ managerLock = Nobody /\ managerLock' = a
     \/ Doing(a, {"unlock"}) /\ managerLock' = Nobody
  /\ Continue(a, <<>>)
  /\ UNCHANGED <<hookVars, outVars, pipeVars>>

\* The process, or a descendant that holds its output, writes; the copier reads
\* it.
Output(e) ==
  /\ proc[e] = "alive" /\ chunks[e] < Hook(e).output /\ ~Busy(Copier(e))
  /\ chunks' = [chunks EXCEPT ![e] = @ + 1]
  /\ todo' = [todo EXCEPT ![Copier(e)] = <<"chunk">>]
  /\ UNCHANGED <<script, mode, at, phase, proc, outVars, managerLock, pipeVars>>

\* It ends by itself, at a timeout or a signal, or because the manager stops it.
Exit(e) ==
  /\ proc[e] = "alive"
  /\ \E r \in {"ok", "fail"} : proc' = [proc EXCEPT ![e] = r]
  /\ UNCHANGED <<script, mode, at, todo, phase, chunks, outVars, managerLock, pipeVars>>

-----------------------------------------------------------------------------
\* Main comes to the next event when it is done with the one before.
NextEvent ==
  /\ ~Busy(Main) /\ at < Len(script)
  /\ at' = at + 1
  /\ todo' = [todo EXCEPT ![Main] = EventOps(script[at'].event)]
  /\ UNCHANGED <<script, mode, proc, chunks, phase, outVars, managerLock, pipeVars>>

StderrStep == \E a \in Actors : Separate(a) \/ WriteOut(a)

\* The steps that cannot block on stderr or on the pipe.
QuietStep ==
  \/ \E a \in Actors :
       \/ Skip(a) \/ Acquire(a) \/ EmitChecks(a) \/ EmitWrite(a)
       \/ Launch(a) \/ LaunchFails(a) \/ Proceed(a) \/ Lock(a)
  \/ \E e \in Hooks : Exit(e)
  \/ NextEvent

Done == ~Busy(Main) /\ at = Len(script)

Next ==
  \/ StderrStep \/ QuietStep
  \/ \E a \in Actors : EmitBlocks(a)
  \/ \E e \in Hooks : Output(e)
  \/ Done /\ UNCHANGED vars

\* The goroutines are scheduled and hooks end.
Spec == Init /\ [][Next]_vars /\ WF_vars(QuietStep)

\* The reader of stderr keeps reading.
StderrMoves == WF_vars(StderrStep)

-----------------------------------------------------------------------------
(* What makes the two outputs correct. *)

\* The event pipe is a prefix of the run's records, each hook's side effect
\* right after its event although another goroutine writes it; only the last
\* record may be incomplete ("A short write can leave an incomplete final JSONL
\* record", README.md:190), and a failure is warned of once.
Record(i) == <<pipe[i].kind, pipe[i].of>>

\* The last record about the i-th event.
Final(i) == <<IF script[i].hook = "none" THEN "emit" ELSE "side", script[i].event>>

Follows(r, q) ==
  \E i \in DOMAIN script :
    \/ i > 1 /\ q = Final(i - 1) /\ r = <<"emit", script[i].event>>
    \/ /\ script[i].hook # "none"
       /\ q = <<"emit", script[i].event>> /\ r = <<"side", script[i].event>>

EventsInOrder ==
  /\ pipe # <<>> => Record(1) = <<"emit", script[1].event>>
  /\ \A i \in 1 .. Len(pipe) - 1 : Follows(Record(i + 1), Record(i))
  /\ \A i \in DOMAIN pipe : pipe[i].torn => i = Len(pipe) /\ disabled
  /\ warned <= 1

\* In verbose mode every record begins a line, whatever hooks that run at the
\* same time leave unfinished.  (The warning to a file waits for no lock, so it
\* may continue a hook's line; the record after it still begins one.)
RecordsBeginLines ==
  [][\A e \in Hooks :
       mode.verbose /\ shown'[e] # shown[e] /\ Last(shown'[e]) # "chunk" => atStart]_vars

\* "When a hook is configured for an event, stderr follows this logical order"
\* (README.md:411): the event, the start, the output, exactly one terminal
\* record and the failure, which for an asynchronous hook may come before its
\* terminal record, after it, or both.
Rank == [event |-> 1, start |-> 2, chunk |-> 3, end |-> 4, fail |-> 5]
InOrder(e) ==
  \A i, j \in DOMAIN shown[e] :
    i < j /\ (Kind(e) = "async" => "fail" \notin {shown[e][i], shown[e][j]}) =>
      Rank[shown[e][i]] <= Rank[shown[e][j]]

Once(seq, kind) == \E i \in DOMAIN seq : \A j \in DOMAIN seq : seq[j] = kind <=> j = i

HookOrder ==
  mode.verbose =>
    \A s \in ToSet(script) :
      /\ mode.dryRun \/ InOrder(s.event)
      /\ Done /\ Contains(shown[s.event], "start") => Once(shown[s.event], "end")

\* Asynchronous hooks are over, their output and their records written, when
\* the shutdown is recorded (run.go:144).
ShutdownAfterHooks ==
  shown["shutdown"] # <<>> \/ (\E i \in DOMAIN pipe : pipe[i].of = "shutdown") =>
    \A e \in Hooks \ {"shutdown"} :
      proc[e] # "alive" /\ (Contains(shown[e], "start") => Contains(shown[e], "end"))

\* "keep arbitrary writers serialized" (events.go:90): at most one goroutine is
\* inside a write to a stderr that is not a file.
Writing(a) == Stderr(a) /\ (Direct(a) \/ phase[a] \in {"locked", "separated"})

WritersSerialized ==
  ~mode.file => \A a, b \in Actors : Writing(a) /\ Writing(b) => a = b

\* A write that a change of mode has made blocking: the caller must maintain
\* the mode while pipewisp runs, the check before the write narrows the window.
Stuck == \E a \in Actors : phase[a] = "blocked"

\* A run whose hooks end and whose stderr is read comes to its end, whatever
\* locks its goroutines hold while they write.
Completes == StderrMoves => <>(Done \/ Stuck)

\* "a blocked stderr does not delay primary stream processing for this warning"
\* (README.md:187): if nothing but the warning is to be written, the run ends
\* although stderr never takes it.
WarningDelaysNobody ==
  <>(Done \/ Stuck \/ \E a \in Actors : Stderr(a) /\ Op(a) # "warn")
=============================================================================

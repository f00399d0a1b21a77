------------------------- MODULE DiagnosticsProofs --------------------------
(***************************************************************************)
(* Theorems about Diagnostics, for any set of scripts and modes: who is    *)
(* inside a write to stderr, where a record begins, in which order a       *)
(* hook's records and the records of the event pipe are written, and what  *)
(* is over when the shutdown is recorded.                                  *)
(*                                                                         *)
(* A goroutine's place is the list of operations it has left, and there    *)
(* are finitely many such lists whatever the script.  The invariant says   *)
(* which of them go together, and what stderr and the pipe have by then.   *)
(***************************************************************************)
EXTENDS Diagnostics, TLAPS

-----------------------------------------------------------------------------
(* Where a goroutine is, by the operations it has left.                    *)

\* Main before the hook: it stops the asynchronous hooks, or records the event.
MStop       == <<"lock", "unlock", "await", "event", "emit", "hook">>
MStopUnlock == <<"unlock", "await", "event", "emit", "hook">>
MAwait      == <<"await", "event", "emit", "hook">>
MEvent      == <<"event", "emit", "hook">>
MEmit       == <<"emit", "hook">>
MHook       == <<"hook">>
\* It starts a hook.
MLock       == <<"lock", "start", "launch">>
MStart      == <<"start", "launch">>
MLaunch     == <<"launch">>
\* A synchronous hook runs, or could not be started.
MReap       == <<"reap", "join", "end", "fail">>
MJoin       == <<"join", "end", "fail">>
MEnd        == <<"end", "fail">>
MFail       == <<"fail">>
MUnstarted  == <<"side", "end", "fail">>
\* So for an asynchronous one.
MSide       == <<"side">>
AUnstarted  == <<"side", "end", "fail", "unlock">>
AEnd        == <<"end", "fail", "unlock">>
AFail       == <<"fail", "unlock">>
AUnlock     == <<"unlock">>
\* With --dry-run.
DSide       == <<"side", "dry">>
DDry        == <<"dry">>
DLock       == <<"lock", "side", "dry", "unlock">>
DASide      == <<"side", "dry", "unlock">>
DADry       == <<"dry", "unlock">>

\* The wait goroutine of an asynchronous hook.
WReap       == <<"reap", "lock", "unlock">>
WEnd        == <<"end", "lock", "unlock">>
WFailEnd    == <<"fail", "end", "lock", "unlock">>
WEndFail    == <<"end", "fail", "lock", "unlock">>
WFailEndFail == <<"fail", "end", "fail", "lock", "unlock">>
WFail       == <<"fail", "lock", "unlock">>
WLock       == <<"lock", "unlock">>
WUnlock     == <<"unlock">>

SideTodo    == <<"side">>
CopierTodo  == <<"chunk">>

Stopping     == {MStop, MStopUnlock, MAwait}
EventAhead   == Stopping \cup {MEvent}
EmitAhead    == EventAhead \cup {MEmit}
StartAhead   == EmitAhead \cup {MHook, MLock, MStart}
LaunchAhead  == StartAhead \cup {MLaunch}
SyncTodo     == {MReap, MJoin, MEnd, MFail, MUnstarted}
AsyncTodo    == {MLock, MSide, AUnstarted, AEnd, AFail}
DryTodo      == {DSide, DDry, DLock, DASide, DADry}
MainTodo     == LaunchAhead \cup SyncTodo \cup AsyncTodo \cup DryTodo \cup {AUnlock, <<>>}
WaiterTodo   == {WReap, WEnd, WFailEnd, WEndFail, WFailEndFail, WFail, WLock, WUnlock,
                 <<>>}

\* Main has the end record of the hook still to write, or the wait goroutine.
MainEndAhead   == LaunchAhead \cup {MReap, MJoin, MEnd, MUnstarted, AUnstarted, AEnd}
WaiterEndAhead == {WReap, WEnd, WFailEnd, WEndFail, WFailEndFail}
\* Main has its side effect still to write.
MainSideAhead  == {MHook, MLock, MStart, MLaunch, MUnstarted, MSide, AUnstarted,
                   DSide, DLock, DASide}

-----------------------------------------------------------------------------
(* The inductive invariant.                                                *)

Current == script[at].event
Reached(e) == \E i \in 1 .. at : script[i].event = e

\* What main may have left to do for the current event.
MainInv ==
  /\ todo[Main] \in MainTodo
  /\ todo[Main] # <<>> => at > 0
  /\ todo[Main] \in Stopping => Current = "shutdown"
  /\ todo[Main] \in {MStart, MLaunch} => Kind(Current) # "none"
  /\ todo[Main] \in {MStart, MLaunch} \cup SyncTodo \cup AsyncTodo => ~mode.dryRun
  /\ todo[Main] \in DryTodo => mode.dryRun
  /\ todo[Main] \in SyncTodo \cup {DSide, DDry} => Kind(Current) = "sync"
  /\ todo[Main] \in AsyncTodo \cup {DLock, DASide, DADry, AUnlock} => Kind(Current) = "async"

\* The other goroutines.
OthersInv ==
  /\ todo[Warner] \in Seq({"warn"})
  /\ \A e \in Hooks :
       /\ todo[Side(e)] \in {<<>>, SideTodo}
       /\ todo[Copier(e)] \in {<<>>, CopierTodo}
       /\ todo[Waiter(e)] \in WaiterTodo

\* A goroutine inside a write holds the lock that write is made under, and a
\* goroutine inside a write to the pipe found the emitter enabled.
LockInv ==
  \A a \in Actors :
    /\ phase[a] \in {"locked", "separated"} => outLock = a
    /\ phase[a] \in {"checked", "blocked"} => emitLock = a /\ ~disabled

\* reporter.lineStart never claims the start of a line that stderr is not at,
\* and the separator's effect lasts until the record is written.
LineInv ==
  /\ lineStart => atStart
  /\ \A a \in Actors : phase[a] = "separated" => atStart

\* Only the last record of the pipe may be incomplete, and only once the
\* emitter is disabled ("A short write can leave an incomplete final JSONL
\* record", README.md:190): nothing is ever appended to a torn record.
TornIsLast == \A i \in DOMAIN pipe : pipe[i].torn => i = Len(pipe) /\ disabled

\* A disabled emitter has warned once, or is about to.
WarnInv ==
  IF disabled THEN warned + Len(todo[Warner]) = 1
  ELSE warned = 0 /\ todo[Warner] = <<>>

\* Where the goroutines of hook e are.  Only a hook that was launched has any;
\* the process and the copier of its output are over when it has been reaped.
Untouched(e) ==
  proc[e] = "none" /\ ~Busy(Side(e)) /\ ~Busy(Copier(e)) /\ ~Busy(Waiter(e))

IsCurrent(e) == at > 0 /\ e = Current
Reaping(e) == (IsCurrent(e) /\ todo[Main] = MReap) \/ todo[Waiter(e)] = WReap

HookInv(e) ==
  /\ ~Reached(e) \/ mode.dryRun => Untouched(e)
  /\ IsCurrent(e) /\ todo[Main] \in LaunchAhead => Untouched(e)
  /\ proc[e] = "alive" \/ Busy(Copier(e)) => Reaping(e)
  /\ Busy(Side(e)) => IsCurrent(e) /\ todo[Main] \in {MReap, MJoin}
  /\ Busy(Waiter(e)) => /\ Kind(e) = "async"
                        /\ IsCurrent(e) => todo[Main] \in {MSide, <<>>}

\* Past stopAndWait every wait goroutine is over.
StopInv ==
  at > 0 /\ Current = "shutdown" /\ todo[Main] \notin Stopping =>
    \A e \in Hooks : ~Busy(Waiter(e))

\* What stderr has about hook e: nothing after its end record, and a failure
\* before it only from a wait goroutine.
EndAhead(e) ==
  \/ ~Reached(e)
  \/ IsCurrent(e) /\ todo[Main] \in MainEndAhead
  \/ todo[Waiter(e)] \in WaiterEndAhead

Only(e, kinds) == \A i \in DOMAIN shown[e] : shown[e][i] \in kinds

ShownInv(e) ==
  /\ ~Reached(e) => shown[e] = <<>>
  /\ IsCurrent(e) /\ todo[Main] \in EventAhead => shown[e] = <<>>
  /\ IsCurrent(e) /\ todo[Main] \in StartAhead => Only(e, {"event"})
  /\ IsCurrent(e) /\ todo[Main] \in LaunchAhead => Only(e, {"event", "start"})
  /\ Only(e, IF mode.dryRun THEN {"event", "dry"}
             ELSE {"event", "start", "chunk", "end", "fail"})
  /\ Contains(shown[e], "start") => mode.verbose
  /\ EndAhead(e) => ~Contains(shown[e], "end")
  /\ Reached(e) /\ EndAhead(e) /\ Kind(e) = "sync" => ~Contains(shown[e], "fail")
  /\ ~EndAhead(e) /\ Contains(shown[e], "start") => Once(shown[e], "end")
  /\ ~mode.dryRun => InOrder(e)

\* Which record comes next on the pipe.
SideAhead == todo[Main] \in MainSideAhead \/ (at > 0 /\ Busy(Side(Current)))

\* The last record of a pipe that has not failed, if there is any.
NothingYet == at = 0 \/ (at = 1 /\ todo[Main] \in EmitAhead)
Latest == IF todo[Main] \in EmitAhead THEN Final(at - 1)
          ELSE IF SideAhead THEN <<"emit", Current>>
          ELSE Final(at)

PipeInv ==
  /\ \A i \in DOMAIN pipe :
       Reached(pipe[i].of) /\ (todo[Main] \in EmitAhead => pipe[i].of # Current)
  /\ pipe # <<>> => Record(1) = <<"emit", script[1].event>>
  /\ \A i \in 1 .. Len(pipe) - 1 : Follows(Record(i + 1), Record(i))
  /\ ~disabled => IF NothingYet THEN pipe = <<>>
                  ELSE pipe # <<>> /\ Record(Len(pipe)) = Latest

HooksInv == StopInv /\ \A e \in Hooks : HookInv(e)
ShapeInv == TypeOK /\ MainInv /\ OthersInv
WritesInv == LockInv /\ LineInv /\ TornIsLast /\ WarnInv
RecordsInv == PipeInv /\ \A e \in Hooks : ShownInv(e)

IInv == ShapeInv /\ WritesInv /\ HooksInv /\ RecordsInv

-----------------------------------------------------------------------------
(* The lists and the actors.                                               *)

\* A list's first operation, the rest and its length.
First(t)  == Head(t)
Rest(t)   == Tail(t)
Length(t) == Len(t)

\* The first operation of every list, what is left after it, and its length.
LEMMA Lists ==
  /\ Length(MStop) = 6 /\ First(MStop) = "lock" /\ Rest(MStop) = MStopUnlock
  /\ Length(MStopUnlock) = 5 /\ First(MStopUnlock) = "unlock" /\ Rest(MStopUnlock) = MAwait
  /\ Length(MAwait) = 4 /\ First(MAwait) = "await" /\ Rest(MAwait) = MEvent
  /\ Length(MEvent) = 3 /\ First(MEvent) = "event" /\ Rest(MEvent) = MEmit
  /\ Length(MEmit) = 2 /\ First(MEmit) = "emit" /\ Rest(MEmit) = MHook
  /\ Length(MHook) = 1 /\ First(MHook) = "hook" /\ Rest(MHook) = <<>>
  /\ Length(MLock) = 3 /\ First(MLock) = "lock" /\ Rest(MLock) = MStart
  /\ Length(MStart) = 2 /\ First(MStart) = "start" /\ Rest(MStart) = MLaunch
  /\ Length(MLaunch) = 1 /\ First(MLaunch) = "launch" /\ Rest(MLaunch) = <<>>
  /\ Length(MReap) = 4 /\ First(MReap) = "reap" /\ Rest(MReap) = MJoin
  /\ Length(MJoin) = 3 /\ First(MJoin) = "join" /\ Rest(MJoin) = MEnd
  /\ Length(MEnd) = 2 /\ First(MEnd) = "end" /\ Rest(MEnd) = MFail
  /\ Length(MFail) = 1 /\ First(MFail) = "fail" /\ Rest(MFail) = <<>>
  /\ Length(MUnstarted) = 3 /\ First(MUnstarted) = "side" /\ Rest(MUnstarted) = MEnd
  /\ Length(MSide) = 1 /\ First(MSide) = "side" /\ Rest(MSide) = <<>>
  /\ Length(AUnstarted) = 4 /\ First(AUnstarted) = "side" /\ Rest(AUnstarted) = AEnd
  /\ Length(AEnd) = 3 /\ First(AEnd) = "end" /\ Rest(AEnd) = AFail
  /\ Length(AFail) = 2 /\ First(AFail) = "fail" /\ Rest(AFail) = AUnlock
  /\ Length(AUnlock) = 1 /\ First(AUnlock) = "unlock" /\ Rest(AUnlock) = <<>>
  /\ Length(DSide) = 2 /\ First(DSide) = "side" /\ Rest(DSide) = DDry
  /\ Length(DDry) = 1 /\ First(DDry) = "dry" /\ Rest(DDry) = <<>>
  /\ Length(DLock) = 4 /\ First(DLock) = "lock" /\ Rest(DLock) = DASide
  /\ Length(DASide) = 3 /\ First(DASide) = "side" /\ Rest(DASide) = DADry
  /\ Length(DADry) = 2 /\ First(DADry) = "dry" /\ Rest(DADry) = AUnlock
  /\ Length(WReap) = 3 /\ First(WReap) = "reap" /\ Rest(WReap) = WLock
  /\ Length(WEnd) = 3 /\ First(WEnd) = "end" /\ Rest(WEnd) = WLock
  /\ Length(WFailEnd) = 4 /\ First(WFailEnd) = "fail" /\ Rest(WFailEnd) = WEnd
  /\ Length(WEndFail) = 4 /\ First(WEndFail) = "end" /\ Rest(WEndFail) = WFail
  /\ Length(WFailEndFail) = 5 /\ First(WFailEndFail) = "fail"
  /\ Rest(WFailEndFail) = WEndFail
  /\ Length(WFail) = 3 /\ First(WFail) = "fail" /\ Rest(WFail) = WLock
  /\ Length(WLock) = 2 /\ First(WLock) = "lock" /\ Rest(WLock) = WUnlock
  /\ Length(WUnlock) = 1 /\ First(WUnlock) = "unlock" /\ Rest(WUnlock) = <<>>
  /\ Length(SideTodo) = 1 /\ First(SideTodo) = "side" /\ Rest(SideTodo) = <<>>
  /\ Length(CopierTodo) = 1 /\ First(CopierTodo) = "chunk" /\ Rest(CopierTodo) = <<>>
  /\ Length(<<>>) = 0
BY DEF First, Rest, Length,
       MStop, MStopUnlock, MAwait, MEvent, MEmit, MHook, MLock, MStart, MLaunch,
       MReap, MJoin, MEnd, MFail, MUnstarted, MSide, AUnstarted, AEnd, AFail,
       AUnlock, DSide, DDry, DLock, DASide, DADry, WReap, WEnd, WFailEnd, WEndFail,
       WFailEndFail, WFail, WLock, WUnlock, SideTodo, CopierTodo

\* The lists are lists of operations.
LEMMA ListsTyped ==
  /\ MainTodo \subseteq Seq(Ops) /\ WaiterTodo \subseteq Seq(Ops)
  /\ {<<>>, SideTodo, CopierTodo} \subseteq Seq(Ops) /\ Seq({"warn"}) \subseteq Seq(Ops)
<1>1. {MStop, MStopUnlock, MAwait, MEvent} \subseteq Seq(Ops)
  BY DEF Ops, Lines, MStop, MStopUnlock, MAwait, MEvent
<1>2. {MEmit, MHook, MLock, MStart} \subseteq Seq(Ops)
  BY DEF Ops, Lines, MEmit, MHook, MLock, MStart
<1>3. {MLaunch, MReap, MJoin, MEnd} \subseteq Seq(Ops)
  BY DEF Ops, Lines, MLaunch, MReap, MJoin, MEnd
<1>4. {MFail, MUnstarted, MSide, AUnstarted} \subseteq Seq(Ops)
  BY DEF Ops, Lines, MFail, MUnstarted, MSide, AUnstarted
<1>5. {AEnd, AFail, AUnlock, DSide} \subseteq Seq(Ops)
  BY DEF Ops, Lines, AEnd, AFail, AUnlock, DSide
<1>6. {DDry, DLock, DASide, DADry} \subseteq Seq(Ops)
  BY DEF Ops, Lines, DDry, DLock, DASide, DADry
<1>7. {WReap, WEnd, WFailEnd, WEndFail} \subseteq Seq(Ops)
  BY DEF Ops, Lines, WReap, WEnd, WFailEnd, WEndFail
<1>8. {WFail, WLock, WUnlock, SideTodo} \subseteq Seq(Ops)
  BY DEF Ops, Lines, WFail, WLock, WUnlock, SideTodo
<1>9. {CopierTodo, WFailEndFail} \subseteq Seq(Ops)
  BY DEF Ops, Lines, CopierTodo, WFailEndFail
<1>10. <<>> \in Seq(Ops) /\ Seq({"warn"}) \subseteq Seq(Ops)
  BY DEF Ops, Lines
<1> QED BY <1>1, <1>2, <1>3, <1>4, <1>5, <1>6, <1>7, <1>8, <1>9, <1>10
  DEF WaiterTodo, MainTodo, Stopping, EventAhead, EmitAhead, StartAhead, LaunchAhead,
      SyncTodo, AsyncTodo, DryTodo

\* The actors are told apart by their names.
LEMMA ActorsDiffer ==
  /\ Nobody \notin Actors /\ {Main, Warner} \subseteq Actors /\ Main # Warner
  /\ \A e \in Hooks :
       /\ {Side(e), Copier(e), Waiter(e)} \subseteq Actors
       /\ {Side(e), Copier(e), Waiter(e)} \cap {Main, Warner} = {}
       /\ Side(e)[2] = e /\ Copier(e)[2] = e /\ Waiter(e)[2] = e
  /\ \A e, f \in Hooks :
       /\ Side(e) # Copier(f) /\ Side(e) # Waiter(f) /\ Copier(e) # Waiter(f)
       /\ e # f => Side(e) # Side(f) /\ Copier(e) # Copier(f) /\ Waiter(e) # Waiter(f)
BY DEF Actors, Nobody, Main, Side, Warner, Copier, Waiter

\* An event of the script has the hook the script says.
LEMMA ScriptHooks ==
  ASSUME TypeOK
  PROVE  /\ script \in Seq(Event) /\ Len(script) \in Nat /\ script # <<>> /\ mode \in Mode
         /\ \A i \in DOMAIN script :
              /\ script[i].event \in Hooks /\ script[i].event \in STRING
              /\ Kind(script[i].event) = script[i].hook /\ script[i].hook \in HookKinds
              /\ script[i].event = "shutdown" <=> i = Len(script)
         /\ \A i, j \in DOMAIN script : script[i].event = script[j].event => i = j
         /\ script[Len(script)].hook # "async"
<1> DEFINE r == [script |-> script, mode |-> mode]
<1>1. r \in Runs /\ r.script = script /\ r.mode = mode
  BY DEF TypeOK
<1>2. /\ script \in Seq(Event) /\ script # <<>> /\ mode \in Mode
      /\ \A i, j \in DOMAIN script : script[i].event = script[j].event => i = j
      /\ \A i \in DOMAIN script : script[i].event = "shutdown" <=> i = Len(script)
      /\ script[Len(script)].hook # "async"
  BY <1>1, RunsAssumption
<1>3. Len(script) \in Nat /\ \A i \in DOMAIN script : script[i] \in Event
  BY <1>2
<1>4. ASSUME NEW i \in DOMAIN script
      PROVE  /\ script[i].event \in Hooks
             /\ Kind(script[i].event) = script[i].hook
  <2>1. script[i] \in ToSet(script)
    BY <1>4 DEF ToSet
  <2>2. script[i].event \in Hooks
    BY <1>1, <2>1 DEF Hooks
  <2>3. \A s \in ToSet(script) : s.event = script[i].event => s = script[i]
    BY <1>2, <1>4 DEF ToSet
  <2>4. Hook(script[i].event) = script[i]
    BY <2>1, <2>3 DEF Hook
  <2> QED BY <2>2, <2>4 DEF Kind
<1> QED BY <1>2, <1>3, <1>4 DEF Event

\* What main has to do for a hook.
LEMMA HookLists ==
  ASSUME NEW kind \in HookKinds
  PROVE  HookOps(kind) = IF kind = "none" THEN <<>>
                         ELSE IF kind = "sync" THEN IF mode.dryRun THEN DSide ELSE MStart
                         ELSE IF mode.dryRun THEN DLock ELSE MLock
BY DEF HookOps, HookKinds, MStart, MLock, DSide, DLock

\* The current event.
LEMMA CurrentEvent ==
  ASSUME TypeOK, at > 0
  PROVE  /\ at \in 1 .. Len(script) /\ at \in DOMAIN script
         /\ Current \in Hooks /\ Kind(Current) \in HookKinds /\ Of(Main) = Current
         /\ Kind(Current) = script[at].hook /\ Reached(Current)
<1>1. at \in 1 .. Len(script) /\ DOMAIN script = 1 .. Len(script)
  BY ScriptHooks DEF TypeOK
<1> QED BY <1>1, ScriptHooks DEF Current, Of, Reached

\* Main's list after its first operation.
Advanced ==
  /\ todo[Main] # <<>>
  /\ todo'[Main] = IF Op(Main) = "hook" THEN HookOps(Kind(Current)) ELSE Rest(todo[Main])
  /\ UNCHANGED <<script, mode, at>>

\* Main goes forward: what it has passed stays behind it.
Forward ==
  /\ todo[Main] = MReap => todo'[Main] = MJoin
  /\ todo[Main] = MJoin => todo'[Main] = MEnd
  /\ todo'[Main] # MReap /\ (todo'[Main] = MJoin => todo[Main] = MReap)
  /\ todo[Main] = MSide => todo'[Main] = <<>>
  /\ todo[Main] \in EventAhead /\ todo'[Main] \notin EventAhead =>
       todo[Main] = MEvent /\ todo'[Main] = MEmit
  /\ todo[Main] \in EmitAhead /\ todo'[Main] \notin EmitAhead =>
       todo[Main] = MEmit /\ todo'[Main] = MHook
  /\ todo[Main] \in Stopping /\ todo'[Main] \notin Stopping =>
       todo[Main] = MAwait /\ todo'[Main] = MEvent
  /\ todo'[Main] \in Stopping => todo[Main] \in Stopping
  /\ todo'[Main] \in EventAhead => todo[Main] \in EventAhead
  /\ todo'[Main] \in EmitAhead => todo[Main] \in EmitAhead
  /\ todo'[Main] \in StartAhead => todo[Main] \in StartAhead
  /\ todo'[Main] \in LaunchAhead => todo[Main] \in LaunchAhead
  /\ todo'[Main] \in MainEndAhead => todo[Main] \in MainEndAhead
  /\ todo[Main] \in MainEndAhead /\ todo'[Main] \notin MainEndAhead =>
       todo[Main] \in {MHook, MEnd, AEnd}
  /\ Op(Main) = "side" => todo'[Main] \notin MainSideAhead
  /\ Op(Main) \notin {"emit", "side"} /\ (Op(Main) = "hook" => Kind(Current) # "none") =>
       (todo'[Main] \in MainSideAhead <=> todo[Main] \in MainSideAhead)

\* An operation of main's but the launch takes it forward.
LEMMA MainGoes ==
  ASSUME TypeOK, MainInv, Advanced, Op(Main) # "launch"
  PROVE  MainInv' /\ Forward /\ todo'[Main] \in Seq(Ops)
<1> DEFINE t == todo[Main]
           u == todo'[Main]
<1>1. /\ Current' = Current /\ Kind(Current') = Kind(Current) /\ Kind(Current)' = Kind(Current)
      /\ mode' = mode /\ at' = at
  BY DEF Advanced, Current, Kind, Hook
<1>2. Kind(Current) \in HookKinds /\ mode.dryRun \in BOOLEAN /\ at > 0
  BY CurrentEvent, ScriptHooks DEF Mode, MainInv, Advanced
<1>3. ASSUME t = MHook PROVE MainInv' /\ Forward
  <2>1. u = IF Kind(Current) = "none" THEN <<>>
            ELSE IF Kind(Current) = "sync" THEN IF mode.dryRun THEN DSide ELSE MStart
            ELSE IF mode.dryRun THEN DLock ELSE MLock
    BY <1>2, <1>3, Lists, HookLists DEF Advanced, Op, First
  <2>2. MainInv'
    BY <1>1, <1>2, <2>1, Lists
       DEF MainInv, MainTodo, Stopping, EventAhead, EmitAhead, StartAhead, LaunchAhead,
           SyncTodo, AsyncTodo, DryTodo, HookKinds
  <2>3. Op(Main) = First(t)
    BY DEF Op, First
  <2>4. Forward
    BY <1>2, <1>3, <2>1, <2>3, Lists
       DEF Forward, MainSideAhead, Stopping, EventAhead, EmitAhead, StartAhead,
           LaunchAhead, MainEndAhead
  <2> QED BY <2>2, <2>4
<1>4. ASSUME t # MHook PROVE MainInv' /\ Forward
  <2>1. u = Rest(t) /\ t # <<>> /\ t # MLaunch
    BY <1>4, Lists DEF Advanced, MainInv, Op, First, MainTodo, Stopping, EventAhead,
       EmitAhead, StartAhead, LaunchAhead, SyncTodo, AsyncTodo, DryTodo
  <2>2. \/ t = MStop /\ u = MStopUnlock
        \/ t = MStopUnlock /\ u = MAwait
        \/ t = MAwait /\ u = MEvent
        \/ t = MEvent /\ u = MEmit
        \/ t = MEmit /\ u = MHook
        \/ t = MLock /\ u = MStart
        \/ t = MStart /\ u = MLaunch
        \/ t = MReap /\ u = MJoin
        \/ t = MJoin /\ u = MEnd
        \/ t = MEnd /\ u = MFail
        \/ t = MFail /\ u = <<>>
        \/ t = MUnstarted /\ u = MEnd
        \/ t = MSide /\ u = <<>>
        \/ t = AUnstarted /\ u = AEnd
        \/ t = AEnd /\ u = AFail
        \/ t = AFail /\ u = AUnlock
        \/ t = AUnlock /\ u = <<>>
        \/ t = DSide /\ u = DDry
        \/ t = DDry /\ u = <<>>
        \/ t = DLock /\ u = DASide
        \/ t = DASide /\ u = DADry
        \/ t = DADry /\ u = AUnlock
    BY <1>4, <2>1, Lists
       DEF MainInv, MainTodo, Stopping, EventAhead, EmitAhead, StartAhead, LaunchAhead,
           SyncTodo, AsyncTodo, DryTodo
  <2>3. MainInv'
    BY <1>1, <1>2, <2>2, Lists
       DEF MainInv, MainTodo, Stopping, EventAhead, EmitAhead, StartAhead, LaunchAhead,
           SyncTodo, AsyncTodo, DryTodo
  <2>4. Op(Main) = First(t)
    BY DEF Op, First
  <2>5. Forward
    BY <1>4, <2>2, <2>4, Lists
       DEF MainSideAhead, MainTodo, Stopping, EventAhead, EmitAhead, StartAhead, LaunchAhead,
           SyncTodo, AsyncTodo, DryTodo, Forward, MainEndAhead
  <2> QED BY <2>3, <2>5
<1>5. u \in Seq(Ops)
  BY <1>3, <1>4, ListsTyped DEF MainInv
<1> QED BY <1>3, <1>4, <1>5

\* The list of a wait goroutine goes forward.
WaiterForward(e) ==
  /\ todo[Waiter(e)] # <<>>
  /\ todo'[Waiter(e)] \in WaiterTodo \ {WReap}
  /\ todo[Waiter(e)] = WReap => Drained(e)
  /\ todo'[Waiter(e)] \in WaiterEndAhead => todo[Waiter(e)] \in WaiterEndAhead
  /\ todo[Waiter(e)] \in WaiterEndAhead /\ todo'[Waiter(e)] \notin WaiterEndAhead =>
       Op(Waiter(e)) = "end"

\* Every operation of a wait goroutine takes it forward.
LEMMA WaiterGoes ==
  ASSUME NEW e \in Hooks, todo[Waiter(e)] \in WaiterTodo \ {<<>>, WReap},
         todo'[Waiter(e)] = Rest(todo[Waiter(e)])
  PROVE  WaiterForward(e)
<1> DEFINE t == todo[Waiter(e)]
           u == todo'[Waiter(e)]
<1>1. \/ t \in {WEnd, WFail} /\ u = WLock
      \/ t = WFailEnd /\ u = WEnd
      \/ t = WEndFail /\ u = WFail
      \/ t = WFailEndFail /\ u = WEndFail
      \/ t = WLock /\ u = WUnlock
      \/ t = WUnlock /\ u = <<>>
  BY Lists DEF WaiterTodo
<1> QED BY <1>1, Lists DEF WaiterForward, WaiterTodo, WaiterEndAhead, Op, First

\* Two lists in a row.
LEMMA Concatenation ==
  ASSUME NEW S, NEW s \in Seq(S), NEW t \in Seq(S), NEW u \in Seq(S),
         Len(u) = Len(s) + Len(t),
         \A i \in 1 .. Len(s) : u[i] = s[i],
         \A i \in 1 .. Len(t) : u[Len(s) + i] = t[i]
  PROVE  s \o t = u
<1>1. s \o t \in Seq(S) /\ Len(s \o t) = Len(u)
  OBVIOUS
<1>2. ASSUME NEW i \in 1 .. Len(u) PROVE (s \o t)[i] = u[i]
  <2>1. CASE i <= Len(s)
    BY <2>1
  <2>2. CASE i > Len(s)
    <3>1. i - Len(s) \in 1 .. Len(t) /\ Len(s) + (i - Len(s)) = i
      BY <2>2
    <3>2. (s \o t)[i] = t[i - Len(s)]
      BY <2>2
    <3> QED BY <3>1, <3>2
  <2> QED BY <2>1, <2>2
<1> QED BY <1>1, <1>2

\* So does the end of its hook.
LEMMA WaiterEndings ==
  \A more \in {<<"end">>, <<"fail", "end">>, <<"end", "fail">>, <<"fail", "end", "fail">>} :
    more \o Tail(WReap) \in {WEnd, WFailEnd, WEndFail, WFailEndFail}
<1> DEFINE S == {"end", "fail", "lock", "unlock"}
           one == <<"end">>
           two == <<"fail", "end">>
           three == <<"end", "fail">>
           four == <<"fail", "end", "fail">>
<1>1. Tail(WReap) = WLock
  BY Lists DEF Rest
<1>2. /\ one \in Seq(S) /\ two \in Seq(S) /\ three \in Seq(S) /\ four \in Seq(S)
      /\ WLock \in Seq(S)
      /\ Len(one) = 1 /\ one[1] = "end"
      /\ Len(two) = 2 /\ two[1] = "fail" /\ two[2] = "end"
      /\ Len(three) = 2 /\ three[1] = "end" /\ three[2] = "fail"
      /\ Len(four) = 3 /\ four[1] = "fail" /\ four[2] = "end" /\ four[3] = "fail"
      /\ Len(WLock) = 2 /\ WLock[1] = "lock" /\ WLock[2] = "unlock"
  BY DEF WLock
<1>3. /\ WEnd \in Seq(S) /\ WFailEnd \in Seq(S) /\ WEndFail \in Seq(S)
      /\ WFailEndFail \in Seq(S)
      /\ Len(WEnd) = 3 /\ WEnd[1] = "end" /\ WEnd[2] = "lock" /\ WEnd[3] = "unlock"
      /\ Len(WFailEnd) = 4 /\ WFailEnd[1] = "fail" /\ WFailEnd[2] = "end"
      /\ WFailEnd[3] = "lock" /\ WFailEnd[4] = "unlock"
      /\ Len(WEndFail) = 4 /\ WEndFail[1] = "end" /\ WEndFail[2] = "fail"
      /\ WEndFail[3] = "lock" /\ WEndFail[4] = "unlock"
      /\ Len(WFailEndFail) = 5 /\ WFailEndFail[1] = "fail" /\ WFailEndFail[2] = "end"
      /\ WFailEndFail[3] = "fail" /\ WFailEndFail[4] = "lock"
      /\ WFailEndFail[5] = "unlock"
  BY DEF WEnd, WFailEnd, WEndFail, WFailEndFail
<1> HIDE DEF S, one, two, three, four
<1>4. one \o WLock = WEnd
  <2>1. \A i \in 1 .. Len(one) : WEnd[i] = one[i]
    BY <1>2, <1>3
  <2>2. \A i \in 1 .. Len(WLock) : WEnd[Len(one) + i] = WLock[i]
    BY <1>2, <1>3
  <2>3. Len(WEnd) = Len(one) + Len(WLock)
    BY <1>2, <1>3
  <2> QED BY <1>2, <1>3, <2>1, <2>2, <2>3, Concatenation
<1>5. two \o WLock = WFailEnd
  <2>1. \A i \in 1 .. Len(two) : WFailEnd[i] = two[i]
    BY <1>2, <1>3
  <2>2. \A i \in 1 .. Len(WLock) : WFailEnd[Len(two) + i] = WLock[i]
    BY <1>2, <1>3
  <2>3. Len(WFailEnd) = Len(two) + Len(WLock)
    BY <1>2, <1>3
  <2> QED BY <1>2, <1>3, <2>1, <2>2, <2>3, Concatenation
<1>6. three \o WLock = WEndFail
  <2>1. \A i \in 1 .. Len(three) : WEndFail[i] = three[i]
    BY <1>2, <1>3
  <2>2. \A i \in 1 .. Len(WLock) : WEndFail[Len(three) + i] = WLock[i]
    BY <1>2, <1>3
  <2>3. Len(WEndFail) = Len(three) + Len(WLock)
    BY <1>2, <1>3
  <2> QED BY <1>2, <1>3, <2>1, <2>2, <2>3, Concatenation
<1>7. four \o WLock = WFailEndFail
  <2>1. \A i \in 1 .. Len(four) : WFailEndFail[i] = four[i]
    BY <1>2, <1>3
  <2>2. \A i \in 1 .. Len(WLock) : WFailEndFail[Len(four) + i] = WLock[i]
    BY <1>2, <1>3
  <2>3. Len(WFailEndFail) = Len(four) + Len(WLock)
    BY <1>2, <1>3
  <2> QED BY <1>2, <1>3, <2>1, <2>2, <2>3, Concatenation
<1> QED BY <1>1, <1>4, <1>5, <1>6, <1>7 DEF one, two, three, four

\* When its hook has been reaped it goes forward, too.
LEMMA WaiterReaps ==
  ASSUME NEW e \in Hooks, todo[Waiter(e)] = WReap, Drained(e),
         todo'[Waiter(e)] \in {WEnd, WFailEnd, WEndFail, WFailEndFail}
  PROVE  WaiterForward(e)
BY Lists DEF WaiterForward, WaiterTodo, WaiterEndAhead

-----------------------------------------------------------------------------
(* What a step leaves of what is known of a hook.                          *)

OnlyMoves(a) == \A b \in Actors \ {a, Warner} : todo'[b] = todo[b]

\* The event and the hooks stay the same until the next event.
LEMMA SameEvent ==
  ASSUME UNCHANGED <<script, mode, at>>
  PROVE  /\ Current' = Current /\ mode' = mode /\ at' = at
         /\ \A e : /\ Reached(e)' = Reached(e) /\ Kind(e)' = Kind(e)
                   /\ IsCurrent(e)' = IsCurrent(e)
BY DEF Current, Reached, Kind, Hook, IsCurrent

\* Where main goes on, what holds of the hook still holds.
LEMMA MainKeepsHook ==
  ASSUME TypeOK, MainInv, Advanced, Forward, OnlyMoves(Main), UNCHANGED proc,
         NEW e \in Hooks, HookInv(e),
         todo[Main] = MReap => Drained(Current),
         todo[Main] = MJoin => ~Busy(Side(Current))
  PROVE  HookInv(e)'
<1>1. /\ todo'[Side(e)] = todo[Side(e)] /\ todo'[Copier(e)] = todo[Copier(e)]
      /\ todo'[Waiter(e)] = todo[Waiter(e)] /\ proc'[e] = proc[e]
  BY ActorsDiffer DEF OnlyMoves
<1>2. /\ Current' = Current /\ mode' = mode /\ Reached(e)' = Reached(e)
      /\ Kind(e)' = Kind(e) /\ IsCurrent(e)' = IsCurrent(e)
  BY SameEvent DEF Advanced
<1>3. Untouched(e)' = Untouched(e)
  BY <1>1 DEF Untouched, Busy
<1>4. IsCurrent(e) => e = Current
  BY DEF IsCurrent
<1>5. (IsCurrent(e) /\ todo[Main] \in LaunchAhead => Untouched(e))'
  BY <1>2, <1>3 DEF HookInv, Forward
<1>6. (proc[e] = "alive" \/ Busy(Copier(e)) => Reaping(e))'
  BY <1>1, <1>2, <1>4 DEF HookInv, Forward, Reaping, Drained, Busy
<1>7. (Busy(Side(e)) => IsCurrent(e) /\ todo[Main] \in {MReap, MJoin})'
  BY <1>1, <1>2, <1>4 DEF HookInv, Forward, Busy
<1>8. (Busy(Waiter(e)) => /\ Kind(e) = "async"
                          /\ IsCurrent(e) => todo[Main] \in {MSide, <<>>})'
  BY <1>1, <1>2 DEF HookInv, Forward, Busy, Advanced
<1> QED BY <1>2, <1>3, <1>5, <1>6, <1>7, <1>8 DEF HookInv

\* Past stopAndWait no wait goroutine is left.
LEMMA MainKeepsStop ==
  ASSUME MainInv, Advanced, Forward, OnlyMoves(Main), StopInv,
         todo[Main] = MAwait => AllDone
  PROVE  StopInv'
<1>1. \A e \in Hooks : todo'[Waiter(e)] = todo[Waiter(e)]
  BY ActorsDiffer DEF OnlyMoves
<1>2. Current' = Current /\ at' = at
  BY SameEvent DEF Advanced
<1> QED BY <1>1, <1>2 DEF StopInv, Forward, AllDone, Busy

\* What a goroutine beside main does takes nothing from it either.
LEMMA OthersKeepHook ==
  ASSUME TypeOK, OthersInv, UNCHANGED <<script, mode, at, proc>>, todo'[Main] = todo[Main],
         NEW e \in Hooks, HookInv(e),
         \A b \in {Side(e), Copier(e), Waiter(e)} : Busy(b)' => Busy(b),
         todo[Waiter(e)] = WReap /\ todo'[Waiter(e)] # WReap => Drained(e),
         todo[Copier(e)] = <<>> => todo'[Copier(e)] = <<>>
  PROVE  HookInv(e)'
<1>1. /\ Current' = Current /\ mode' = mode /\ Reached(e)' = Reached(e)
      /\ Kind(e)' = Kind(e) /\ IsCurrent(e)' = IsCurrent(e)
  BY SameEvent
<1>2. Untouched(e) => Untouched(e)'
  BY DEF Untouched
<1>3. (proc[e] = "alive" \/ Busy(Copier(e)) => Reaping(e))'
  BY <1>1 DEF HookInv, Reaping, Drained, Busy
<1> QED BY <1>1, <1>2, <1>3 DEF HookInv

\* Nor does it bring a wait goroutine back.
LEMMA OthersKeepStop ==
  ASSUME UNCHANGED <<script, mode, at>>, todo'[Main] = todo[Main], StopInv,
         \A e \in Hooks : Busy(Waiter(e))' => Busy(Waiter(e))
  PROVE  StopInv'
BY SameEvent DEF StopInv

-----------------------------------------------------------------------------
(* The records of a hook on stderr.                                        *)

\* What a sequence contains when it has grown.
LEMMA Appended ==
  ASSUME NEW S, NEW s \in Seq(S), NEW k \in S
  PROVE  /\ Len(s) \in Nat /\ DOMAIN s = 1 .. Len(s)
         /\ Append(s, k) \in Seq(S) /\ Append(s, k) # <<>>
         /\ Len(Append(s, k)) = Len(s) + 1 /\ DOMAIN Append(s, k) = 1 .. Len(s) + 1
         /\ \A i \in 1 .. Len(s) : Append(s, k)[i] = s[i]
         /\ Append(s, k)[Len(s) + 1] = k
         /\ \A x : Contains(Append(s, k), x) <=> Contains(s, x) \/ x = k
<1>1. /\ Len(s) \in Nat /\ DOMAIN s = 1 .. Len(s)
      /\ Append(s, k) \in Seq(S) /\ Append(s, k) # <<>>
      /\ Len(Append(s, k)) = Len(s) + 1 /\ DOMAIN Append(s, k) = 1 .. Len(s) + 1
      /\ \A i \in 1 .. Len(s) : Append(s, k)[i] = s[i]
      /\ Append(s, k)[Len(s) + 1] = k
  OBVIOUS
<1> DEFINE t == Append(s, k)
<1>2. ASSUME NEW x PROVE Contains(t, x) <=> Contains(s, x) \/ x = k
  <2> HIDE DEF t
  <2>1. /\ Len(t) = Len(s) + 1 /\ \A i \in 1 .. Len(s) : t[i] = s[i]
        /\ t[Len(s) + 1] = k
    BY <1>1 DEF t
  <2> QED BY <1>1, <2>1 DEF Contains
<1> QED BY <1>1, <1>2

\* A record that was not there is there once.
LEMMA OnceAppended ==
  ASSUME NEW S, NEW s \in Seq(S), NEW k \in S
  PROVE  /\ ~Contains(s, k) => Once(Append(s, k), k)
         /\ \A x : Once(s, x) /\ x # k => Once(Append(s, k), x)
<1> DEFINE t == Append(s, k)
<1>1. /\ Len(s) \in Nat /\ DOMAIN s = 1 .. Len(s) /\ DOMAIN t = 1 .. Len(s) + 1
      /\ \A i \in 1 .. Len(s) : t[i] = s[i]
      /\ t[Len(s) + 1] = k
  BY Appended
<1> HIDE DEF t
<1>2. ASSUME ~Contains(s, k) PROVE Once(t, k)
  <2>1. \A i \in 1 .. Len(s) : s[i] # k
    BY <1>2 DEF Contains
  <2>2. \A j \in DOMAIN t : t[j] = k <=> j = Len(s) + 1
    BY <1>1, <2>1
  <2> QED BY <1>1, <2>2 DEF Once
<1>3. ASSUME NEW x, Once(s, x), x # k PROVE Once(t, x)
  <2>1. PICK i \in DOMAIN s : \A j \in DOMAIN s : s[j] = x <=> j = i
    BY <1>3 DEF Once
  <2>2. \A j \in DOMAIN t : t[j] = x <=> j = i
    BY <1>1, <1>3, <2>1
  <2> QED BY <1>1, <2>1, <2>2 DEF Once
<1> QED BY <1>2, <1>3 DEF t

\* A record of at least the rank of those before it keeps the order.
LEMMA OrderAppended ==
  ASSUME NEW e, InOrder(e), NEW S, shown[e] \in Seq(S), NEW k \in S,
         shown'[e] = Append(shown[e], k), Kind(e)' = Kind(e),
         \A i \in DOMAIN shown[e] :
           (Kind(e) = "async" => "fail" \notin {shown[e][i], k}) =>
             Rank[shown[e][i]] <= Rank[k]
  PROVE  InOrder(e)'
<1>1. /\ Len(shown[e]) \in Nat /\ DOMAIN shown[e] = 1 .. Len(shown[e])
      /\ DOMAIN shown'[e] = 1 .. Len(shown[e]) + 1
      /\ \A i \in 1 .. Len(shown[e]) : shown'[e][i] = shown[e][i]
      /\ shown'[e][Len(shown[e]) + 1] = k
  BY Appended
<1> SUFFICES ASSUME NEW i \in DOMAIN shown'[e], NEW j \in DOMAIN shown'[e], i < j,
                    Kind(e) = "async" => "fail" \notin {shown'[e][i], shown'[e][j]}
             PROVE  Rank[shown'[e][i]] <= Rank[shown'[e][j]]
  BY DEF InOrder
<1>2. i \in 1 .. Len(shown[e]) /\ shown'[e][i] = shown[e][i]
  BY <1>1
<1>3. CASE j = Len(shown[e]) + 1
  BY <1>1, <1>2, <1>3
<1>4. CASE j # Len(shown[e]) + 1
  <2>1. j \in 1 .. Len(shown[e]) /\ shown'[e][j] = shown[e][j]
    BY <1>1, <1>4
  <2> QED BY <1>1, <1>2, <2>1 DEF InOrder
<1> QED BY <1>3, <1>4

\* What has been reached is in the script.
LEMMA ReachedKind ==
  ASSUME TypeOK, NEW e, Reached(e)
  PROVE  Kind(e) \in HookKinds /\ e \in Hooks
<1>1. PICK i \in 1 .. at : script[i].event = e
  BY DEF Reached
<1>2. i \in DOMAIN script
  BY ScriptHooks DEF TypeOK
<1> QED BY <1>1, <1>2, ScriptHooks

\* Nothing is written, and main stays where it is or goes on; the end of a hook
\* is passed without a record only if records are not written.
LEMMA SilenceKeepsShown ==
  ASSUME TypeOK, UNCHANGED <<script, mode, at>>, NEW e \in Hooks, ShownInv(e),
         shown'[e] = shown[e],
         todo'[Main] = todo[Main] \/ (Advanced /\ Forward /\ MainInv),
         IsCurrent(e) /\ todo'[Main] # todo[Main] /\ todo[Main] \in {MEnd, AEnd} => ~mode.verbose,
         todo'[Waiter(e)] \in WaiterEndAhead => todo[Waiter(e)] \in WaiterEndAhead,
         todo[Waiter(e)] \in WaiterEndAhead /\ todo'[Waiter(e)] \notin WaiterEndAhead =>
           ~mode.verbose
  PROVE  ShownInv(e)'
<1>1. /\ Current' = Current /\ mode' = mode /\ Reached(e)' = Reached(e) /\ at' = at
      /\ Kind(e)' = Kind(e) /\ IsCurrent(e)' = IsCurrent(e)
  BY SameEvent
<1>2. /\ \A k : Contains(shown[e], k)' = Contains(shown[e], k)
      /\ Once(shown[e], "end")' = Once(shown[e], "end")
      /\ \A kinds : Only(e, kinds)' = Only(e, kinds)
      /\ InOrder(e)' = InOrder(e)
  BY <1>1 DEF Contains, Once, Only, InOrder
<1>3. EndAhead(e)' => EndAhead(e)
  BY <1>1 DEF EndAhead, Forward
<1>4. EndAhead(e) /\ ~EndAhead(e)' => ~Contains(shown[e], "start")
  <2>1. CASE ~mode.verbose
    BY <2>1 DEF ShownInv
  <2>2. CASE mode.verbose /\ EndAhead(e) /\ ~EndAhead(e)'
    <3>1. IsCurrent(e) /\ todo[Main] = MHook
      BY <1>1, <2>2 DEF EndAhead, Forward
    <3>2. Only(e, {"event"})
      BY <3>1 DEF ShownInv, StartAhead
    <3> QED BY <3>2 DEF Only, Contains, TypeOK
  <2> QED BY <2>1, <2>2
<1>5. \A S \in {EventAhead, StartAhead, LaunchAhead} :
        todo'[Main] \in S => todo[Main] \in S
  BY DEF Forward
<1>6. (EndAhead(e) => ~Contains(shown[e], "end"))'
  BY <1>2, <1>3 DEF ShownInv
<1>7. (Reached(e) /\ EndAhead(e) /\ Kind(e) = "sync" => ~Contains(shown[e], "fail"))'
  BY <1>1, <1>2, <1>3 DEF ShownInv
<1>8. (~EndAhead(e) /\ Contains(shown[e], "start") => Once(shown[e], "end"))'
  BY <1>2, <1>4 DEF ShownInv
<1>9. /\ (~Reached(e) => shown[e] = <<>>)'
      /\ (IsCurrent(e) /\ todo[Main] \in EventAhead => shown[e] = <<>>)'
      /\ (IsCurrent(e) /\ todo[Main] \in StartAhead => Only(e, {"event"}))'
      /\ (IsCurrent(e) /\ todo[Main] \in LaunchAhead => Only(e, {"event", "start"}))'
  BY <1>1, <1>2, <1>5 DEF ShownInv
<1>10. /\ Only(e, IF mode.dryRun THEN {"event", "dry"}
             ELSE {"event", "start", "chunk", "end", "fail"})'
       /\ (Contains(shown[e], "start") => mode.verbose)'
       /\ (~mode.dryRun => InOrder(e))'
  BY <1>1, <1>2 DEF ShownInv
<1> QED BY <1>6, <1>7, <1>8, <1>9, <1>10 DEF ShownInv

\* The end record is written: nothing but it and a failure after it ends the hook.
LEMMA EndKeepsShown ==
  ASSUME TypeOK, UNCHANGED <<script, mode, at>>, NEW e \in Hooks, ShownInv(e),
         shown'[e] = Append(shown[e], "end"), Reached(e), ~mode.dryRun, Kind(e) # "none",
         EndAhead(e), ~EndAhead(e)', IsCurrent(e) => todo'[Main] \notin LaunchAhead
  PROVE  ShownInv(e)'
<1>1. /\ Current' = Current /\ mode' = mode /\ Reached(e)' = Reached(e) /\ at' = at
      /\ Kind(e)' = Kind(e) /\ IsCurrent(e)' = IsCurrent(e)
  BY SameEvent
<1>2. shown[e] \in Seq(Lines \cup {"chunk"}) /\ "end" \in Lines \cup {"chunk"}
  BY DEF TypeOK, Lines
<1>3. \A x : Contains(shown'[e], x) <=> Contains(shown[e], x) \/ x = "end"
  BY <1>2, Appended
<1>4. Once(shown'[e], "end")
  BY <1>2, OnceAppended DEF ShownInv
<1>5. Only(e, {"event", "start", "chunk", "end", "fail"})'
  BY <1>2, Appended DEF ShownInv, Only
<1>6. InOrder(e)'
  <2>1. ASSUME NEW i \in DOMAIN shown[e],
               Kind(e) = "async" => "fail" \notin {shown[e][i], "end"}
        PROVE  Rank[shown[e][i]] <= Rank["end"]
    <3>1. shown[e][i] \in {"event", "start", "chunk", "end", "fail"}
      BY DEF ShownInv, Only
    <3>2. Kind(e) # "async" => ~Contains(shown[e], "fail")
      BY ReachedKind DEF ShownInv, HookKinds
    <3>3. shown[e][i] # "fail"
      BY <1>2, <2>1, <3>2, Appended DEF Contains
    <3> QED BY <3>1, <3>3 DEF Rank
  <2> QED BY <1>1, <1>2, <2>1, OrderAppended DEF ShownInv
<1>7. EventAhead \subseteq LaunchAhead /\ StartAhead \subseteq LaunchAhead
  BY DEF EventAhead, EmitAhead, StartAhead, LaunchAhead
<1> QED BY <1>1, <1>3, <1>4, <1>5, <1>6, <1>7 DEF ShownInv

\* Another record is written: it does not end the hook.
LEMMA RecordKeepsShown ==
  ASSUME TypeOK, UNCHANGED <<script, mode, at>>, NEW e \in Hooks, ShownInv(e),
         NEW k, shown'[e] = Append(shown[e], k), Reached(e), (EndAhead(e)' <=> EndAhead(e)),
         k \in IF mode.dryRun THEN {"event", "dry"} ELSE {"event", "start", "chunk", "fail"},
         k = "start" => EndAhead(e) /\ mode.verbose,
         k = "fail" /\ EndAhead(e) => Kind(e) = "async",
         IsCurrent(e) => todo'[Main] \notin EventAhead,
         IsCurrent(e) /\ todo'[Main] \in StartAhead => k = "event" /\ Only(e, {"event"}),
         IsCurrent(e) /\ todo'[Main] \in LaunchAhead =>
           k \in {"event", "start"} /\ Only(e, {"event", "start"}),
         ~mode.dryRun =>
           \A i \in DOMAIN shown[e] :
             (Kind(e) = "async" => "fail" \notin {shown[e][i], k}) =>
               Rank[shown[e][i]] <= Rank[k]
  PROVE  ShownInv(e)'
<1>1. /\ Current' = Current /\ mode' = mode /\ Reached(e)' = Reached(e) /\ at' = at
      /\ Kind(e)' = Kind(e) /\ IsCurrent(e)' = IsCurrent(e)
  BY SameEvent
<1>2. shown[e] \in Seq(Lines \cup {"chunk"}) /\ k \in Lines \cup {"chunk"} /\ k # "end"
  BY DEF TypeOK, Lines
<1>3. \A x : Contains(shown'[e], x) <=> Contains(shown[e], x) \/ x = k
  BY <1>2, Appended
<1>4. Once(shown[e], "end") => Once(shown'[e], "end")
  BY <1>2, OnceAppended
<1>5. ASSUME NEW kinds, Only(e, kinds), k \in kinds PROVE Only(e, kinds)'
  BY <1>2, <1>5, Appended DEF Only
<1>6. ~mode.dryRun => InOrder(e)'
  BY <1>1, <1>2, OrderAppended DEF ShownInv
<1>7. /\ (EndAhead(e) => ~Contains(shown[e], "end"))'
      /\ (Reached(e) /\ EndAhead(e) /\ Kind(e) = "sync" => ~Contains(shown[e], "fail"))'
      /\ (~EndAhead(e) /\ Contains(shown[e], "start") => Once(shown[e], "end"))'
      /\ (Contains(shown[e], "start") => mode.verbose)'
  BY <1>1, <1>2, <1>3, <1>4 DEF ShownInv
<1>8. /\ (~Reached(e) => shown[e] = <<>>)'
      /\ (IsCurrent(e) /\ todo[Main] \in EventAhead => shown[e] = <<>>)'
      /\ (IsCurrent(e) /\ todo[Main] \in StartAhead => Only(e, {"event"}))'
      /\ (IsCurrent(e) /\ todo[Main] \in LaunchAhead => Only(e, {"event", "start"}))'
  BY <1>1, <1>5
<1>9. Only(e, IF mode.dryRun THEN {"event", "dry"}
              ELSE {"event", "start", "chunk", "end", "fail"})'
  BY <1>1, <1>5 DEF ShownInv
<1> QED BY <1>1, <1>6, <1>7, <1>8, <1>9 DEF ShownInv

-----------------------------------------------------------------------------
(* The records of the pipe.                                                *)


\* Nothing is written to the pipe, and no record is passed but by a disabled
\* emitter.
LEMMA SilenceKeepsPipe ==
  ASSUME TypeOK, UNCHANGED <<script, mode, at, pipe>>, PipeInv,
         todo'[Main] \in EmitAhead => todo[Main] \in EmitAhead,
         ~disabled' =>
           /\ ~disabled
           /\ todo[Main] \in EmitAhead => todo'[Main] \in EmitAhead
           /\ (SideAhead' <=> SideAhead) \/ (at > 0 /\ Kind(Current) = "none")
  PROVE  PipeInv'
<1>1. /\ Current' = Current /\ at' = at /\ script' = script /\ pipe' = pipe
      /\ \A e : Reached(e)' = Reached(e)
  BY SameEvent
<1>2. /\ \A i : Record(i)' = Record(i) /\ Final(i)' = Final(i)
      /\ \A r, q : Follows(r, q)' = Follows(r, q)
  BY DEF Record, Final, Follows
<1>3. at > 0 /\ Kind(Current) = "none" => Final(at) = <<"emit", Current>>
  BY CurrentEvent DEF Final, Current
<1>4. /\ (\A i \in DOMAIN pipe :
            Reached(pipe[i].of) /\ (todo[Main] \in EmitAhead => pipe[i].of # Current))'
      /\ (pipe # <<>> => Record(1) = <<"emit", script[1].event>>)'
      /\ (\A i \in 1 .. Len(pipe) - 1 : Follows(Record(i + 1), Record(i)))'
  BY <1>1, <1>2 DEF PipeInv
<1>5. Record(Len(pipe))' = Record(Len(pipe))
  BY <1>1 DEF Record
<1>6. ASSUME ~disabled'
      PROVE  NothingYet' = NothingYet /\ (NothingYet \/ Latest' = Latest)
  <2>1. todo'[Main] \in EmitAhead <=> todo[Main] \in EmitAhead
    BY <1>6
  <2>2. NothingYet' = NothingYet
    BY <1>1, <2>1 DEF NothingYet
  <2>3. CASE at = 0
    BY <2>2, <2>3 DEF NothingYet
  <2>4. CASE at # 0
    <3>1. at > 0 /\ Final(at)' = Final(at) /\ Final(at - 1)' = Final(at - 1)
      BY <1>1, <1>2, <2>4 DEF TypeOK, Final
    <3> QED BY <1>1, <1>3, <1>6, <2>1, <2>2, <3>1 DEF Latest
  <2> QED BY <2>3, <2>4
<1>7. (~disabled => IF NothingYet THEN pipe = <<>>
                    ELSE pipe # <<>> /\ Record(Len(pipe)) = Latest)'
  BY <1>1, <1>5, <1>6 DEF PipeInv
<1> QED BY <1>4, <1>7 DEF PipeInv

\* What the pipe holds when a record has been added.
LEMMA PutAppends ==
  ASSUME TypeOK, NEW a \in Actors, Of(a) \in Hooks, Op(a) \in {"emit", "side"},
         NEW torn \in BOOLEAN, Put(a, torn), script' = script
  PROVE  /\ pipe' \in Seq([kind : {"emit", "side"}, of : Hooks, torn : BOOLEAN])
         /\ Len(pipe) \in Nat /\ DOMAIN pipe = 1 .. Len(pipe) /\ pipe' # <<>>
         /\ Len(pipe') = Len(pipe) + 1 /\ DOMAIN pipe' = 1 .. Len(pipe) + 1
         /\ \A i \in 1 .. Len(pipe) : pipe'[i] = pipe[i] /\ Record(i)' = Record(i)
         /\ pipe'[Len(pipe) + 1].of = Of(a) /\ pipe'[Len(pipe) + 1].torn = torn
         /\ \A i : i = Len(pipe) + 1 => Record(i)' = <<Op(a), Of(a)>>
<1> DEFINE r == [kind |-> Op(a), of |-> Of(a), torn |-> torn]
           S == [kind : {"emit", "side"}, of : Hooks, torn : BOOLEAN]
<1>1. r \in S /\ r.kind = Op(a) /\ r.of = Of(a) /\ r.torn = torn
  OBVIOUS
<1>2. pipe' = Append(pipe, r) /\ pipe \in Seq(S)
  BY DEF Put, TypeOK
<1> HIDE DEF r, S
<1>3. /\ Len(pipe) \in Nat /\ DOMAIN pipe = 1 .. Len(pipe)
      /\ pipe' \in Seq(S) /\ pipe' # <<>>
      /\ Len(pipe') = Len(pipe) + 1 /\ DOMAIN pipe' = 1 .. Len(pipe) + 1
      /\ \A i \in 1 .. Len(pipe) : pipe'[i] = pipe[i]
      /\ pipe'[Len(pipe) + 1] = r
  BY <1>1, <1>2, Appended
<1> QED BY <1>1, <1>3 DEF Record, S

\* An event's record follows the last record about the event before it, a side
\* effect's record that of its event.
LEMMA PutKeepsPipe ==
  ASSUME TypeOK, UNCHANGED <<script, mode, at>>, PipeInv, at > 0, ~disabled,
         NEW a \in Actors, Op(a) \in {"emit", "side"}, Of(a) = Current,
         NEW torn \in BOOLEAN, Put(a, torn), todo'[Main] \notin EmitAhead,
         Op(a) = "emit" => todo[Main] \in EmitAhead /\ SideAhead',
         Op(a) = "side" => /\ todo[Main] \notin EmitAhead /\ SideAhead /\ ~SideAhead'
                           /\ Kind(Current) # "none"
  PROVE  PipeInv'
<1>1. /\ Current' = Current /\ at' = at /\ script' = script
      /\ \A e : Reached(e)' = Reached(e)
      /\ \A i : Final(i)' = Final(i)
      /\ \A r, q : Follows(r, q)' = Follows(r, q)
  BY SameEvent DEF Final, Follows
<1>2. /\ at \in 1 .. Len(script) /\ at \in DOMAIN script /\ Current \in Hooks
      /\ Kind(Current) = script[at].hook /\ Current = script[at].event /\ Reached(Current)
  BY CurrentEvent DEF Current
<1>3. /\ Len(pipe) \in Nat /\ DOMAIN pipe = 1 .. Len(pipe) /\ pipe' # <<>>
      /\ Len(pipe') = Len(pipe) + 1 /\ DOMAIN pipe' = 1 .. Len(pipe) + 1
      /\ \A i \in 1 .. Len(pipe) : pipe'[i] = pipe[i] /\ Record(i)' = Record(i)
      /\ pipe'[Len(pipe) + 1].of = Current
      /\ \A i : i = Len(pipe) + 1 => Record(i)' = <<Op(a), Current>>
  BY <1>2, PutAppends
<1>4. pipe = <<>> <=> Len(pipe) = 0
  BY DEF TypeOK
<1>5. /\ Len(pipe) = 0 => Op(a) = "emit" /\ at = 1
      /\ Len(pipe) # 0 => Follows(<<Op(a), Current>>, Record(Len(pipe)))
  <2>1. CASE Op(a) = "emit"
    <3>1. CASE at = 1
      BY <1>4, <2>1, <3>1 DEF PipeInv, NothingYet
    <3>2. CASE at # 1
      <4>1. Len(pipe) # 0 /\ Record(Len(pipe)) = Final(at - 1)
        BY <1>2, <1>4, <2>1, <3>2 DEF PipeInv, NothingYet, Latest
      <4> QED BY <1>2, <2>1, <3>2, <4>1 DEF Follows
    <3> QED BY <3>1, <3>2
  <2>2. CASE Op(a) = "side"
    <3>1. Len(pipe) # 0 /\ Record(Len(pipe)) = <<"emit", Current>>
      BY <1>2, <1>4, <2>2 DEF PipeInv, NothingYet, Latest
    <3> QED BY <1>2, <2>2, <3>1 DEF Follows
  <2> QED BY <2>1, <2>2
<1>6. (\A i \in DOMAIN pipe :
         Reached(pipe[i].of) /\ (todo[Main] \in EmitAhead => pipe[i].of # Current))'
  <2>1. ASSUME NEW i \in DOMAIN pipe' PROVE Reached(pipe'[i].of)
    <3>1. CASE i \in 1 .. Len(pipe)
      BY <1>3, <3>1 DEF PipeInv
    <3>2. CASE i = Len(pipe) + 1
      BY <1>2, <1>3, <3>2
    <3> QED BY <1>3, <2>1, <3>1, <3>2
  <2> QED BY <1>1, <2>1
<1>7. (pipe # <<>> => Record(1) = <<"emit", script[1].event>>)'
  BY <1>1, <1>2, <1>3, <1>4, <1>5 DEF PipeInv
<1>8. (\A i \in 1 .. Len(pipe) - 1 : Follows(Record(i + 1), Record(i)))'
  <2> SUFFICES ASSUME NEW i \in 1 .. Len(pipe)
               PROVE  Follows(Record(i + 1)', Record(i)')
    BY <1>1, <1>3
  <2>1. CASE i = Len(pipe)
    BY <1>3, <1>5, <2>1
  <2>2. CASE i # Len(pipe)
    <3> DEFINE n == Len(pipe)
    <3>1. n \in Nat /\ i \in 1 .. n /\ i # n
      BY <1>3, <2>2
    <3> HIDE DEF n
    <3>2. i \in 1 .. n - 1 /\ i + 1 \in 1 .. n
      BY <3>1
    <3>3. Record(i + 1)' = Record(i + 1) /\ Record(i)' = Record(i)
      BY <1>3, <3>2 DEF n
    <3> QED BY <3>2, <3>3 DEF PipeInv, n
  <2> QED BY <2>1, <2>2
<1>9. Op(a) = "side" => <<Op(a), Current>> = Final(at)
  BY <1>2 DEF Final
<1>10. (~disabled => IF NothingYet THEN pipe = <<>>
                     ELSE pipe # <<>> /\ Record(Len(pipe)) = Latest)'
  BY <1>1, <1>2, <1>3, <1>9 DEF NothingYet, Latest
<1> QED BY <1>6, <1>7, <1>8, <1>10 DEF PipeInv

-----------------------------------------------------------------------------
(* Who takes a step.                                                       *)

\* The warner has nothing to do but to warn.
LEMMA WarnerWarns ==
  ASSUME ShapeInv, Busy(Warner) PROVE Op(Warner) = "warn"
<1>1. todo[Warner] \in Seq({"warn"}) /\ todo[Warner] # <<>>
  BY DEF ShapeInv, OthersInv, Busy
<1>2. Head(todo[Warner]) = "warn"
  BY <1>1
<1> QED BY <1>2 DEF Op

\* A busy goroutine is main, or one whose list says what it is.
LEMMA Roles ==
  ASSUME ShapeInv, NEW a \in Actors, Busy(a)
  PROVE  \/ a = Main
         \/ a = Warner /\ Op(a) = "warn"
         \/ \E e \in Hooks : /\ a = Side(e) /\ Of(a) = e /\ todo[a] = SideTodo
                             /\ Op(a) = "side"
         \/ \E e \in Hooks : /\ a = Copier(e) /\ Of(a) = e /\ todo[a] = CopierTodo
                             /\ Op(a) = "chunk"
         \/ \E e \in Hooks : /\ a = Waiter(e) /\ Of(a) = e
                             /\ todo[a] \in WaiterTodo \ {<<>>}
                             /\ Op(a) \in {"reap", "end", "fail", "lock", "unlock"}
                             /\ Op(a) = "reap" => todo[a] = WReap
<1>1. CASE a = Warner
  BY <1>1, WarnerWarns
<1>2. ASSUME NEW e \in Hooks, a = Side(e)
      PROVE Of(a) = e /\ todo[a] = SideTodo /\ Op(a) = "side"
  BY <1>2, ActorsDiffer, Lists DEF ShapeInv, OthersInv, Busy, Of, Op, First
<1>3. ASSUME NEW e \in Hooks, a = Copier(e)
      PROVE Of(a) = e /\ todo[a] = CopierTodo /\ Op(a) = "chunk"
  BY <1>3, ActorsDiffer, Lists DEF ShapeInv, OthersInv, Busy, Of, Op, First
<1>4. ASSUME NEW e \in Hooks, a = Waiter(e)
      PROVE /\ Of(a) = e /\ todo[a] \in WaiterTodo \ {<<>>}
            /\ Op(a) \in {"reap", "end", "fail", "lock", "unlock"}
            /\ Op(a) = "reap" => todo[a] = WReap
  <2>1. Of(a) = e /\ todo[a] \in WaiterTodo \ {<<>>}
    BY <1>4, ActorsDiffer DEF ShapeInv, OthersInv, Busy, Of
  <2>2. Op(a) = First(todo[a])
    BY DEF Op, First
  <2> QED BY <2>1, <2>2, Lists DEF WaiterTodo
<1> QED BY <1>1, <1>2, <1>3, <1>4 DEF Actors

\* Main's operation says which of its lists it has left.
LEMMA MainOps ==
  ASSUME MainInv, Busy(Main)
  PROVE  /\ Op(Main) \in Ops \ {"chunk", "warn"}
         /\ Op(Main) = "event" => todo[Main] = MEvent
         /\ Op(Main) = "emit" => todo[Main] = MEmit
         /\ Op(Main) = "hook" <=> todo[Main] = MHook
         /\ Op(Main) = "start" => todo[Main] = MStart
         /\ Op(Main) = "launch" <=> todo[Main] = MLaunch
         /\ Op(Main) = "reap" <=> todo[Main] = MReap
         /\ Op(Main) = "join" <=> todo[Main] = MJoin
         /\ Op(Main) = "await" <=> todo[Main] = MAwait
         /\ Op(Main) = "end" <=> todo[Main] \in {MEnd, AEnd}
         /\ Op(Main) = "fail" => todo[Main] \in {MFail, AFail}
         /\ Op(Main) = "dry" => todo[Main] \in {DDry, DADry}
         /\ Op(Main) = "side" =>
              todo[Main] \in {MUnstarted, MSide, AUnstarted, DSide, DASide}
<1>1. Op(Main) = First(todo[Main]) /\ todo[Main] # <<>>
  BY DEF Op, First, Busy
<1> QED BY <1>1, Lists
    DEF MainInv, MainTodo, Stopping, EventAhead, EmitAhead, StartAhead, LaunchAhead,
        SyncTodo, AsyncTodo, DryTodo, Ops, Lines

\* The first operation of a goroutine is over.
Over(a) ==
  /\ Busy(a) /\ OnlyMoves(a)
  /\ todo'[a] = IF Op(a) = "hook" THEN HookOps(Kind(Of(a))) ELSE Rest(todo[a])
  /\ todo'[Warner] \in Seq({"warn"})
  /\ UNCHANGED <<script, mode, at, proc>>

\* Every goroutine's list is as it should be, and what is known of the hooks still
\* holds, when an operation is over.
LEMMA OverKeeps ==
  ASSUME ShapeInv, HooksInv, NEW a \in Actors, Over(a), Op(a) # "launch",
         Op(a) = "reap" => a = Main /\ Drained(Of(a)),
         Op(a) = "join" => Joined(a),
         Op(a) = "await" => AllDone
  PROVE  /\ MainInv' /\ OthersInv' /\ HooksInv'
         /\ \A b \in Actors : todo'[b] \in Seq(Ops)
         /\ IF a = Main THEN Advanced /\ Forward ELSE todo'[Main] = todo[Main]
         /\ \A e \in Hooks : IF a = Waiter(e) THEN WaiterForward(e)
                             ELSE todo'[Waiter(e)] = todo[Waiter(e)]
<1>1. TypeOK /\ MainInv /\ OthersInv
  BY DEF ShapeInv
<1>2. MainInv /\ todo'[Main] = todo[Main] /\ UNCHANGED <<script, mode, at>> => MainInv'
  <2>1. UNCHANGED <<script, mode, at>> => \A e : Kind(e)' = Kind(e) /\ Current' = Current
    BY SameEvent
  <2> QED BY <2>1 DEF MainInv
<1>3. ASSUME a = Main
      PROVE  MainInv' /\ OthersInv' /\ HooksInv' /\ Advanced /\ Forward
             /\ \A e \in Hooks : todo'[Waiter(e)] = todo[Waiter(e)]
  <2>1. Advanced
    <3>1. Of(Main) = Current
      BY DEF Of, Current
    <3> QED BY <1>3, <3>1 DEF Over, Advanced, Busy
  <2>2. MainInv' /\ Forward
    BY <1>1, <1>3, <2>1, MainGoes
  <2>3. Of(Main) = Current
    BY DEF Of, Current
  <2>4. Busy(Main) /\ OnlyMoves(Main) /\ proc' = proc
    BY <1>3 DEF Over
  <2>5. /\ todo[Main] = MReap => Drained(Current)
        /\ todo[Main] = MJoin => ~Busy(Side(Current))
        /\ todo[Main] = MAwait => AllDone
    BY <1>1, <1>3, <2>3, <2>4, MainOps DEF Joined
  <2>6. HooksInv'
    BY <1>1, <2>1, <2>2, <2>4, <2>5, MainKeepsHook, MainKeepsStop DEF HooksInv
  <2>7. OthersInv' /\ \A e \in Hooks : todo'[Waiter(e)] = todo[Waiter(e)]
    BY <1>1, <1>3, <2>4, ActorsDiffer DEF Over, OnlyMoves, OthersInv
  <2> QED BY <2>1, <2>2, <2>6, <2>7
<1>4. ASSUME a # Main
      PROVE  /\ MainInv' /\ OthersInv' /\ HooksInv' /\ todo'[Main] = todo[Main]
             /\ \A e \in Hooks : IF a = Waiter(e) THEN WaiterForward(e)
                                 ELSE todo'[Waiter(e)] = todo[Waiter(e)]
  <2>1. todo'[Main] = todo[Main] /\ MainInv' /\ UNCHANGED <<script, mode, at, proc>>
    BY <1>1, <1>2, <1>4, ActorsDiffer DEF Over, OnlyMoves
  <2>2. todo'[a] = Rest(todo[a]) /\ Op(a) \notin {"hook", "reap"}
    BY <1>4, Roles DEF Over
  <2>3. ASSUME NEW e \in Hooks
        PROVE  /\ todo'[Side(e)] = IF a = Side(e) THEN <<>> ELSE todo[Side(e)]
               /\ todo'[Copier(e)] = IF a = Copier(e) THEN <<>> ELSE todo[Copier(e)]
               /\ IF a = Waiter(e) THEN WaiterForward(e)
                  ELSE todo'[Waiter(e)] = todo[Waiter(e)]
    <3>1. /\ a # Side(e) => todo'[Side(e)] = todo[Side(e)]
          /\ a # Copier(e) => todo'[Copier(e)] = todo[Copier(e)]
          /\ a # Waiter(e) => todo'[Waiter(e)] = todo[Waiter(e)]
      BY ActorsDiffer DEF Over, OnlyMoves
    <3>2. a = Side(e) => todo'[Side(e)] = <<>>
      BY <1>1, <2>2, Lists DEF Over, Busy, OthersInv
    <3>3. a = Copier(e) => todo'[Copier(e)] = <<>>
      BY <1>1, <2>2, Lists DEF Over, Busy, OthersInv
    <3>4. a = Waiter(e) => WaiterForward(e)
      <4>1. a = Waiter(e) => todo[Waiter(e)] \in WaiterTodo \ {<<>>}
        BY <1>1 DEF Over, Busy, OthersInv
      <4>2. a = Waiter(e) => todo[Waiter(e)] # WReap
        BY <2>2, Lists DEF Op, First
      <4> QED BY <2>2, <4>1, <4>2, WaiterGoes
    <3> QED BY <3>1, <3>2, <3>3, <3>4
  <2>4. OthersInv'
    BY <1>1, <2>3 DEF OthersInv, Over, WaiterForward
  <2>5. \A e \in Hooks : \A b \in {Side(e), Copier(e), Waiter(e)} : Busy(b)' => Busy(b)
    BY <2>3 DEF Busy, WaiterForward
  <2>6. ASSUME NEW e \in Hooks PROVE HookInv(e)'
    <3>1. todo[Copier(e)] = <<>> => todo'[Copier(e)] = <<>>
      BY <2>3
    <3>2. todo[Waiter(e)] = WReap /\ todo'[Waiter(e)] # WReap => Drained(e)
      BY <2>3 DEF WaiterForward
    <3> QED BY <1>1, <2>1, <2>5, <3>1, <3>2, OthersKeepHook DEF HooksInv
  <2>7. StopInv'
    BY <2>1, <2>5, OthersKeepStop DEF HooksInv
  <2> QED BY <2>1, <2>3, <2>4, <2>6, <2>7 DEF HooksInv
<1>5. ASSUME NEW b \in Actors PROVE todo'[b] \in Seq(Ops)
  BY <1>3, <1>4, ListsTyped DEF Actors, MainInv, OthersInv
<1>6. CASE a = Main
  BY <1>3, <1>5, <1>6, ActorsDiffer
<1>7. CASE a # Main
  BY <1>4, <1>5, <1>7
<1> QED BY <1>6, <1>7

\* Nothing added to a list.
LEMMA AddNothing ==
  ASSUME NEW S, NEW s \in Seq(S) PROVE s \o <<>> = s /\ <<>> \o s = s
OBVIOUS

\* An operation that is over, without a successor.
LEMMA ContinueOver ==
  ASSUME ShapeInv, NEW a \in Actors, Busy(a), Continue(a, <<>>), Op(a) # "hook",
         UNCHANGED <<script, mode, at, proc>>
  PROVE  /\ Over(a)
         /\ IF a = Warner THEN Len(todo[Warner]) = Len(todo'[Warner]) + 1
            ELSE todo'[Warner] = todo[Warner]
<1>1. todo \in [Actors -> Seq(Ops)] /\ todo[a] # <<>> /\ {Main, Warner} \subseteq Actors
  BY ActorsDiffer DEF ShapeInv, TypeOK, Busy
<1>2. <<>> \o Tail(todo[a]) = Rest(todo[a])
  BY <1>1 DEF Rest
<1>3. todo'[a] = Rest(todo[a]) /\ \A b \in Actors \ {a} : todo'[b] = todo[b]
  BY <1>1, <1>2 DEF Continue
<1>4. todo[Warner] \in Seq({"warn"})
  BY DEF ShapeInv, OthersInv
<1>5. CASE a = Warner
  <2>1. todo'[Warner] = Tail(todo[Warner]) /\ todo[Warner] # <<>>
    BY <1>1, <1>3, <1>5 DEF Rest
  <2>2. todo'[Warner] \in Seq({"warn"}) /\ Len(todo[Warner]) = Len(todo'[Warner]) + 1
    BY <1>4, <2>1
  <2> QED BY <1>3, <1>5, <2>2 DEF Over, OnlyMoves
<1>6. CASE a # Warner
  BY <1>1, <1>3, <1>4, <1>6 DEF Over, OnlyMoves
<1> QED BY <1>5, <1>6

\* Main has come to the hook.
LEMMA HookOver ==
  ASSUME ShapeInv, NEW a \in Actors, Doing(a, {"hook"}),
         Continue(a, HookOps(Kind(Of(a)))), UNCHANGED <<script, mode, at, proc>>
  PROVE  Over(a) /\ a = Main /\ todo'[Warner] = todo[Warner]
<1>1. a = Main /\ todo[Main] = MHook
  BY Roles, MainOps DEF Doing, ShapeInv
<1>2. todo \in [Actors -> Seq(Ops)] /\ {Main, Warner} \subseteq Actors /\ Main # Warner
  BY ActorsDiffer DEF ShapeInv, TypeOK
<1>3. Of(a) = Current /\ Kind(Current) \in HookKinds
  BY <1>1, Lists, CurrentEvent DEF ShapeInv, MainInv
<1>4. HookOps(Kind(Of(a))) \in Seq(Ops)
  <2>1. HookOps(Kind(Of(a))) \in MainTodo
    BY <1>3, HookLists DEF MainTodo, LaunchAhead, StartAhead, DryTodo, AsyncTodo
  <2> QED BY <2>1, ListsTyped
<1>5. HookOps(Kind(Of(a))) \o Tail(todo[a]) = HookOps(Kind(Of(a)))
  <2>1. Tail(todo[a]) = <<>>
    BY <1>1, Lists DEF Rest
  <2> QED BY <1>4, <2>1, AddNothing
<1>6. todo'[a] = HookOps(Kind(Of(a))) /\ \A b \in Actors \ {a} : todo'[b] = todo[b]
  BY <1>2, <1>5 DEF Continue
<1> QED BY <1>1, <1>2, <1>6 DEF Over, OnlyMoves, Doing, ShapeInv, OthersInv

\* A write to the pipe that fails is over, and there is a warning to write.
LEMMA DisableOver ==
  ASSUME ShapeInv, NEW a \in Actors, Doing(a, {"emit", "side"}), Disable(a),
         UNCHANGED <<script, mode, at, proc>>
  PROVE  Over(a) /\ a # Warner /\ todo'[Warner] = Append(todo[Warner], "warn")
<1>1. todo \in [Actors -> Seq(Ops)] /\ {Main, Warner} \subseteq Actors
  BY ActorsDiffer DEF ShapeInv, TypeOK
<1>2. a # Warner /\ Busy(a) /\ Op(a) \in {"emit", "side"}
  BY Roles, ActorsDiffer DEF Doing
<1>3. todo'[a] = Rest(todo[a]) /\ todo'[Warner] = Append(todo[Warner], "warn")
      /\ \A b \in Actors \ {a, Warner} : todo'[b] = todo[b]
  BY <1>1, <1>2 DEF Disable, Rest
<1>4. todo'[Warner] \in Seq({"warn"})
  BY <1>3 DEF ShapeInv, OthersInv
<1> QED BY <1>2, <1>3, <1>4 DEF Over, OnlyMoves

\* The lists of operations keep their type.
LEMMA OverTypes ==
  ASSUME ShapeInv, \A b \in Actors : todo'[b] \in Seq(Ops), NEW a \in Actors,
         (\E more : Continue(a, more)) \/ Disable(a)
  PROVE  /\ todo' \in [Actors -> Seq(Ops)]
         /\ phase' = [phase EXCEPT ![a] = "ready"]
         /\ phase' \in [Actors -> {"ready", "locked", "separated", "checked", "blocked"}]
<1>1. todo \in [Actors -> Seq(Ops)]
      /\ phase \in [Actors -> {"ready", "locked", "separated", "checked", "blocked"}]
  BY DEF ShapeInv, TypeOK
<1>2. todo' = [b \in Actors |-> todo'[b]] /\ phase' = [phase EXCEPT ![a] = "ready"]
  BY <1>1 DEF Continue, Disable
<1> QED BY <1>1, <1>2

\* Nobody is busy with an event before the first.
LEMMA BusyMeansEvent ==
  ASSUME ShapeInv, HooksInv, NEW a \in Actors, Busy(a), a # Warner
  PROVE  Of(a) \in Hooks /\ Reached(Of(a)) /\ at > 0
<1>1. CASE a = Main
  BY <1>1, CurrentEvent DEF ShapeInv, MainInv, Busy
<1>2. ASSUME NEW e \in Hooks, a \in {Side(e), Copier(e), Waiter(e)}
      PROVE  Of(a) = e /\ Reached(e)
  <2>1. Of(a) = e
    BY <1>2, ActorsDiffer DEF Of
  <2>2. ~Untouched(e)
    BY <1>2 DEF Untouched
  <2> QED BY <2>1, <2>2 DEF HooksInv, HookInv
<1>3. ASSUME NEW e, Reached(e) PROVE at > 0
  BY <1>3 DEF Reached, ShapeInv, TypeOK
<1> QED BY <1>1, <1>2, <1>3 DEF Actors

-----------------------------------------------------------------------------
(* Operations that write nothing.                                          *)

\* What a goroutine still may do when an operation is over.
Allowed(a) ==
  /\ Op(a) # "launch"
  /\ Op(a) = "reap" => a = Main /\ Drained(Of(a))
  /\ Op(a) = "join" => Joined(a)
  /\ Op(a) = "await" => AllDone

\* The records of the hooks, when an operation is over without one.
LEMMA SilentOver ==
  ASSUME IInv, NEW a \in Actors, Over(a), Allowed(a),
         Op(a) = "end" => ~mode.verbose, UNCHANGED shown
  PROVE  \A e \in Hooks : ShownInv(e)'
<1>1. /\ IF a = Main THEN Advanced /\ Forward ELSE todo'[Main] = todo[Main]
      /\ \A e \in Hooks : IF a = Waiter(e) THEN WaiterForward(e)
                          ELSE todo'[Waiter(e)] = todo[Waiter(e)]
  BY OverKeeps DEF IInv, Allowed
<1>2. TypeOK /\ MainInv /\ UNCHANGED <<script, mode, at>>
      /\ \A e \in Hooks : ShownInv(e)
  BY DEF IInv, ShapeInv, RecordsInv, Over
<1>3. todo'[Main] = todo[Main] \/ (Advanced /\ Forward /\ MainInv)
  <2>1. CASE a = Main
    BY <1>1, <1>2, <2>1
  <2>2. CASE a # Main
    BY <1>1, <2>2
  <2> QED BY <2>1, <2>2
<1>4. todo'[Main] # todo[Main] /\ todo[Main] \in {MEnd, AEnd} => ~mode.verbose
  <2>1. todo[Main] \in {MEnd, AEnd} => Busy(Main) /\ Op(Main) = "end"
    BY Lists DEF Busy, Op, First
  <2> QED BY <1>1, <2>1
<1>5. ASSUME NEW e \in Hooks
      PROVE  /\ todo'[Waiter(e)] \in WaiterEndAhead => todo[Waiter(e)] \in WaiterEndAhead
             /\ todo[Waiter(e)] \in WaiterEndAhead /\ todo'[Waiter(e)] \notin WaiterEndAhead
                  => ~mode.verbose
  BY <1>1 DEF WaiterForward
<1> QED BY <1>2, <1>3, <1>4, <1>5, SilenceKeepsShown

\* The records of the pipe, when an operation that does not write to it is over.
LEMMA QuietOver ==
  ASSUME IInv, NEW a \in Actors, Over(a), Allowed(a),
         Op(a) \notin {"emit", "side"}, UNCHANGED <<disabled, pipe>>
  PROVE  PipeInv'
<1>1. /\ IF a = Main THEN Advanced /\ Forward ELSE todo'[Main] = todo[Main]
  BY OverKeeps DEF IInv, Allowed
<1>2. ShapeInv /\ TypeOK /\ MainInv /\ PipeInv /\ UNCHANGED <<script, mode, at>> /\ Busy(a)
  BY DEF IInv, ShapeInv, RecordsInv, Over
<1>3. /\ todo'[Main] \in EmitAhead => todo[Main] \in EmitAhead
      /\ todo[Main] \in EmitAhead => todo'[Main] \in EmitAhead
  <2>1. todo[Main] = MEmit => Op(Main) = "emit"
    BY Lists DEF Op, First
  <2> QED BY <1>1, <2>1 DEF Forward
<1>4. SideAhead' = SideAhead \/ (at > 0 /\ Kind(Current) = "none")
  <2>1. at > 0 => Current \in Hooks
    BY <1>2, CurrentEvent
  <2>2. ASSUME at > 0 PROVE todo'[Side(Current)] = todo[Side(Current)]
    <3>1. a # Side(Current)
      <4>1. a = Side(Current) => Op(a) = "side"
        BY <1>2, <2>1, <2>2, Lists DEF ShapeInv, OthersInv, Busy, Op, First
      <4> QED BY <4>1
    <3> QED BY <2>1, <2>2, <3>1, ActorsDiffer DEF Over, OnlyMoves
  <2>3. Current' = Current /\ at' = at
    BY <1>2, SameEvent
  <2>4. (at > 0 /\ Busy(Side(Current)))' = (at > 0 /\ Busy(Side(Current)))
    BY <2>2, <2>3 DEF Busy
  <2>5. CASE a = Main /\ Op(Main) = "hook" /\ Kind(Current) = "none"
    BY <1>2, <2>5 DEF MainInv, Busy
  <2>6. CASE ~(a = Main /\ Op(Main) = "hook" /\ Kind(Current) = "none")
    <3>1. todo'[Main] \in MainSideAhead <=> todo[Main] \in MainSideAhead
      BY <1>1, <2>6 DEF Forward
    <3> QED BY <2>4, <3>1 DEF SideAhead
  <2> QED BY <2>5, <2>6
<1> QED BY <1>2, <1>3, <1>4, SilenceKeepsPipe

\* The locks, when an operation is over that may have released that of stderr.
LEMMA ReleaseKeeps ==
  ASSUME ShapeInv, WritesInv, NEW a \in Actors, phase' = [phase EXCEPT ![a] = "ready"],
         outLock' = outLock \/ phase[a] \in {"locked", "separated"},
         emitLock' = emitLock \/ phase[a] \in {"checked", "blocked"},
         disabled' = disabled \/ (\A b \in Actors \ {a} : phase[b] \notin {"checked", "blocked"}),
         atStart' = atStart \/ phase[a] \in {"locked", "separated"} \/ atStart' = TRUE,
         lineStart' => atStart'
  PROVE  LockInv' /\ LineInv'
<1>1. phase \in [Actors -> {"ready", "locked", "separated", "checked", "blocked"}]
  BY DEF ShapeInv, TypeOK
<1>2. \A b \in Actors : /\ phase'[b] = IF b = a THEN "ready" ELSE phase[b]
  BY <1>1
<1>3. LockInv'
  BY <1>1, <1>2 DEF WritesInv, LockInv
<1>4. LineInv'
  BY <1>1, <1>2 DEF WritesInv, LockInv, LineInv
<1> QED BY <1>3, <1>4

\* An operation that writes nothing is over.
LEMMA SilentKeeps ==
  ASSUME IInv, NEW a \in Actors, Over(a), Allowed(a), \E more : Continue(a, more),
         Op(a) \notin {"emit", "side"}, Op(a) = "end" => ~mode.verbose,
         todo'[Warner] = todo[Warner], managerLock' \in Actors \cup {Nobody},
         UNCHANGED <<chunks, outVars, pipeVars>>
  PROVE  IInv'
<1>1. /\ ShapeInv /\ WritesInv /\ UNCHANGED <<script, mode, at, proc>>
      /\ UNCHANGED <<shown, warned, atStart, lineStart, outLock, emitLock, disabled, pipe>>
  BY DEF IInv, Over, outVars, pipeVars
<1>2. /\ MainInv' /\ OthersInv' /\ HooksInv' /\ \A b \in Actors : todo'[b] \in Seq(Ops)
  BY OverKeeps DEF IInv, Allowed
<1>3. /\ todo' \in [Actors -> Seq(Ops)] /\ phase' = [phase EXCEPT ![a] = "ready"]
      /\ phase' \in [Actors -> {"ready", "locked", "separated", "checked", "blocked"}]
  BY <1>1, <1>2, OverTypes
<1>4. ShapeInv'
  BY <1>1, <1>2, <1>3 DEF ShapeInv, TypeOK
<1>5. WritesInv'
  <2>1. LockInv' /\ LineInv'
    BY <1>1, <1>3, ReleaseKeeps DEF WritesInv, LineInv
  <2>2. TornIsLast' /\ WarnInv'
    BY <1>1 DEF WritesInv, TornIsLast, WarnInv
  <2> QED BY <2>1, <2>2 DEF WritesInv
<1>6. RecordsInv'
  BY <1>1, SilentOver, QuietOver DEF RecordsInv
<1> QED BY <1>2, <1>4, <1>5, <1>6 DEF IInv

\* A record that is not wanted.
LEMMA SkipKeeps ==
  ASSUME IInv, NEW a \in Actors, Skip(a) PROVE IInv'
<1>1. /\ Busy(a) /\ Op(a) \in Lines /\ ~Wanted(a) /\ Continue(a, <<>>)
      /\ UNCHANGED <<hookVars, outVars, managerLock, pipeVars>>
  BY DEF Skip, Doing
<1>2. /\ Op(a) \notin {"hook", "emit", "side", "warn"} /\ Allowed(a)
      /\ Op(a) = "end" => ~mode.verbose
  BY <1>1 DEF Lines, Wanted, Allowed
<1>3. a # Warner
  BY <1>1, <1>2, WarnerWarns DEF IInv
<1>4. Over(a) /\ todo'[Warner] = todo[Warner]
  BY <1>1, <1>2, <1>3, ContinueOver DEF IInv, hookVars
<1> QED BY <1>1, <1>2, <1>4, SilentKeeps DEF hookVars, IInv, ShapeInv, TypeOK

\* The lock of the manager.
LEMMA ManagerLockKeeps ==
  ASSUME IInv, NEW a \in Actors, Lock(a) PROVE IInv'
<1>1. /\ Busy(a) /\ Op(a) \in {"lock", "unlock"} /\ Continue(a, <<>>)
      /\ managerLock' \in Actors \cup {Nobody}
      /\ UNCHANGED <<hookVars, outVars, pipeVars>>
  BY DEF Lock, Doing
<1>2. Op(a) \notin {"hook", "emit", "side", "warn", "end"} /\ Allowed(a)
  BY <1>1 DEF Allowed
<1>3. a # Warner
  BY <1>1, <1>2, WarnerWarns DEF IInv
<1>4. Over(a) /\ todo'[Warner] = todo[Warner]
  BY <1>1, <1>2, <1>3, ContinueOver DEF IInv, hookVars
<1> QED BY <1>1, <1>2, <1>4, SilentKeeps DEF hookVars

\* Nothing but the list of one goroutine changes, and the list not at all for main.
LEMMA WaiterReapKeeps ==
  ASSUME IInv, NEW e \in Hooks, Doing(Waiter(e), {"reap"}), Drained(e),
         NEW more \in Endings(e), Continue(Waiter(e), more),
         UNCHANGED <<hookVars, outVars, managerLock, pipeVars>>
  PROVE  IInv'
<1> DEFINE a == Waiter(e)
<1>1. /\ ShapeInv /\ WritesInv /\ TypeOK /\ MainInv /\ OthersInv
      /\ UNCHANGED <<script, mode, at, proc, chunks>>
      /\ UNCHANGED <<shown, warned, atStart, lineStart, outLock, emitLock, disabled, pipe>>
  BY DEF IInv, ShapeInv, hookVars, outVars, pipeVars
<1>2. a \in Actors /\ a \notin {Main, Warner}
      /\ \A f \in Hooks : /\ a \notin {Side(f), Copier(f)} /\ (f # e => a # Waiter(f))
                          /\ {Side(f), Copier(f), Waiter(f), Main, Warner} \subseteq Actors
  BY ActorsDiffer
<1>3. todo[a] = WReap
  <2>1. todo[a] \in WaiterTodo \ {<<>>} /\ First(todo[a]) = "reap"
    BY <1>1 DEF Doing, Busy, OthersInv, Op, First
  <2> QED BY <2>1, Lists DEF WaiterTodo
<1>4. more \o Tail(WReap) \in {WEnd, WFailEnd, WEndFail, WFailEndFail}
  BY WaiterEndings DEF Endings
<1>5. /\ todo'[a] \in {WEnd, WFailEnd, WEndFail, WFailEndFail}
      /\ \A b \in Actors \ {a} : todo'[b] = todo[b]
  BY <1>1, <1>2, <1>3, <1>4 DEF Continue, TypeOK
<1>6. WaiterForward(e)
  BY <1>3, <1>5, WaiterReaps
<1>7. /\ todo'[Main] = todo[Main] /\ todo'[Warner] = todo[Warner]
      /\ \A f \in Hooks : /\ todo'[Side(f)] = todo[Side(f)]
                          /\ todo'[Copier(f)] = todo[Copier(f)]
                          /\ f # e => todo'[Waiter(f)] = todo[Waiter(f)]
  BY <1>2, <1>5
<1>8. MainInv'
  BY <1>1, <1>7, SameEvent DEF MainInv
<1>9. OthersInv'
  BY <1>1, <1>6, <1>7 DEF OthersInv, WaiterForward
<1>10. \A b \in Actors : todo'[b] \in Seq(Ops)
  BY <1>1, <1>5, ListsTyped DEF TypeOK, WaiterTodo
<1>11. /\ todo' \in [Actors -> Seq(Ops)] /\ phase' = [phase EXCEPT ![a] = "ready"]
       /\ phase' \in [Actors -> {"ready", "locked", "separated", "checked", "blocked"}]
  BY <1>1, <1>2, <1>10, OverTypes
<1>12. ShapeInv'
  BY <1>1, <1>8, <1>9, <1>11 DEF ShapeInv, TypeOK
<1>13. WritesInv'
  <2>1. LockInv' /\ LineInv'
    BY <1>1, <1>2, <1>11, ReleaseKeeps DEF WritesInv, LineInv
  <2>2. TornIsLast' /\ WarnInv'
    BY <1>1, <1>7 DEF WritesInv, TornIsLast, WarnInv
  <2> QED BY <2>1, <2>2 DEF WritesInv
<1>14. \A f \in Hooks : Busy(Waiter(f))' => Busy(Waiter(f))
  BY <1>6, <1>7 DEF Busy, WaiterForward
<1>15. StopInv'
  BY <1>1, <1>7, <1>14, OthersKeepStop DEF IInv, HooksInv
<1>16. ASSUME NEW f \in Hooks PROVE HookInv(f)' /\ ShownInv(f)'
  <2>1. HookInv(f) /\ ShownInv(f)
    BY DEF IInv, HooksInv, RecordsInv
  <2>2. \A b \in {Side(f), Copier(f), Waiter(f)} : Busy(b)' => Busy(b)
    BY <1>7, <1>14 DEF Busy
  <2>3. /\ todo[Waiter(f)] = WReap /\ todo'[Waiter(f)] # WReap => Drained(f)
        /\ todo[Copier(f)] = <<>> => todo'[Copier(f)] = <<>>
    BY <1>7
  <2>4. HookInv(f)'
    BY <1>1, <1>7, <2>1, <2>2, <2>3, OthersKeepHook
  <2>5. /\ todo'[Waiter(f)] \in WaiterEndAhead => todo[Waiter(f)] \in WaiterEndAhead
        /\ todo[Waiter(f)] \in WaiterEndAhead => todo'[Waiter(f)] \in WaiterEndAhead
    BY <1>3, <1>5, <1>7 DEF WaiterEndAhead
  <2>6. ShownInv(f)'
    BY <1>1, <1>7, <2>1, <2>5, SilenceKeepsShown
  <2> QED BY <2>4, <2>6
<1>17. PipeInv'
  <2>1. at > 0 => Current \in Hooks
    BY <1>1, CurrentEvent
  <2>2. SideAhead' = SideAhead
    BY <1>1, <1>7, <2>1, SameEvent DEF SideAhead, Busy
  <2> QED BY <1>1, <1>7, <2>2, SilenceKeepsPipe DEF IInv, RecordsInv
<1> QED BY <1>12, <1>13, <1>15, <1>16, <1>17 DEF IInv, HooksInv, RecordsInv

\* The steps of main's that wait for others, and the end of a hook.
LEMMA ProceedKeeps ==
  ASSUME IInv, NEW a \in Actors, Proceed(a) PROVE IInv'
<1>1. ShapeInv /\ HooksInv /\ MainInv /\ UNCHANGED <<script, mode, at, proc, chunks>>
      /\ UNCHANGED <<outVars, managerLock, pipeVars>>
      /\ managerLock \in Actors \cup {Nobody}
  BY DEF IInv, ShapeInv, TypeOK, Proceed, hookVars
<1>2. CASE Doing(a, {"hook"}) /\ Continue(a, HookOps(Kind(Of(a))))
  <2>1. Over(a) /\ todo'[Warner] = todo[Warner]
    BY <1>1, <1>2, HookOver
  <2> QED BY <1>1, <1>2, <2>1, SilentKeeps DEF Doing, Allowed
<1>3. CASE Doing(a, {"join"}) /\ Joined(a) /\ Continue(a, <<>>)
  <2>1. Busy(a) /\ Op(a) = "join" /\ Allowed(a) /\ a # Warner
    BY <1>1, <1>3, Roles, ActorsDiffer DEF Doing, Allowed
  <2>2. Over(a) /\ todo'[Warner] = todo[Warner]
    BY <1>1, <1>3, <2>1, ContinueOver
  <2> QED BY <1>1, <1>3, <2>1, <2>2, SilentKeeps
<1>4. CASE Doing(a, {"await"}) /\ AllDone /\ Continue(a, <<>>)
  <2>1. Busy(a) /\ Op(a) = "await" /\ Allowed(a) /\ a # Warner
    BY <1>1, <1>4, Roles, ActorsDiffer DEF Doing, Allowed
  <2>2. Over(a) /\ todo'[Warner] = todo[Warner]
    BY <1>1, <1>4, <2>1, ContinueOver
  <2> QED BY <1>1, <1>4, <2>1, <2>2, SilentKeeps
<1>5. CASE /\ Doing(a, {"reap"}) /\ Drained(Of(a))
           /\ \E more \in (IF Kind(Of(a)) = "async" THEN Endings(Of(a)) ELSE {<<>>}) :
                Continue(a, more)
  <2>1. Busy(a) /\ Op(a) = "reap" /\ (a = Main \/ \E e \in Hooks : a = Waiter(e) /\ Of(a) = e)
    BY <1>1, <1>5, Roles DEF Doing
  <2>2. CASE a = Main
    <3>1. Kind(Of(a)) = "sync"
      <4>1. todo[Main] = MReap /\ Of(a) = Current
        BY <1>1, <2>1, <2>2, MainOps DEF Of, Current
      <4> QED BY <1>1, <2>2, <4>1 DEF MainInv, SyncTodo
    <3>2. Continue(a, <<>>)
      BY <1>5, <3>1
    <3>3. Allowed(a) /\ a # Warner
      BY <1>5, <2>1, <2>2, ActorsDiffer DEF Allowed
    <3>4. Over(a) /\ todo'[Warner] = todo[Warner]
      BY <1>1, <2>1, <3>2, <3>3, ContinueOver
    <3> QED BY <1>1, <2>1, <3>2, <3>3, <3>4, SilentKeeps
  <2>3. ASSUME NEW e \in Hooks, a = Waiter(e), Of(a) = e PROVE IInv'
    <3>1. Kind(e) = "async"
      BY <1>1, <2>1, <2>3 DEF HooksInv, HookInv
    <3>2. PICK more \in Endings(e) : Continue(Waiter(e), more)
      BY <1>5, <2>3, <3>1
    <3> QED BY <1>1, <1>5, <2>3, <3>2, WaiterReapKeeps DEF hookVars
  <2> QED BY <2>1, <2>2, <2>3
<1> QED BY <1>2, <1>3, <1>4, <1>5 DEF Proceed

-----------------------------------------------------------------------------
(* Writing to stderr.                                                      *)

\* A goroutine goes on within an operation.
LEMMA WithinKeeps ==
  ASSUME IInv, UNCHANGED <<hookVars, todo, shown, warned, managerLock, disabled, pipe>>
  PROVE  /\ HooksInv' /\ RecordsInv' /\ MainInv' /\ OthersInv'
         /\ TornIsLast' /\ WarnInv'
<1>1. /\ UNCHANGED <<script, mode, at, proc, chunks>> /\ UNCHANGED <<todo, shown, pipe, disabled>>
      /\ ShapeInv /\ WritesInv /\ HooksInv /\ RecordsInv
  BY DEF hookVars, IInv
<1>2. MainInv'
  BY <1>1, SameEvent DEF ShapeInv, MainInv
<1>3. OthersInv' /\ TornIsLast' /\ WarnInv'
  BY <1>1 DEF ShapeInv, OthersInv, WritesInv, TornIsLast, WarnInv
<1>4. HooksInv'
  <2>1. StopInv'
    BY <1>1, OthersKeepStop DEF HooksInv, Busy
  <2>2. ASSUME NEW e \in Hooks PROVE HookInv(e)'
    BY <1>1, OthersKeepHook DEF HooksInv, Busy, ShapeInv
  <2> QED BY <2>1, <2>2 DEF HooksInv
<1>5. \A e \in Hooks : ShownInv(e)'
  BY <1>1, SilenceKeepsShown DEF RecordsInv, ShapeInv
<1>6. PipeInv'
  <2>1. SideAhead' = SideAhead
    BY <1>1, SameEvent DEF SideAhead, Busy
  <2> QED BY <1>1, <2>1, SilenceKeepsPipe DEF RecordsInv, ShapeInv
<1> QED BY <1>2, <1>3, <1>4, <1>5, <1>6 DEF RecordsInv

\* Taking the lock of stderr.
LEMMA AcquireKeeps ==
  ASSUME IInv, NEW a \in Actors, Acquire(a) PROVE IInv'
<1>1. /\ phase' = [phase EXCEPT ![a] = "locked"]
      /\ phase \in [Actors -> {"ready", "locked", "separated", "checked", "blocked"}]
      /\ phase[a] = "ready" /\ outLock = Nobody /\ outLock' = a
      /\ UNCHANGED <<hookVars, todo, shown, warned, atStart, lineStart, managerLock>>
      /\ UNCHANGED <<emitLock, disabled, pipe>>
      /\ ShapeInv /\ WritesInv
  BY DEF Acquire, Goto, IInv, ShapeInv, TypeOK, pipeVars
<1>2. /\ HooksInv' /\ RecordsInv' /\ MainInv' /\ OthersInv' /\ TornIsLast' /\ WarnInv'
  BY <1>1, WithinKeeps
<1>3. \A b \in Actors : phase[b] \notin {"locked", "separated"}
  BY <1>1, ActorsDiffer DEF WritesInv, LockInv
<1>4. LockInv' /\ LineInv'
  BY <1>1, <1>3 DEF WritesInv, LockInv, LineInv
<1>5. TypeOK'
  BY <1>1 DEF ShapeInv, TypeOK, hookVars
<1> QED BY <1>2, <1>4, <1>5 DEF IInv, ShapeInv, WritesInv

\* The separator brings stderr to the start of a line.
LEMMA SeparateKeeps ==
  ASSUME IInv, NEW a \in Actors, Separate(a) PROVE IInv'
<1>1. /\ phase' = [phase EXCEPT ![a] = "separated"]
      /\ phase \in [Actors -> {"ready", "locked", "separated", "checked", "blocked"}]
      /\ phase[a] = "locked" /\ atStart' = TRUE
      /\ UNCHANGED <<hookVars, todo, shown, warned, lineStart, outLock, managerLock>>
      /\ UNCHANGED <<emitLock, disabled, pipe>>
      /\ ShapeInv /\ WritesInv
  BY DEF Separate, Goto, IInv, ShapeInv, TypeOK, pipeVars
<1>2. /\ HooksInv' /\ RecordsInv' /\ MainInv' /\ OthersInv' /\ TornIsLast' /\ WarnInv'
  BY <1>1, WithinKeeps
<1>3. LockInv' /\ LineInv'
  BY <1>1 DEF WritesInv, LockInv, LineInv
<1>4. TypeOK'
  BY <1>1 DEF ShapeInv, TypeOK, hookVars
<1> QED BY <1>2, <1>3, <1>4 DEF IInv, ShapeInv, WritesInv

\* What a write adds to the records of its hook.
LEMMA WriteKeepsShown ==
  ASSUME IInv, NEW a \in Actors, a # Warner, Over(a), Allowed(a),
         Op(a) \in Lines \cup {"chunk"}, Wanted(a),
         shown' = [shown EXCEPT ![Of(a)] = Append(@, Op(a))]
  PROVE  \A e \in Hooks : ShownInv(e)'
<1>1. /\ ShapeInv /\ HooksInv /\ TypeOK /\ MainInv /\ OthersInv /\ Busy(a)
      /\ UNCHANGED <<script, mode, at, proc>> /\ \A e \in Hooks : HookInv(e) /\ ShownInv(e)
      /\ shown \in [Hooks -> Seq(Lines \cup {"chunk"})]
  BY DEF IInv, ShapeInv, Over, HooksInv, RecordsInv, TypeOK
<1>2. /\ IF a = Main THEN Advanced /\ Forward ELSE todo'[Main] = todo[Main]
      /\ \A e \in Hooks : IF a = Waiter(e) THEN WaiterForward(e)
                          ELSE todo'[Waiter(e)] = todo[Waiter(e)]
  BY OverKeeps DEF IInv, Allowed
<1>3. Of(a) \in Hooks /\ Reached(Of(a)) /\ at > 0
  BY <1>1, BusyMeansEvent
<1>4. PICK f \in Hooks, k \in Lines \cup {"chunk"} :
        f = Of(a) /\ k = Op(a) /\ Reached(f) /\ at > 0
  BY <1>3
<1>5. shown'[f] = Append(shown[f], k) /\ \A e \in Hooks \ {f} : shown'[e] = shown[e]
  BY <1>1, <1>4
<1>6. /\ TypeOK /\ UNCHANGED <<script, mode, at>> /\ ShownInv(f) /\ Reached(f)
       /\ shown'[f] = Append(shown[f], k) /\ f \in Hooks
  BY <1>1, <1>4, <1>5
<1>7. ASSUME NEW e \in Hooks \ {f} PROVE ShownInv(e)'
  <2>1. a = Main => ~IsCurrent(e)
    BY <1>4, CurrentEvent, <1>1 DEF IsCurrent
  <2>2. a # Waiter(e)
    BY <1>4, ActorsDiffer DEF Of
  <2> QED BY <1>1, <1>2, <1>5, <2>1, <2>2, SilenceKeepsShown
<1>8. CASE a = Main
  <2>1. /\ f = Current /\ IsCurrent(f) /\ Advanced /\ Forward
        /\ Kind(f) = "none" \/ Kind(f) # "none"
    BY <1>1, <1>2, <1>4, <1>8, CurrentEvent DEF IsCurrent
  <2>2. todo'[Waiter(f)] = todo[Waiter(f)]
    BY <1>2, <1>4, <1>8, ActorsDiffer
  <2>3. todo[Main] \notin {MSide, <<>>} => todo[Waiter(f)] \notin WaiterEndAhead
    BY <1>1, <1>4, <2>1, Lists DEF HookInv, Busy, WaiterEndAhead
  <2>4. /\ IsCurrent(f)' = IsCurrent(f) /\ Reached(f)' = Reached(f)
    BY <1>1, SameEvent
  <2>5. k # "hook" => todo'[Main] = Rest(todo[Main])
    BY <1>8, <1>4, <2>1 DEF Advanced
  <2>6. ASSUME k = "event" PROVE ShownInv(f)'
    <3>1. todo[Main] = MEvent /\ todo'[Main] = MEmit
      BY <1>1, <1>8, <1>4, <2>5, <2>6, MainOps, Lists
    <3>2. shown[f] = <<>>
      BY <1>1, <1>4, <2>1, <3>1 DEF ShownInv, EventAhead
    <3>3. EndAhead(f) /\ EndAhead(f)'
      BY <2>1, <2>4, <3>1 DEF EndAhead, MainEndAhead, LaunchAhead, StartAhead, EmitAhead,
         EventAhead
    <3>4. todo'[Main] \notin EventAhead
      BY <3>1, Lists DEF EventAhead, Stopping
    <3>5. /\ Only(f, {"event"}) /\ Only(f, {"event", "start"}) /\ DOMAIN shown[f] = {}
      BY <3>2 DEF Only
    <3>6. /\ k \in IF mode.dryRun THEN {"event", "dry"} ELSE {"event", "start", "chunk", "fail"}
          /\ k # "start" /\ k # "fail" /\ (EndAhead(f)' <=> EndAhead(f))
          /\ \A i \in DOMAIN shown[f] : Rank[shown[f][i]] <= Rank[k]
      BY <2>6, <3>3, <3>5
    <3> QED BY <1>6, <2>6, <3>4, <3>5, <3>6, RecordKeepsShown
  <2>7. ASSUME k = "start" PROVE ShownInv(f)'
    <3>1. todo[Main] = MStart /\ todo'[Main] = MLaunch /\ ~mode.dryRun /\ mode.verbose
      BY <1>1, <1>8, <1>4, <2>5, <2>7, MainOps, Lists DEF MainInv, Wanted
    <3>2. Only(f, {"event"})
      BY <1>1, <1>4, <2>1, <3>1 DEF ShownInv, StartAhead
    <3>3. EndAhead(f) /\ EndAhead(f)'
      BY <2>1, <2>4, <3>1 DEF EndAhead, MainEndAhead, LaunchAhead, StartAhead
    <3>4. todo'[Main] \notin EventAhead /\ todo'[Main] \notin StartAhead
      BY <3>1, Lists DEF EventAhead, Stopping, StartAhead, EmitAhead
    <3>5. /\ Only(f, {"event", "start"})
          /\ \A i \in DOMAIN shown[f] : Rank[shown[f][i]] <= Rank["start"]
      BY <3>2 DEF Only, Rank
    <3>6. /\ k \in IF mode.dryRun THEN {"event", "dry"} ELSE {"event", "start", "chunk", "fail"}
          /\ k = "start" /\ (EndAhead(f)' <=> EndAhead(f))
          /\ \A i \in DOMAIN shown[f] : Rank[shown[f][i]] <= Rank[k]
      BY <2>7, <3>1, <3>3, <3>5
    <3> QED BY <1>6, <3>1, <3>3, <3>4, <3>5, <3>6, RecordKeepsShown
  <2>8. ASSUME k = "end" PROVE ShownInv(f)'
    <3>1. /\ todo[Main] \in {MEnd, AEnd} /\ todo'[Main] \in {MFail, AFail}
          /\ ~mode.dryRun /\ Kind(f) # "none"
      BY <1>1, <1>8, <1>4, <2>1, <2>5, <2>8, MainOps, Lists DEF MainInv, SyncTodo, AsyncTodo
    <3>2. EndAhead(f)
      BY <2>1, <3>1 DEF EndAhead, MainEndAhead
    <3>3. todo'[Main] \notin MainEndAhead
      BY <3>1, Lists DEF MainEndAhead, LaunchAhead, StartAhead, EmitAhead, EventAhead, Stopping
    <3>4. ~EndAhead(f)' /\ todo'[Main] \notin LaunchAhead
      BY <1>4, <2>1, <2>2, <2>3, <2>4, <3>1, <3>3, Lists DEF EndAhead, MainEndAhead
    <3> QED BY <1>6, <2>8, <3>1, <3>2, <3>4, EndKeepsShown
  <2>9. ASSUME k = "fail" PROVE ShownInv(f)'
    <3>1. /\ todo[Main] \in {MFail, AFail} /\ todo'[Main] \in {<<>>, AUnlock}
          /\ ~mode.dryRun
      BY <1>1, <1>8, <1>4, <2>1, <2>5, <2>9, MainOps, Lists DEF MainInv, SyncTodo, AsyncTodo
    <3>2. todo[Main] \notin MainEndAhead /\ todo'[Main] \notin MainEndAhead
      BY <3>1, Lists DEF MainEndAhead, LaunchAhead, StartAhead, EmitAhead, EventAhead, Stopping
    <3>3. ~EndAhead(f) /\ ~EndAhead(f)'
      BY <1>4, <2>1, <2>2, <2>3, <2>4, <3>1, <3>2, Lists DEF EndAhead
    <3>4. todo'[Main] \notin EventAhead \cup StartAhead \cup LaunchAhead
      BY <3>2 DEF MainEndAhead, LaunchAhead, StartAhead, EmitAhead
    <3>5. \A i \in DOMAIN shown[f] : Rank[shown[f][i]] <= Rank["fail"]
      BY <1>1, <1>4, <3>1 DEF ShownInv, Only, Rank
    <3>6. /\ k \in IF mode.dryRun THEN {"event", "dry"} ELSE {"event", "start", "chunk", "fail"}
          /\ k = "fail" /\ (EndAhead(f)' <=> EndAhead(f)) /\ ~EndAhead(f)
          /\ \A i \in DOMAIN shown[f] : Rank[shown[f][i]] <= Rank[k]
      BY <2>9, <3>1, <3>3, <3>5
    <3> QED BY <1>6, <3>4, <3>6, RecordKeepsShown
  <2>10. ASSUME k = "dry" PROVE ShownInv(f)'
    <3>1. /\ todo[Main] \in {DDry, DADry} /\ todo'[Main] \in {<<>>, AUnlock}
          /\ mode.dryRun
      BY <1>1, <1>8, <1>4, <2>1, <2>5, <2>10, MainOps, Lists DEF MainInv, DryTodo
    <3>2. todo[Main] \notin MainEndAhead /\ todo'[Main] \notin MainEndAhead
      BY <3>1, Lists DEF MainEndAhead, LaunchAhead, StartAhead, EmitAhead, EventAhead, Stopping
    <3>3. ~EndAhead(f) /\ ~EndAhead(f)'
      BY <1>4, <2>1, <2>2, <2>3, <2>4, <3>1, <3>2, Lists DEF EndAhead
    <3>4. todo'[Main] \notin EventAhead \cup StartAhead \cup LaunchAhead
      BY <3>2 DEF MainEndAhead, LaunchAhead, StartAhead, EmitAhead
    <3>5. /\ k \in IF mode.dryRun THEN {"event", "dry"} ELSE {"event", "start", "chunk", "fail"}
          /\ k = "dry" /\ (EndAhead(f)' <=> EndAhead(f))
      BY <2>10, <3>1, <3>3
    <3> QED BY <1>6, <3>1, <3>4, <3>5, RecordKeepsShown
  <2>11. k \in {"event", "start", "end", "fail", "dry"}
    BY <1>1, <1>8, <1>4, MainOps DEF Lines
  <2>12. ShownInv(f)'
    BY <2>6, <2>7, <2>8, <2>9, <2>10, <2>11
  <2> QED BY <1>7, <2>12
<1>9. CASE a = Copier(f)
  <2>1. todo'[Main] = todo[Main] /\ todo'[Waiter(f)] = todo[Waiter(f)] /\ k = "chunk"
    <3>1. k = "chunk"
      BY <1>1, <1>9, <1>4, Roles, ActorsDiffer
    <3>2. a # Main /\ a # Waiter(f)
      BY <1>9, <1>4, ActorsDiffer
    <3> QED BY <1>2, <1>4, <3>1, <3>2
  <2>2. IsCurrent(f)' = IsCurrent(f) /\ Reached(f)' = Reached(f)
    BY <1>1, SameEvent
  <2>3. (EndAhead(f)' <=> EndAhead(f))
    BY <2>1, <2>2 DEF EndAhead
  <2>4. Reaping(f) /\ ~mode.dryRun /\ (IsCurrent(f) => todo[Main] \notin LaunchAhead)
    BY <1>1, <1>4, <1>9 DEF HookInv, Untouched
  <2>5. EndAhead(f) /\ Kind(f) \in {"sync", "async"}
    <3>1. CASE IsCurrent(f) /\ todo[Main] = MReap
      BY <1>1, <3>1 DEF EndAhead, MainEndAhead, IsCurrent, MainInv, SyncTodo
    <3>2. CASE todo[Waiter(f)] = WReap
      BY <1>1, <1>4, <3>2, Lists DEF EndAhead, WaiterEndAhead, HookInv, Busy
    <3> QED BY <2>4, <3>1, <3>2 DEF Reaping
  <2>6. todo'[Main] \notin EventAhead \cup StartAhead \cup LaunchAhead \/ ~IsCurrent(f)
    BY <2>1, <2>4 DEF LaunchAhead, StartAhead, EmitAhead
  <2>7. ASSUME NEW i \in DOMAIN shown[f],
               Kind(f) = "async" => "fail" \notin {shown[f][i], "chunk"}
        PROVE  Rank[shown[f][i]] <= Rank["chunk"]
    <3>1. shown[f][i] \in {"event", "start", "chunk", "end", "fail"}
      BY <1>1, <1>4, <2>4 DEF ShownInv, Only
    <3>2. ~Contains(shown[f], "end") /\ (Kind(f) = "sync" => ~Contains(shown[f], "fail"))
      BY <1>1, <1>4, <2>5 DEF ShownInv
    <3>3. shown[f][i] \notin {"end", "fail"}
      BY <1>1, <1>4, <2>5, <2>7, <3>2 DEF Contains
    <3> QED BY <3>1, <3>3 DEF Rank
  <2>8. ShownInv(f)'
    BY <1>6, <2>1, <2>3, <2>4, <2>6, <2>7, RecordKeepsShown
  <2> QED BY <1>7, <2>8
<1>10. CASE a = Waiter(f)
  <2>1. /\ todo'[Main] = todo[Main] /\ WaiterForward(f) /\ k \in {"end", "fail"}
        /\ todo[Waiter(f)] \in WaiterTodo \ {<<>>}
        /\ First(todo[Waiter(f)]) = k /\ todo'[Waiter(f)] = Rest(todo[Waiter(f)])
    <3>1. k \in {"end", "fail"} /\ todo[a] \in WaiterTodo \ {<<>>}
      <4>1. k \in {"reap", "end", "fail", "lock", "unlock"}
        BY <1>1, <1>10, <1>4, Roles, ActorsDiffer
      <4> QED BY <1>1, <1>10, <1>4, <4>1 DEF Lines, OthersInv, Busy
    <3> QED BY <1>2, <1>4, <1>10, <3>1, ActorsDiffer DEF Over, Op, First
  <2>2. IsCurrent(f)' = IsCurrent(f) /\ Reached(f)' = Reached(f)
    BY <1>1, SameEvent
  <2>3. /\ Kind(f) = "async" /\ ~mode.dryRun
        /\ IsCurrent(f) => todo[Main] \in {MSide, <<>>}
    BY <1>1, <1>4, <1>10 DEF HookInv, Untouched
  <2>4. IsCurrent(f) => todo[Main] \notin MainEndAhead
    BY <2>3, Lists DEF MainEndAhead, LaunchAhead, StartAhead, EmitAhead, EventAhead, Stopping
  <2>5. IsCurrent(f) => todo'[Main] \notin EventAhead \cup StartAhead \cup LaunchAhead
    BY <2>1, <2>4 DEF MainEndAhead, LaunchAhead, StartAhead, EmitAhead
  <2>6. CASE k = "end"
    <3>1. \/ todo[Waiter(f)] = WEnd /\ todo'[Waiter(f)] = WLock
          \/ todo[Waiter(f)] = WEndFail /\ todo'[Waiter(f)] = WFail
      BY <2>1, <2>6, Lists DEF WaiterTodo
    <3>2. todo[Waiter(f)] \in WaiterEndAhead /\ todo'[Waiter(f)] \notin WaiterEndAhead
      BY <3>1, Lists DEF WaiterEndAhead
    <3>3. EndAhead(f) /\ ~EndAhead(f)'
      BY <1>4, <2>1, <2>2, <2>4, <3>2 DEF EndAhead
    <3>4. ShownInv(f)'
      BY <1>6, <2>3, <2>5, <2>6, <3>3, EndKeepsShown
    <3> QED BY <1>7, <3>4
  <2>7. CASE k = "fail"
    <3>1. \/ todo[Waiter(f)] = WFail /\ todo'[Waiter(f)] = WLock
          \/ todo[Waiter(f)] = WFailEnd /\ todo'[Waiter(f)] = WEnd
          \/ todo[Waiter(f)] = WFailEndFail /\ todo'[Waiter(f)] = WEndFail
      BY <2>1, <2>7, Lists DEF WaiterTodo
    <3>2. todo[Waiter(f)] \in WaiterEndAhead <=> todo'[Waiter(f)] \in WaiterEndAhead
      BY <3>1, Lists DEF WaiterEndAhead
    <3>3. (EndAhead(f)' <=> EndAhead(f))
      BY <2>1, <2>2, <3>2 DEF EndAhead
    <3>4. ShownInv(f)'
      BY <1>6, <2>3, <2>5, <2>7, <3>3, RecordKeepsShown
    <3> QED BY <1>7, <3>4
  <2> QED BY <2>1, <2>6, <2>7
<1>11. a = Main \/ a = Copier(f) \/ a = Waiter(f)
  <2>1. Op(a) # "side"
    BY DEF Lines
  <2> QED BY <1>1, <1>4, <2>1, Roles
<1> QED BY <1>8, <1>9, <1>10, <1>11

\* The warning does not belong to any hook.
LEMMA WarningKeepsShown ==
  ASSUME IInv, Over(Warner), UNCHANGED shown
  PROVE  \A e \in Hooks : ShownInv(e)'
<1>1. Op(Warner) = "warn" /\ Warner \in Actors
  BY WarnerWarns, ActorsDiffer DEF IInv, Over
<1> QED BY <1>1, SilentOver DEF Allowed

\* A record or a hook's output is written: only the warner writes without the
\* lock, and what it writes ends its line.
LEMMA WriteOutKeeps ==
  ASSUME IInv, NEW a \in Actors, WriteOut(a) PROVE IInv'
<1>1. /\ ShapeInv /\ WritesInv /\ TypeOK
      /\ Continue(a, <<>>) /\ Busy(a) /\ Op(a) \in Lines \cup {"chunk"} /\ Wanted(a)
      /\ UNCHANGED <<script, mode, at, proc, chunks>>
      /\ UNCHANGED <<managerLock, emitLock, disabled, pipe>>
  BY DEF IInv, ShapeInv, WriteOut, Stderr, Doing, hookVars, pipeVars
<1>2. Op(a) \notin {"hook", "emit", "side"} /\ Allowed(a)
  BY <1>1 DEF Lines, Allowed
<1>3. /\ Over(a)
      /\ IF a = Warner THEN Len(todo[Warner]) = Len(todo'[Warner]) + 1
         ELSE todo'[Warner] = todo[Warner]
  BY <1>1, <1>2, ContinueOver
<1>4. /\ MainInv' /\ OthersInv' /\ HooksInv' /\ \A b \in Actors : todo'[b] \in Seq(Ops)
  BY <1>2, <1>3, OverKeeps DEF IInv, Allowed
<1>5. /\ todo' \in [Actors -> Seq(Ops)] /\ phase' = [phase EXCEPT ![a] = "ready"]
      /\ phase' \in [Actors -> {"ready", "locked", "separated", "checked", "blocked"}]
  BY <1>1, <1>4, OverTypes
<1>6. PipeInv'
  BY <1>1, <1>2, <1>3, QuietOver
<1>7. /\ Op(a) = "warn" <=> a = Warner
      /\ a = Warner => warned' = warned + 1 /\ UNCHANGED shown
      /\ a # Warner => /\ UNCHANGED warned
                       /\ shown' = [shown EXCEPT ![Of(a)] = Append(@, Op(a))]
  <2>1. Op(a) = "warn" <=> a = Warner
    BY <1>1, Roles, WarnerWarns, MainOps DEF ShapeInv
  <2> QED BY <2>1 DEF WriteOut
<1>8. \A e \in Hooks : ShownInv(e)'
  BY <1>1, <1>2, <1>3, <1>7, WarningKeepsShown, WriteKeepsShown
<1>9. PICK ends \in BOOLEAN :
        /\ Op(a) # "chunk" => ends = TRUE
        /\ atStart' = ends
        /\ lineStart' = IF Direct(a) THEN lineStart ELSE ends
  BY DEF WriteOut
<1>10. LockInv' /\ LineInv' /\ outLock' \in Actors \cup {Nobody}
  <2>1. CASE Direct(a)
    <3>1. atStart' = TRUE /\ outLock' = outLock /\ lineStart' = lineStart
      BY <1>7, <1>9, <2>1 DEF WriteOut, Direct
    <3> QED BY <1>1, <1>5, <3>1, ReleaseKeeps DEF TypeOK
  <2>2. CASE ~Direct(a)
    <3>1. phase[a] \in {"locked", "separated"} /\ outLock' = Nobody /\ lineStart' = atStart'
      BY <1>9, <2>2 DEF WriteOut
    <3> QED BY <1>1, <1>5, <3>1, ReleaseKeeps
  <2> QED BY <2>1, <2>2
<1>11. WarnInv' /\ warned' \in 0 .. 2
  <2>1. todo[Warner] \in Seq({"warn"}) /\ todo'[Warner] \in Seq({"warn"})
    BY <1>1, <1>4 DEF ShapeInv, OthersInv
  <2>2. CASE a = Warner
    <3>1. disabled /\ warned + Len(todo[Warner]) = 1 /\ warned \in 0 .. 2
      BY <1>1, <2>2 DEF WritesInv, WarnInv, Busy, TypeOK
    <3> QED BY <1>1, <1>3, <1>7, <2>1, <2>2, <3>1 DEF WarnInv
  <2>3. CASE a # Warner
    BY <1>1, <1>3, <1>7, <2>3 DEF WritesInv, WarnInv, TypeOK
  <2> QED BY <2>2, <2>3
<1>12. shown' \in [Hooks -> Seq(Lines \cup {"chunk"})]
  <2>1. CASE a = Warner
    BY <1>1, <1>7, <2>1 DEF TypeOK
  <2>2. CASE a # Warner
    <3>1. shown \in [Hooks -> Seq(Lines \cup {"chunk"})] /\ Of(a) \in Hooks
      BY <1>1, <2>2, BusyMeansEvent DEF TypeOK, IInv
    <3>2. Append(shown[Of(a)], Op(a)) \in Seq(Lines \cup {"chunk"})
      BY <1>1, <3>1, Appended
    <3> QED BY <1>7, <2>2, <3>1, <3>2
  <2> QED BY <2>1, <2>2
<1>13. TypeOK'
  <2>1. {atStart, lineStart}' \subseteq BOOLEAN
    BY <1>1, <1>9 DEF TypeOK
  <2> QED BY <1>1, <1>5, <1>10, <1>11, <1>12, <2>1 DEF TypeOK
<1>14. TornIsLast'
  BY <1>1 DEF WritesInv, TornIsLast
<1> QED BY <1>4, <1>6, <1>8, <1>10, <1>11, <1>13, <1>14
        DEF IInv, ShapeInv, WritesInv, RecordsInv

-----------------------------------------------------------------------------
(* Writing to the pipe.                                                    *)

\* Where the goroutines are that write to the pipe.
LEMMA EmittersPlace ==
  ASSUME IInv, NEW a \in Actors, Over(a), Op(a) \in {"emit", "side"}
  PROVE  /\ Of(a) = Current /\ at > 0 /\ a # Warner /\ Allowed(a)
         /\ todo'[Main] \notin EmitAhead /\ Current' = Current
         /\ Op(a) = "emit" => todo[Main] \in EmitAhead /\ SideAhead'
         /\ Op(a) = "side" => /\ todo[Main] \notin EmitAhead /\ SideAhead /\ ~SideAhead'
                              /\ Kind(Current) # "none"
<1>1. /\ ShapeInv /\ HooksInv /\ TypeOK /\ MainInv /\ OthersInv /\ Busy(a)
      /\ UNCHANGED <<script, mode, at, proc>> /\ \A e \in Hooks : HookInv(e)
      /\ todo[Main] \in MainTodo
  BY DEF IInv, ShapeInv, Over, HooksInv, MainInv
<1>2. Allowed(a)
  BY DEF Allowed
<1>3. IF a = Main THEN Advanced /\ Forward ELSE todo'[Main] = todo[Main]
  BY <1>2, OverKeeps DEF IInv, Allowed
<1>4. a = Main \/ \E e \in Hooks : a = Side(e) /\ Of(a) = e /\ Op(a) = "side" /\ todo[a] = SideTodo
  BY <1>1, Roles
<1>5. CASE a = Main
  <2>1. /\ Of(a) = Current /\ at > 0 /\ a # Warner /\ Current \in Hooks /\ Reached(Current)
        /\ Current' = Current /\ at' = at
    BY <1>1, <1>5, CurrentEvent, SameEvent, ActorsDiffer DEF MainInv, Busy
  <2>2. todo'[Main] = Rest(todo[Main])
    BY <1>3, <1>5 DEF Advanced
  <2>3. CASE Op(a) = "emit"
    <3>1. todo[Main] = MEmit /\ todo'[Main] = MHook
      BY <1>1, <1>5, <2>2, <2>3, MainOps, Lists
    <3> QED BY <1>2, <2>1, <2>3, <3>1, Lists
            DEF EmitAhead, EventAhead, Stopping, SideAhead, MainSideAhead
  <2>4. CASE Op(a) = "side"
    <3>1. todo[Main] \in {MUnstarted, MSide, AUnstarted, DSide, DASide}
      BY <1>1, <1>5, <2>4, MainOps
    <3>2. Kind(Current) # "none"
      BY <1>1, <3>1 DEF MainInv, SyncTodo, AsyncTodo
    <3>3. todo[Main] \notin EmitAhead /\ todo[Main] \in MainSideAhead
      BY <3>1, Lists DEF EmitAhead, EventAhead, Stopping, MainSideAhead
    <3>4. todo'[Main] \notin EmitAhead /\ todo'[Main] \notin MainSideAhead
      BY <1>3, <1>5, <2>4, <3>3 DEF Forward
    <3>5. todo'[Side(Current)] = todo[Side(Current)] /\ ~Busy(Side(Current))
      <4>1. todo[Main] \notin {MReap, MJoin}
        BY <3>1, Lists
      <4> QED BY <1>1, <1>5, <2>1, <4>1, ActorsDiffer DEF HookInv, Over, OnlyMoves
    <3> QED BY <1>2, <2>1, <2>4, <3>2, <3>3, <3>4, <3>5 DEF SideAhead, Busy
  <2> QED BY <2>3, <2>4
<1>6. ASSUME NEW e \in Hooks, a = Side(e), Of(a) = e, Op(a) = "side", todo[a] = SideTodo, a # Main
      PROVE  /\ Of(a) = Current /\ at > 0 /\ a # Warner /\ Allowed(a)
             /\ todo'[Main] \notin EmitAhead /\ Current' = Current
             /\ todo[Main] \notin EmitAhead /\ SideAhead /\ ~SideAhead'
             /\ Kind(Current) # "none"
  <2>1. IsCurrent(e) /\ todo[Main] \in {MReap, MJoin} /\ todo'[Main] = todo[Main]
    BY <1>1, <1>3, <1>6 DEF HookInv
  <2>2. /\ Of(a) = Current /\ at > 0 /\ a # Warner /\ e = Current /\ Current' = Current
    BY <1>1, <1>6, <2>1, SameEvent, ActorsDiffer DEF IsCurrent
  <2>3. Kind(Current) # "none"
    BY <1>1, <2>1 DEF MainInv, SyncTodo
  <2>4. todo[Main] \notin EmitAhead /\ todo[Main] \notin MainSideAhead
    BY <2>1, Lists DEF EmitAhead, EventAhead, Stopping, MainSideAhead
  <2>5. todo'[Side(e)] = <<>>
    BY <1>6, Lists DEF Over
  <2>6. SideAhead
    BY <1>1, <1>6, <2>2 DEF SideAhead
  <2>7. ~SideAhead'
    BY <2>1, <2>2, <2>4, <2>5 DEF SideAhead, Busy
  <2> QED BY <1>2, <2>1, <2>2, <2>3, <2>4, <2>6, <2>7
<1>7. CASE a # Main
  BY <1>4, <1>6, <1>7
<1> QED BY <1>5, <1>7

\* A record is added to a pipe whose last record is whole.
LEMMA PutKeepsTorn ==
  ASSUME TypeOK, NEW a \in Actors, Of(a) \in Hooks, Op(a) \in {"emit", "side"},
         NEW torn \in BOOLEAN, Put(a, torn), script' = script,
         \A i \in DOMAIN pipe : ~pipe[i].torn, torn => disabled'
  PROVE  /\ pipe' \in Seq([kind : {"emit", "side"}, of : Hooks, torn : BOOLEAN])
         /\ TornIsLast'
<1>1. /\ pipe' \in Seq([kind : {"emit", "side"}, of : Hooks, torn : BOOLEAN])
      /\ Len(pipe) \in Nat /\ DOMAIN pipe = 1 .. Len(pipe)
      /\ Len(pipe') = Len(pipe) + 1 /\ DOMAIN pipe' = 1 .. Len(pipe) + 1
      /\ \A i \in 1 .. Len(pipe) : pipe'[i] = pipe[i]
      /\ pipe'[Len(pipe) + 1].torn = torn
  BY PutAppends
<1>2. ASSUME NEW i \in DOMAIN pipe', pipe'[i].torn PROVE i = Len(pipe') /\ disabled'
  <2>1. i \notin 1 .. Len(pipe)
    BY <1>1, <1>2
  <2>2. i = Len(pipe) + 1
    BY <1>1, <1>2, <2>1
  <2> QED BY <1>1, <1>2, <2>2
<1> QED BY <1>1, <1>2 DEF TornIsLast

\* No other goroutine is inside a write to the pipe.
OthersWaitFor(a) == \A b \in Actors \ {a} : phase[b] \notin {"checked", "blocked"}

\* A goroutine has written to the pipe, or given up: the invariant of what comes
\* out of it is the only one left to show.
LEMMA EmitterKeeps ==
  ASSUME IInv, NEW a \in Actors, Over(a), Op(a) \in {"emit", "side"},
         Continue(a, <<>>) \/ Disable(a), OthersWaitFor(a),
         disabled' => IF disabled THEN todo'[Warner] = todo[Warner]
                      ELSE todo'[Warner] = Append(todo[Warner], "warn"),
         ~disabled' => ~disabled /\ todo'[Warner] = todo[Warner],
         disabled' \in BOOLEAN,
         emitLock' = emitLock \/ (emitLock' = Nobody /\ phase[a] \in {"checked", "blocked"}),
         UNCHANGED <<chunks, outVars, managerLock>>,
         pipe' \in Seq([kind : {"emit", "side"}, of : Hooks, torn : BOOLEAN]),
         TornIsLast', PipeInv'
  PROVE  IInv'
<1>1. /\ ShapeInv /\ WritesInv /\ UNCHANGED <<script, mode, at, proc>>
      /\ UNCHANGED <<shown, warned, atStart, lineStart, outLock>>
  BY DEF IInv, Over, outVars
<1>2. Allowed(a) /\ Op(a) # "end"
  BY DEF Allowed
<1>3. /\ MainInv' /\ OthersInv' /\ HooksInv' /\ \A b \in Actors : todo'[b] \in Seq(Ops)
  BY <1>2, OverKeeps DEF IInv, Allowed
<1>4. /\ todo' \in [Actors -> Seq(Ops)] /\ phase' = [phase EXCEPT ![a] = "ready"]
      /\ phase' \in [Actors -> {"ready", "locked", "separated", "checked", "blocked"}]
  BY <1>1, <1>3, OverTypes
<1>5. ShapeInv'
  BY <1>1, <1>3, <1>4 DEF ShapeInv, TypeOK
<1>6. LockInv' /\ LineInv'
  <2>1. disabled' = disabled \/ \A b \in Actors \ {a} : phase[b] \notin {"checked", "blocked"}
    BY DEF OthersWaitFor
  <2> QED BY <1>1, <1>4, <2>1, ReleaseKeeps DEF WritesInv, LineInv
<1>7. WarnInv'
  <2>1. todo[Warner] \in Seq({"warn"})
    BY <1>1 DEF ShapeInv, OthersInv
  <2>2. todo[Warner] = <<>> => Len(Append(todo[Warner], "warn")) = 1
    BY <2>1
  <2> QED BY <1>1, <2>2 DEF WritesInv, WarnInv
<1>8. \A e \in Hooks : ShownInv(e)'
  BY <1>1, <1>2, SilentOver
<1> QED BY <1>3, <1>5, <1>6, <1>7, <1>8 DEF IInv, WritesInv, RecordsInv

\* A write that fails, or that the descriptor's mode forbids.
LEMMA DisableKeeps ==
  ASSUME IInv, NEW a \in Actors, Doing(a, {"emit", "side"}), Disable(a), ~disabled,
         OthersWaitFor(a),
         emitLock' = emitLock \/ (emitLock' = Nobody /\ phase[a] \in {"checked", "blocked"}),
         UNCHANGED <<hookVars, outVars, managerLock>>,
         pipe' = pipe \/ Put(a, TRUE)
  PROVE  IInv'
<1>1. /\ ShapeInv /\ TypeOK /\ Op(a) \in {"emit", "side"} /\ disabled' = TRUE
      /\ UNCHANGED <<script, mode, at, proc, chunks>>
  BY DEF IInv, ShapeInv, Doing, Disable, hookVars
<1>2. Over(a) /\ todo'[Warner] = Append(todo[Warner], "warn")
  BY <1>1, DisableOver
<1>3. /\ Of(a) = Current /\ at > 0 /\ Current \in Hooks /\ todo'[Main] \notin EmitAhead
      /\ Op(a) = "emit" => todo[Main] \in EmitAhead /\ SideAhead'
      /\ Op(a) = "side" => /\ todo[Main] \notin EmitAhead /\ SideAhead /\ ~SideAhead'
                           /\ Kind(Current) # "none"
  BY <1>1, <1>2, EmittersPlace, CurrentEvent
<1>4. \A i \in DOMAIN pipe : ~pipe[i].torn
  BY DEF IInv, WritesInv, TornIsLast
<1>5. CASE pipe' = pipe
  <2>1. TornIsLast'
    BY <1>4, <1>5 DEF TornIsLast
  <2>2. PipeInv'
    BY <1>1, <1>3, <1>5, SilenceKeepsPipe DEF IInv, RecordsInv
  <2> QED BY <1>1, <1>2, <1>5, <2>1, <2>2, EmitterKeeps DEF TypeOK
<1>6. CASE Put(a, TRUE)
  <2>1. /\ pipe' \in Seq([kind : {"emit", "side"}, of : Hooks, torn : BOOLEAN])
        /\ TornIsLast'
    BY <1>1, <1>3, <1>4, <1>6, PutKeepsTorn
  <2>2. PipeInv'
    BY <1>1, <1>3, <1>6, PutKeepsPipe DEF IInv, RecordsInv
  <2> QED BY <1>1, <1>2, <2>1, <2>2, EmitterKeeps
<1> QED BY <1>5, <1>6

\* A write to the pipe ends well.
LEMMA WholePutKeeps ==
  ASSUME IInv, NEW a \in Actors, Doing(a, {"emit", "side"}),
         phase[a] \in {"checked", "blocked"}, Put(a, FALSE), Continue(a, <<>>),
         disabled' = disabled, emitLock' = Nobody,
         UNCHANGED <<hookVars, outVars, managerLock>>
  PROVE  IInv'
<1>1. /\ ShapeInv /\ TypeOK /\ Busy(a) /\ Op(a) \in {"emit", "side"}
      /\ UNCHANGED <<script, mode, at, proc, chunks>>
  BY DEF IInv, ShapeInv, Doing, hookVars
<1>2. a # Warner
  BY <1>1, WarnerWarns
<1>3. Over(a) /\ todo'[Warner] = todo[Warner]
  BY <1>1, <1>2, ContinueOver
<1>4. /\ Of(a) = Current /\ at > 0 /\ Current \in Hooks /\ todo'[Main] \notin EmitAhead
      /\ Op(a) = "emit" => todo[Main] \in EmitAhead /\ SideAhead'
      /\ Op(a) = "side" => /\ todo[Main] \notin EmitAhead /\ SideAhead /\ ~SideAhead'
                           /\ Kind(Current) # "none"
  BY <1>1, <1>3, EmittersPlace, CurrentEvent
<1>5. /\ ~disabled /\ ~disabled' /\ \A i \in DOMAIN pipe : ~pipe[i].torn
      /\ OthersWaitFor(a)
  BY DEF IInv, WritesInv, LockInv, TornIsLast, OthersWaitFor
<1>6. /\ pipe' \in Seq([kind : {"emit", "side"}, of : Hooks, torn : BOOLEAN])
      /\ TornIsLast'
  BY <1>1, <1>4, <1>5, PutKeepsTorn
<1>7. PipeInv'
  BY <1>1, <1>4, <1>5, PutKeepsPipe DEF IInv, RecordsInv
<1> QED BY <1>1, <1>3, <1>5, <1>6, <1>7, EmitterKeeps DEF TypeOK

\* The checks before a write to the pipe.
LEMMA EmitChecksKeep ==
  ASSUME IInv, NEW a \in Actors, EmitChecks(a) PROVE IInv'
<1>1. /\ Doing(a, {"emit", "side"}) /\ Busy(a) /\ Op(a) \in {"emit", "side"}
      /\ phase[a] = "ready" /\ emitLock = Nobody /\ pipe' = pipe
      /\ UNCHANGED <<hookVars, outVars, managerLock>>
      /\ UNCHANGED <<script, mode, at, proc, chunks>>
      /\ ShapeInv /\ WritesInv /\ TypeOK
  BY DEF EmitChecks, Doing, hookVars, IInv, ShapeInv
<1>2. \A b \in Actors : phase[b] \notin {"checked", "blocked"}
  BY <1>1, ActorsDiffer DEF WritesInv, LockInv
<1>3. CASE disabled /\ Continue(a, <<>>) /\ UNCHANGED <<emitLock, disabled>>
  <2>1. a # Warner
    BY <1>1, WarnerWarns
  <2>2. Over(a) /\ todo'[Warner] = todo[Warner]
    BY <1>1, <1>3, <2>1, ContinueOver
  <2>3. todo'[Main] \notin EmitAhead
    BY <1>1, <2>2, EmittersPlace
  <2>4. PipeInv'
    BY <1>1, <1>3, <2>3, SilenceKeepsPipe DEF IInv, RecordsInv
  <2>5. TornIsLast' /\ OthersWaitFor(a)
    BY <1>1, <1>2, <1>3 DEF WritesInv, TornIsLast, OthersWaitFor
  <2> QED BY <1>1, <1>3, <2>2, <2>4, <2>5, EmitterKeeps DEF TypeOK
<1>4. CASE ~disabled /\ Goto(a, "checked") /\ emitLock' = a /\ UNCHANGED disabled
  <2>1. /\ phase' = [phase EXCEPT ![a] = "checked"] /\ todo' = todo
        /\ phase \in [Actors -> {"ready", "locked", "separated", "checked", "blocked"}]
        /\ UNCHANGED <<shown, warned, atStart, lineStart, outLock>>
    BY <1>1, <1>4 DEF Goto, TypeOK, outVars
  <2>2. /\ HooksInv' /\ RecordsInv' /\ MainInv' /\ OthersInv' /\ TornIsLast' /\ WarnInv'
    BY <1>1, <1>4, <2>1, WithinKeeps
  <2>3. LockInv' /\ LineInv'
    BY <1>1, <1>2, <1>4, <2>1 DEF WritesInv, LockInv, LineInv
  <2>4. TypeOK'
    BY <1>1, <1>4, <2>1 DEF TypeOK
  <2> QED BY <2>2, <2>3, <2>4 DEF IInv, ShapeInv, WritesInv
<1>5. CASE ~disabled /\ Disable(a) /\ UNCHANGED emitLock
  BY <1>1, <1>2, <1>5, DisableKeeps DEF OthersWaitFor
<1> QED BY <1>3, <1>4, <1>5 DEF EmitChecks

\* The write to the pipe.
LEMMA EmitWriteKeeps ==
  ASSUME IInv, NEW a \in Actors, EmitWrite(a) PROVE IInv'
<1>1. /\ Doing(a, {"emit", "side"}) /\ phase[a] = "checked" /\ emitLock' = Nobody
      /\ UNCHANGED <<hookVars, outVars, managerLock>>
      /\ ~disabled /\ OthersWaitFor(a)
  BY DEF EmitWrite, IInv, WritesInv, LockInv, OthersWaitFor
<1>2. CASE Put(a, FALSE) /\ Continue(a, <<>>) /\ UNCHANGED disabled
  BY <1>1, <1>2, WholePutKeeps
<1>3. CASE Put(a, TRUE) /\ Disable(a)
  BY <1>1, <1>3, DisableKeeps
<1>4. CASE UNCHANGED pipe /\ Disable(a)
  BY <1>1, <1>4, DisableKeeps
<1> QED BY <1>2, <1>3, <1>4 DEF EmitWrite

\* The write that blocks.
LEMMA EmitBlocksKeeps ==
  ASSUME IInv, NEW a \in Actors, EmitBlocks(a) PROVE IInv'
<1>1. /\ Doing(a, {"emit", "side"}) /\ disabled' = disabled
      /\ UNCHANGED <<hookVars, outVars, managerLock>>
      /\ ShapeInv /\ WritesInv /\ TypeOK
  BY DEF EmitBlocks, IInv, ShapeInv
<1>2. CASE phase[a] = "checked" /\ Goto(a, "blocked") /\ UNCHANGED <<emitLock, pipe>>
  <2>1. /\ phase' = [phase EXCEPT ![a] = "blocked"] /\ todo' = todo
        /\ phase \in [Actors -> {"ready", "locked", "separated", "checked", "blocked"}]
        /\ UNCHANGED <<shown, warned, atStart, lineStart, outLock>>
    BY <1>1, <1>2 DEF Goto, TypeOK, outVars
  <2>2. /\ HooksInv' /\ RecordsInv' /\ MainInv' /\ OthersInv' /\ TornIsLast' /\ WarnInv'
    BY <1>1, <1>2, <2>1, WithinKeeps
  <2>3. LockInv' /\ LineInv'
    BY <1>1, <1>2, <2>1 DEF WritesInv, LockInv, LineInv
  <2>4. TypeOK'
    BY <1>1, <1>2, <2>1 DEF TypeOK, hookVars
  <2> QED BY <2>2, <2>3, <2>4 DEF IInv, ShapeInv, WritesInv
<1>3. CASE phase[a] = "blocked" /\ Put(a, FALSE) /\ Continue(a, <<>>) /\ emitLock' = Nobody
  BY <1>1, <1>3, WholePutKeeps
<1> QED BY <1>2, <1>3 DEF EmitBlocks

-----------------------------------------------------------------------------
(* The hooks' processes, and the next event.                               *)

\* A hook whose end is still to be recorded, or not, keeps its records.
LEMMA SteadyShown ==
  ASSUME TypeOK, UNCHANGED <<script, mode, at>>, NEW e \in Hooks, ShownInv(e),
         shown'[e] = shown[e], EndAhead(e)' <=> EndAhead(e),
         IsCurrent(e) => todo'[Main] \notin LaunchAhead
  PROVE  ShownInv(e)'
<1>1. /\ Current' = Current /\ mode' = mode /\ Reached(e)' = Reached(e) /\ at' = at
      /\ Kind(e)' = Kind(e) /\ IsCurrent(e)' = IsCurrent(e)
  BY SameEvent
<1>2. /\ \A k : Contains(shown[e], k)' = Contains(shown[e], k)
      /\ Once(shown[e], "end")' = Once(shown[e], "end")
      /\ \A kinds : Only(e, kinds)' = Only(e, kinds)
      /\ InOrder(e)' = InOrder(e)
  BY <1>1 DEF Contains, Once, Only, InOrder
<1>3. IsCurrent(e) => todo'[Main] \notin EventAhead /\ todo'[Main] \notin StartAhead
  BY DEF LaunchAhead, StartAhead, EmitAhead
<1> QED BY <1>1, <1>2, <1>3 DEF ShownInv

\* What the start of a hook, or its failure, leaves behind.
Launched(p) ==
  /\ proc' = [proc EXCEPT ![Current] = p]
  /\ \/ /\ Kind(Current) = "sync" /\ p = "alive"
        /\ todo'[Main] = MReap /\ todo'[Side(Current)] = SideTodo
        /\ \A b \in Actors \ {Main, Side(Current)} : todo'[b] = todo[b]
     \/ /\ Kind(Current) = "async" /\ p = "alive"
        /\ todo'[Main] = MSide /\ todo'[Waiter(Current)] = WReap
        /\ \A b \in Actors \ {Main, Waiter(Current)} : todo'[b] = todo[b]
     \/ /\ p = "fail"
        /\ todo'[Main] = IF Kind(Current) = "async" THEN AUnstarted ELSE MUnstarted
        /\ \A b \in Actors \ {Main} : todo'[b] = todo[b]

\* Hooks that do not start now stay as they are.
LEMMA LaunchKeepsHooks ==
  ASSUME IInv, todo[Main] = MLaunch, NEW p \in {"alive", "fail"}, Launched(p),
         UNCHANGED <<script, mode, at, shown>>
  PROVE  /\ MainInv' /\ OthersInv' /\ HooksInv' /\ \A e \in Hooks : ShownInv(e)'
         /\ todo'[Warner] = todo[Warner] /\ (SideAhead' <=> SideAhead)
         /\ todo[Main] \notin EmitAhead /\ todo'[Main] \notin EmitAhead
<1>1. /\ TypeOK /\ MainInv /\ OthersInv /\ StopInv
      /\ \A e \in Hooks : HookInv(e) /\ ShownInv(e)
  BY DEF IInv, ShapeInv, HooksInv, RecordsInv
<1>2. /\ Current' = Current /\ mode' = mode /\ at' = at
      /\ \A e : /\ Reached(e)' = Reached(e) /\ Kind(e)' = Kind(e)
                /\ IsCurrent(e)' = IsCurrent(e)
  BY SameEvent
<1>3. /\ at > 0 /\ Current \in Hooks /\ Reached(Current) /\ IsCurrent(Current) /\ ~mode.dryRun
      /\ Kind(Current) \in {"sync", "async"}
  <2>1. at > 0 /\ ~mode.dryRun /\ Kind(Current) # "none"
    BY <1>1, Lists DEF MainInv
  <2> QED BY <1>1, <2>1, CurrentEvent DEF HookKinds, IsCurrent
<1>4. /\ Untouched(Current)
      /\ \A e \in Hooks : IsCurrent(e) => e = Current
  BY <1>1, <1>3 DEF HookInv, IsCurrent, LaunchAhead
<1>5. /\ todo'[Main] \in {MReap, MSide, MUnstarted, AUnstarted}
      /\ todo'[Main] \in {MReap, MUnstarted} => Kind(Current) = "sync"
      /\ todo'[Main] \in {MSide, AUnstarted} => Kind(Current) = "async"
      /\ todo'[Main] # <<>>
  BY <1>3, Lists DEF Launched
<1>6. /\ todo'[Main] \notin EmitAhead /\ todo'[Main] \notin Stopping
      /\ todo'[Main] \notin LaunchAhead
      /\ todo[Main] \notin EmitAhead /\ todo[Main] \notin Stopping
      /\ todo[Main] \in LaunchAhead /\ todo[Main] \in MainSideAhead
  BY <1>5, Lists
     DEF LaunchAhead, StartAhead, EmitAhead, EventAhead, Stopping, MainSideAhead
<1>7. MainInv'
  BY <1>2, <1>3, <1>5, <1>6, Lists DEF MainInv, MainTodo, SyncTodo, AsyncTodo, DryTodo
<1>8. todo'[Warner] = todo[Warner] /\ \A e \in Hooks : todo'[Copier(e)] = todo[Copier(e)]
  BY <1>3, ActorsDiffer DEF Launched
<1>9. ASSUME NEW e \in Hooks
      PROVE  /\ todo'[Side(e)] = IF e = Current /\ todo'[Main] = MReap THEN SideTodo
                                 ELSE todo[Side(e)]
             /\ todo'[Waiter(e)] = IF e = Current /\ todo'[Main] = MSide THEN WReap
                                   ELSE todo[Waiter(e)]
             /\ e # Current => proc'[e] = proc[e]
             /\ todo'[Main] \in {MReap, MSide} \/ proc'[Current] = "fail"
  <2>1. e # Current => proc'[e] = proc[e]
    BY <1>1 DEF Launched, TypeOK
  <2>2. proc'[Current] = p
    BY <1>1, <1>3 DEF Launched, TypeOK
  <2>3. /\ Side(e) \in Actors \ {Main} /\ Waiter(e) \in Actors \ {Main}
        /\ Side(e) # Waiter(Current) /\ Waiter(e) # Side(Current)
        /\ e # Current => Side(e) # Side(Current) /\ Waiter(e) # Waiter(Current)
    BY <1>3, ActorsDiffer
  <2>4. MReap # MSide /\ \A t \in {AUnstarted, MUnstarted} : t # MReap /\ t # MSide
    BY Lists
  <2>5. CASE p = "alive" /\ Kind(Current) = "sync"
    <3>1. /\ todo'[Main] = MReap /\ todo'[Side(Current)] = SideTodo
          /\ \A b \in Actors \ {Main, Side(Current)} : todo'[b] = todo[b]
      BY <2>5 DEF Launched
    <3>2. todo'[Waiter(e)] = todo[Waiter(e)]
      BY <2>3, <3>1
    <3>3. e # Current => todo'[Side(e)] = todo[Side(e)]
      BY <2>3, <3>1
    <3> QED BY <2>1, <2>4, <3>1, <3>2, <3>3
  <2>6. CASE p = "alive" /\ Kind(Current) = "async"
    <3>1. /\ todo'[Main] = MSide /\ todo'[Waiter(Current)] = WReap
          /\ \A b \in Actors \ {Main, Waiter(Current)} : todo'[b] = todo[b]
      BY <2>6 DEF Launched
    <3>2. todo'[Side(e)] = todo[Side(e)]
      BY <2>3, <3>1
    <3>3. e # Current => todo'[Waiter(e)] = todo[Waiter(e)]
      BY <2>3, <3>1
    <3> QED BY <2>1, <2>4, <3>1, <3>2, <3>3
  <2>7. CASE p = "fail"
    <3>1. /\ todo'[Main] = IF Kind(Current) = "async" THEN AUnstarted ELSE MUnstarted
          /\ \A b \in Actors \ {Main} : todo'[b] = todo[b]
      BY <2>7 DEF Launched
    <3> QED BY <2>1, <2>2, <2>3, <2>4, <2>7, <3>1
  <2> QED BY <1>3, <2>5, <2>6, <2>7
<1>10. OthersInv'
  BY <1>1, <1>8, <1>9 DEF OthersInv, WaiterTodo
<1>11. ASSUME NEW e \in Hooks, e # Current PROVE HookInv(e)' /\ ShownInv(e)'
  <2>1. ~IsCurrent(e) /\ ~IsCurrent(e)'
    BY <1>2, <1>4, <1>11
  <2>2. /\ todo'[Side(e)] = todo[Side(e)] /\ todo'[Copier(e)] = todo[Copier(e)]
        /\ todo'[Waiter(e)] = todo[Waiter(e)] /\ proc'[e] = proc[e]
    BY <1>8, <1>9, <1>11
  <2>3. HookInv(e)'
    BY <1>1, <1>2, <2>1, <2>2 DEF HookInv, Untouched, Reaping, Busy
  <2>4. EndAhead(e)' <=> EndAhead(e)
    BY <1>2, <2>1, <2>2 DEF EndAhead
  <2> QED BY <1>1, <2>1, <2>3, <2>4, SteadyShown
<1>12. HookInv(Current)'
  <2>1. /\ ~Busy(Side(Current)) /\ ~Busy(Copier(Current)) /\ ~Busy(Waiter(Current))
    BY <1>4 DEF Untouched
  <2>2. (proc[Current] = "alive" \/ Busy(Copier(Current)) => Reaping(Current))'
    BY <1>2, <1>3, <1>8, <1>9, <2>1 DEF Reaping, Busy
  <2>3. (Busy(Side(Current)) => IsCurrent(Current) /\ todo[Main] \in {MReap, MJoin})'
    BY <1>2, <1>3, <1>9, <2>1 DEF Busy
  <2>4. (Busy(Waiter(Current)) => /\ Kind(Current) = "async"
                                  /\ IsCurrent(Current) => todo[Main] \in {MSide, <<>>})'
    BY <1>2, <1>3, <1>5, <1>9, <2>1 DEF Busy
  <2> QED BY <1>2, <1>3, <1>6, <2>2, <2>3, <2>4 DEF HookInv
<1>13. ShownInv(Current)'
  <2>1. EndAhead(Current)
    BY <1>3, <1>6 DEF EndAhead, MainEndAhead
  <2>2. EndAhead(Current)'
    BY <1>2, <1>3, <1>5, <1>9 DEF EndAhead, MainEndAhead, WaiterEndAhead
  <2> QED BY <1>1, <1>2, <1>3, <1>6, <2>1, <2>2, SteadyShown
<1>14. StopInv'
  <2>1. ASSUME Current = "shutdown" PROVE \A e \in Hooks : ~Busy(Waiter(e))'
    <3>1. Kind(Current) = "sync"
      <4>1. at = Len(script) /\ Kind(Current) = script[at].hook
        BY <1>1, <1>3, <2>1, CurrentEvent, ScriptHooks DEF Current
      <4> QED BY <1>1, <1>3, <4>1, ScriptHooks
    <3>2. todo'[Main] # MSide
      BY <1>5, <3>1
    <3> QED BY <1>1, <1>3, <1>6, <1>9, <2>1, <3>2 DEF StopInv, Busy
  <2> QED BY <1>2, <2>1 DEF StopInv
<1>15. SideAhead' <=> SideAhead
  <2>1. todo'[Main] = MReap => Busy(Side(Current))'
    BY <1>2, <1>3, <1>9, Lists DEF Busy
  <2>2. todo'[Main] # MReap => todo'[Main] \in MainSideAhead
    BY <1>5 DEF MainSideAhead
  <2> QED BY <1>2, <1>3, <1>6, <2>1, <2>2 DEF SideAhead
<1>16. \A e \in Hooks : HookInv(e)' /\ ShownInv(e)'
  BY <1>2, <1>11, <1>12, <1>13
<1> QED BY <1>6, <1>7, <1>8, <1>10, <1>14, <1>15, <1>16 DEF HooksInv

\* A hook that starts, or fails to, leaves both outputs alone.
LEMMA LaunchedKeeps ==
  ASSUME IInv, todo[Main] = MLaunch, NEW p \in {"alive", "fail"}, Launched(p),
         todo' \in [Actors -> Seq(Ops)],
         phase' = phase \/ phase' = [phase EXCEPT ![Main] = "ready"],
         managerLock' \in Actors \cup {Nobody},
         UNCHANGED <<script, mode, at, chunks, outVars, pipeVars>>
  PROVE  IInv'
<1>1. /\ TypeOK /\ ShapeInv /\ WritesInv /\ PipeInv
      /\ UNCHANGED <<shown, warned, atStart, lineStart, outLock, emitLock, disabled, pipe>>
  BY DEF IInv, ShapeInv, RecordsInv, outVars, pipeVars
<1>2. /\ MainInv' /\ OthersInv' /\ HooksInv' /\ \A e \in Hooks : ShownInv(e)'
      /\ todo'[Warner] = todo[Warner] /\ (SideAhead' <=> SideAhead)
      /\ todo[Main] \notin EmitAhead /\ todo'[Main] \notin EmitAhead
  BY <1>1, LaunchKeepsHooks
<1>3. PipeInv'
  BY <1>1, <1>2, SilenceKeepsPipe
<1>4. TypeOK'
  <2>1. /\ proc' \in [Hooks -> {"none", "alive", "ok", "fail"}]
        /\ phase' \in [Actors -> {"ready", "locked", "separated", "checked", "blocked"}]
    BY <1>1 DEF Launched, TypeOK
  <2> QED BY <1>1, <2>1 DEF TypeOK
<1>5. LockInv' /\ LineInv'
  <2>1. CASE phase' = phase
    BY <1>1, <2>1 DEF WritesInv, LockInv, LineInv
  <2>2. CASE phase' = [phase EXCEPT ![Main] = "ready"]
    BY <1>1, <2>2, ActorsDiffer, ReleaseKeeps DEF WritesInv, LineInv
  <2> QED BY <2>1, <2>2
<1>6. TornIsLast' /\ WarnInv'
  BY <1>1, <1>2 DEF WritesInv, TornIsLast, WarnInv
<1> QED BY <1>2, <1>3, <1>4, <1>5, <1>6 DEF IInv, ShapeInv, WritesInv, RecordsInv

\* Only main starts hooks.
LEMMA MainLaunches ==
  ASSUME IInv, NEW a \in Actors, Doing(a, {"launch"})
  PROVE  /\ a = Main /\ todo[Main] = MLaunch /\ Of(Main) = Current
         /\ Tail(todo[Main]) = <<>> /\ Current \in Hooks /\ Kind(Current) \in {"sync", "async"}
<1>1. ShapeInv /\ MainInv /\ TypeOK /\ Busy(a) /\ Op(a) = "launch"
  BY DEF IInv, ShapeInv, Doing
<1>2. a = Main
  BY <1>1, Roles
<1>3. todo[Main] = MLaunch
  BY <1>1, <1>2, MainOps
<1>4. at > 0 /\ Kind(Current) # "none"
  BY <1>1, <1>3, Lists DEF MainInv
<1>5. Tail(todo[Main]) = <<>>
  BY <1>3, Lists DEF Rest
<1> QED BY <1>1, <1>2, <1>3, <1>4, <1>5, CurrentEvent DEF HookKinds

\* The process starts.
LEMMA LaunchKeeps ==
  ASSUME IInv, NEW a \in Actors, Launch(a) PROVE IInv'
<1>1. /\ a = Main /\ todo[Main] = MLaunch /\ Of(Main) = Current
      /\ Tail(todo[Main]) = <<>> /\ Current \in Hooks
      /\ todo \in [Actors -> Seq(Ops)] /\ managerLock \in Actors \cup {Nobody}
      /\ proc' = [proc EXCEPT ![Current] = "alive"]
      /\ UNCHANGED <<script, mode, at, phase, chunks, outVars, pipeVars>>
  BY MainLaunches DEF Launch, IInv, ShapeInv, TypeOK
<1>2. /\ {Main, Side(Current), Waiter(Current)} \subseteq Actors
      /\ Main # Side(Current) /\ Main # Waiter(Current)
  <2>1. \A f \in Hooks : /\ {Main, Side(f), Waiter(f)} \subseteq Actors
                         /\ Main # Side(f) /\ Main # Waiter(f)
    BY ActorsDiffer
  <2> QED BY <1>1, <2>1
<1>3. /\ MReap \in Seq(Ops) /\ MSide \in Seq(Ops) /\ SideTodo \in Seq(Ops)
      /\ WReap \in Seq(Ops)
  BY ListsTyped DEF MainTodo, SyncTodo, AsyncTodo, WaiterTodo
<1>4. CASE /\ Kind(Current) = "sync"
           /\ todo' = [todo EXCEPT ![Main] = <<"reap", "join", "end", "fail">> \o Tail(@),
                                   ![Side(Current)] = <<"side">>]
           /\ UNCHANGED managerLock
  <2>1. todo' = [todo EXCEPT ![Main] = MReap, ![Side(Current)] = SideTodo]
    <3>1. <<"reap", "join", "end", "fail">> \o Tail(todo[Main]) = MReap
      BY <1>1, <1>3, AddNothing DEF MReap
    <3> QED BY <1>1, <1>2, <1>4, <3>1 DEF SideTodo
  <2>2. Launched("alive")
    BY <1>1, <1>2, <1>4, <2>1 DEF Launched
  <2>3. todo' \in [Actors -> Seq(Ops)]
    BY <1>1, <1>3, <2>1
  <2> QED BY <1>1, <1>4, <2>2, <2>3, LaunchedKeeps
<1>5. CASE /\ Kind(Current) = "async"
           /\ todo' = [todo EXCEPT ![Main] = <<"side">> \o Tail(@),
                                   ![Waiter(Current)] = <<"reap", "lock", "unlock">>]
           /\ managerLock' = Nobody
  <2>1. todo' = [todo EXCEPT ![Main] = MSide, ![Waiter(Current)] = WReap]
    <3>1. <<"side">> \o Tail(todo[Main]) = MSide
      BY <1>1, <1>3, AddNothing DEF MSide
    <3> QED BY <1>1, <1>2, <1>5, <3>1 DEF WReap
  <2>2. Launched("alive")
    BY <1>1, <1>2, <1>5, <2>1 DEF Launched
  <2>3. todo' \in [Actors -> Seq(Ops)]
    BY <1>1, <1>3, <2>1
  <2> QED BY <1>1, <1>5, <2>2, <2>3, LaunchedKeeps
<1> QED BY <1>1, <1>4, <1>5 DEF Launch

\* The process cannot be started.
LEMMA LaunchFailsKeeps ==
  ASSUME IInv, NEW a \in Actors, LaunchFails(a) PROVE IInv'
<1>1. /\ a = Main /\ todo[Main] = MLaunch /\ Of(Main) = Current
      /\ Tail(todo[Main]) = <<>>
      /\ todo \in [Actors -> Seq(Ops)] /\ managerLock \in Actors \cup {Nobody}
      /\ proc' = [proc EXCEPT ![Current] = "fail"]
      /\ Continue(Main, IF Kind(Current) = "async" THEN <<"side", "end", "fail", "unlock">>
                        ELSE <<"side", "end", "fail">>)
      /\ UNCHANGED <<script, mode, at, chunks, outVars, managerLock, pipeVars>>
  BY MainLaunches DEF LaunchFails, IInv, ShapeInv, TypeOK
<1> DEFINE more == IF Kind(Current) = "async" THEN AUnstarted ELSE MUnstarted
<1>2. more \in Seq(Ops)
  BY ListsTyped DEF MainTodo, SyncTodo, AsyncTodo
<1>3. Continue(Main, more)
  BY <1>1 DEF AUnstarted, MUnstarted
<1>4. more \o Tail(todo[Main]) = more
  BY <1>1, <1>2, AddNothing
<1>5. /\ todo' = [todo EXCEPT ![Main] = more]
      /\ phase' = [phase EXCEPT ![Main] = "ready"]
  BY <1>1, <1>3, <1>4 DEF Continue
<1>6. Launched("fail") /\ todo' \in [Actors -> Seq(Ops)]
  BY <1>1, <1>2, <1>5, ActorsDiffer DEF Launched
<1> QED BY <1>1, <1>5, <1>6, LaunchedKeeps

-----------------------------------------------------------------------------
(* The processes, and the next event. *)

\* A hook's process writes: only one that is being waited for.
LEMMA OutputKeeps ==
  ASSUME IInv, NEW e \in Hooks, Output(e) PROVE IInv'
<1>1. /\ proc[e] = "alive" /\ ~Busy(Copier(e))
      /\ chunks' = [chunks EXCEPT ![e] = @ + 1]
      /\ todo' = [todo EXCEPT ![Copier(e)] = CopierTodo]
      /\ UNCHANGED <<script, mode, at, phase, proc, outVars, managerLock, pipeVars>>
      /\ UNCHANGED <<shown, warned, atStart, lineStart, outLock, emitLock, disabled, pipe>>
      /\ TypeOK /\ MainInv /\ OthersInv /\ WritesInv /\ PipeInv /\ StopInv
      /\ \A f \in Hooks : HookInv(f) /\ ShownInv(f)
  BY DEF Output, IInv, ShapeInv, HooksInv, RecordsInv, outVars, pipeVars, CopierTodo
<1>2. TypeOK'
  <2>1. chunks' \in [Hooks -> Nat]
    BY <1>1 DEF TypeOK
  <2>2. CopierTodo \in Seq(Ops) /\ todo \in [Actors -> Seq(Ops)]
    BY <1>1, ListsTyped DEF TypeOK
  <2>3. todo' \in [Actors -> Seq(Ops)]
    BY <1>1, <2>2
  <2> QED BY <1>1, <2>1, <2>3 DEF TypeOK
<1>3. \A b \in Actors \ {Copier(e)} : todo'[b] = todo[b]
  BY <1>1 DEF TypeOK
<1>4. /\ todo'[Main] = todo[Main] /\ todo'[Warner] = todo[Warner]
      /\ todo'[Copier(e)] = CopierTodo
      /\ \A f \in Hooks : /\ todo'[Side(f)] = todo[Side(f)]
                          /\ todo'[Waiter(f)] = todo[Waiter(f)]
                          /\ f # e => todo'[Copier(f)] = todo[Copier(f)]
  <2>1. /\ Copier(e) \in Actors /\ Copier(e) # Main /\ Copier(e) # Warner
        /\ Main \in Actors /\ Warner \in Actors
    BY ActorsDiffer
  <2>2. todo'[Copier(e)] = CopierTodo
    BY <1>1, <2>1 DEF TypeOK
  <2>3. ASSUME NEW f \in Hooks
        PROVE  /\ {Side(f), Copier(f), Waiter(f)} \subseteq Actors
               /\ Side(f) # Copier(e) /\ Waiter(f) # Copier(e)
               /\ f # e => Copier(f) # Copier(e)
    BY ActorsDiffer
  <2> QED BY <1>3, <2>1, <2>2, <2>3
<1>5. /\ Current' = Current /\ mode' = mode /\ at' = at
      /\ \A f : /\ Reached(f)' = Reached(f) /\ Kind(f)' = Kind(f)
                /\ IsCurrent(f)' = IsCurrent(f)
  BY <1>1, SameEvent
<1>6. MainInv' /\ OthersInv'
  BY <1>1, <1>4, <1>5 DEF MainInv, OthersInv
<1>7. StopInv'
  BY <1>1, <1>4, <1>5 DEF StopInv, Busy
<1>8. HookInv(e)'
  BY <1>1, <1>4, <1>5 DEF HookInv, Untouched, Reaping, Busy
<1>9. \A f \in Hooks \ {e} : HookInv(f)'
  BY <1>1, <1>4, <1>5 DEF HookInv, Untouched, Reaping, Busy
<1>10. \A f \in Hooks : ShownInv(f)'
  BY <1>1, <1>4, SilenceKeepsShown
<1>11. PipeInv'
  <2>1. SideAhead' <=> SideAhead
    <3>1. at > 0 => Current \in Hooks
      BY <1>1, CurrentEvent
    <3> QED BY <1>4, <1>5, <3>1 DEF SideAhead, Busy
  <2> QED BY <1>1, <1>4, <2>1, SilenceKeepsPipe
<1>12. WritesInv'
  BY <1>1, <1>4 DEF WritesInv, LockInv, LineInv, TornIsLast, WarnInv
<1> QED BY <1>2, <1>6, <1>7, <1>8, <1>9, <1>10, <1>11, <1>12
        DEF IInv, ShapeInv, HooksInv, RecordsInv

\* It ends.
LEMMA ExitKeeps ==
  ASSUME IInv, NEW e \in Hooks, Exit(e) PROVE IInv'
<1>1. PICK r \in {"ok", "fail"} : proc' = [proc EXCEPT ![e] = r]
  BY DEF Exit
<1>2. /\ proc[e] = "alive"
      /\ UNCHANGED <<script, mode, at, todo, phase, chunks, managerLock>>
      /\ UNCHANGED <<shown, warned, atStart, lineStart, outLock, emitLock, disabled, pipe>>
      /\ TypeOK /\ MainInv /\ OthersInv /\ WritesInv /\ PipeInv /\ StopInv
      /\ \A f \in Hooks : HookInv(f) /\ ShownInv(f)
  BY DEF Exit, IInv, ShapeInv, HooksInv, RecordsInv, outVars, pipeVars
<1>3. TypeOK'
  <2>1. proc' \in [Hooks -> {"none", "alive", "ok", "fail"}]
    BY <1>1, <1>2 DEF TypeOK
  <2> QED BY <1>2, <2>1 DEF TypeOK
<1>4. /\ Current' = Current /\ mode' = mode /\ at' = at
      /\ \A f : /\ Reached(f)' = Reached(f) /\ Kind(f)' = Kind(f)
                /\ IsCurrent(f)' = IsCurrent(f)
  BY <1>2, SameEvent
<1>5. MainInv' /\ OthersInv' /\ StopInv'
  BY <1>2, <1>4 DEF MainInv, OthersInv, StopInv, Busy
<1>6. HookInv(e)'
  BY <1>1, <1>2, <1>4 DEF HookInv, Untouched, Reaping, Busy, TypeOK
<1>7. ASSUME NEW f \in Hooks \ {e} PROVE HookInv(f)'
  <2>1. proc'[f] = proc[f]
    BY <1>1, <1>2 DEF TypeOK
  <2> QED BY <1>2, <1>4, <2>1 DEF HookInv, Untouched, Reaping, Busy
<1>8. \A f \in Hooks : ShownInv(f)'
  BY <1>2, SilenceKeepsShown
<1>9. PipeInv'
  BY <1>2, <1>4, SilenceKeepsPipe DEF SideAhead, Busy
<1>10. WritesInv'
  BY <1>2 DEF WritesInv, LockInv, LineInv, TornIsLast, WarnInv
<1> QED BY <1>3, <1>5, <1>6, <1>7, <1>8, <1>9, <1>10
        DEF IInv, ShapeInv, HooksInv, RecordsInv

\* The next event has not been reached before.
LEMMA NewEvent ==
  ASSUME ShapeInv, HooksInv, RecordsInv, NextEvent
  PROVE  \E c \in Hooks :
           /\ Current' = c /\ Kind(c) \in HookKinds
           /\ ~Reached(c) /\ Untouched(c) /\ shown[c] = <<>>
           /\ \A e : (Reached(e)' <=> Reached(e) \/ e = c) /\ (IsCurrent(e)' <=> e = c)
           /\ todo' = [todo EXCEPT ![Main] = IF c = "shutdown" THEN MStop ELSE MEvent]
<1>1. /\ at' = at + 1 /\ script' = script /\ at \in 0 .. Len(script) /\ at < Len(script)
      /\ todo' = [todo EXCEPT ![Main] = EventOps(script[at'].event)]
      /\ TypeOK /\ Len(script) \in Nat
      /\ \A i \in 1 .. Len(script) : /\ i \in DOMAIN script /\ script[i].event \in Hooks
                                     /\ Kind(script[i].event) \in HookKinds
      /\ \A i, j \in DOMAIN script : script[i].event = script[j].event => i = j
  <2>1. TypeOK
    BY DEF ShapeInv
  <2>2. /\ script \in Seq(Event) /\ Len(script) \in Nat
        /\ \A i \in DOMAIN script : script[i].event \in Hooks
        /\ \A i \in DOMAIN script : Kind(script[i].event) \in HookKinds
        /\ \A i, j \in DOMAIN script : script[i].event = script[j].event => i = j
    BY <2>1, ScriptHooks
  <2>3. DOMAIN script = 1 .. Len(script)
    BY <2>2
  <2>4. at \in 0 .. Len(script)
    BY <2>1 DEF TypeOK
  <2> QED BY <2>1, <2>2, <2>3, <2>4 DEF NextEvent
<1>2. PICK n \in 1 .. Len(script) : n = at + 1
  BY <1>1
<1>3. PICK c \in Hooks : c = script[n].event
  BY <1>1
<1>4. Current' = c
  BY <1>1, <1>2, <1>3 DEF Current
<1>5. ~Reached(c)
  <2>1. \A i \in 1 .. at : i \in DOMAIN script /\ i # n /\ n \in DOMAIN script
    BY <1>1, <1>2
  <2> QED BY <1>1, <1>3, <2>1 DEF Reached
<1>6. Untouched(c) /\ shown[c] = <<>>
  BY <1>5 DEF HooksInv, RecordsInv, HookInv, ShownInv
<1>7. ASSUME NEW e PROVE (Reached(e)' <=> Reached(e) \/ e = c) /\ (IsCurrent(e)' <=> e = c)
  <2>1. /\ \A i \in 1 .. at : i \in 1 .. n
        /\ \A i \in 1 .. n : i \in 1 .. at \/ i = n
        /\ n \in 1 .. n /\ n > 0
    BY <1>1, <1>2
  <2>2. Reached(e)' <=> \E i \in 1 .. n : script[i].event = e
    BY <1>1, <1>2 DEF Reached
  <2>3. Reached(e)' <=> Reached(e) \/ e = c
    BY <1>3, <2>1, <2>2 DEF Reached
  <2>4. IsCurrent(e)' <=> e = c
    BY <1>1, <1>2, <1>4, <2>1 DEF IsCurrent
  <2> QED BY <2>3, <2>4
<1>8. todo' = [todo EXCEPT ![Main] = IF c = "shutdown" THEN MStop ELSE MEvent]
  BY <1>1, <1>2, <1>3 DEF EventOps, MStop, MEvent
<1>9. Kind(c) \in HookKinds
  BY <1>1, <1>2, <1>3
<1> QED BY <1>4, <1>5, <1>6, <1>7, <1>8, <1>9

\* Main comes to the next event.
LEMMA NextEventKeeps ==
  ASSUME IInv, NextEvent PROVE IInv'
<1>1. /\ TypeOK /\ MainInv /\ OthersInv /\ WritesInv /\ PipeInv /\ StopInv
      /\ \A f \in Hooks : HookInv(f) /\ ShownInv(f)
      /\ ShapeInv /\ HooksInv /\ RecordsInv
      /\ todo[Main] = <<>> /\ at < Len(script) /\ at' = at + 1
      /\ UNCHANGED <<script, mode, proc, chunks, phase, managerLock>>
      /\ UNCHANGED <<shown, warned, atStart, lineStart, outLock, emitLock, disabled, pipe>>
  BY DEF NextEvent, IInv, ShapeInv, HooksInv, RecordsInv, outVars, pipeVars, Busy
<1>2. PICK c \in Hooks :
        /\ Current' = c /\ Kind(c) \in HookKinds
        /\ ~Reached(c) /\ Untouched(c) /\ shown[c] = <<>>
        /\ \A e : (Reached(e)' <=> Reached(e) \/ e = c) /\ (IsCurrent(e)' <=> e = c)
        /\ todo' = [todo EXCEPT ![Main] = IF c = "shutdown" THEN MStop ELSE MEvent]
  BY <1>1, NewEvent
<1>3. /\ todo'[Main] = IF c = "shutdown" THEN MStop ELSE MEvent
      /\ \A b \in Actors \ {Main} : todo'[b] = todo[b]
      /\ todo'[Warner] = todo[Warner]
      /\ \A e \in Hooks : /\ todo'[Side(e)] = todo[Side(e)]
                          /\ todo'[Copier(e)] = todo[Copier(e)]
                          /\ todo'[Waiter(e)] = todo[Waiter(e)]
  <2>1. /\ Main \in Actors /\ Warner \in Actors \ {Main}
        /\ \A e \in Hooks : {Side(e), Copier(e), Waiter(e)} \subseteq Actors \ {Main}
    BY ActorsDiffer
  <2>2. \A b \in Actors \ {Main} : todo'[b] = todo[b]
    BY <1>1, <1>2 DEF TypeOK
  <2>3. todo'[Main] = IF c = "shutdown" THEN MStop ELSE MEvent
    BY <1>1, <1>2, <2>1 DEF TypeOK
  <2> QED BY <2>1, <2>2, <2>3
<1>4. /\ todo'[Main] \in EventAhead /\ todo'[Main] \in EmitAhead
      /\ todo'[Main] \in LaunchAhead /\ todo'[Main] \in MainEndAhead
      /\ todo'[Main] \in Stopping <=> c = "shutdown"
      /\ todo'[Main] \notin {MStart, MLaunch} \cup SyncTodo \cup AsyncTodo \cup DryTodo
      /\ todo'[Main] # AUnlock
      /\ todo'[Main] \in MainTodo /\ todo'[Main] \in Seq(Ops)
  <2>1. todo'[Main] \in {MStop, MEvent} /\ (todo'[Main] = MStop <=> c = "shutdown")
    BY <1>3, Lists
  <2>2. MEvent \notin Stopping /\ MStop \in Stopping
    BY Lists DEF Stopping
  <2>3. todo'[Main] \notin {MStart, MLaunch} \cup SyncTodo \cup AsyncTodo \cup DryTodo
    BY <2>1, Lists DEF SyncTodo, AsyncTodo, DryTodo
  <2>4. todo'[Main] \in EventAhead
    BY <2>1, <2>2 DEF EventAhead
  <2>5. todo'[Main] \in MainTodo /\ todo'[Main] # AUnlock
    BY <2>1, <2>4, Lists DEF MainTodo, LaunchAhead, StartAhead, EmitAhead
  <2> QED BY <2>1, <2>2, <2>3, <2>4, <2>5, ListsTyped
          DEF MainEndAhead, LaunchAhead, StartAhead, EmitAhead
<1>5. /\ todo[Main] \notin EmitAhead /\ todo[Main] \notin MainEndAhead
      /\ todo[Main] \notin MainSideAhead /\ todo[Main] \notin {MReap, MJoin}
  BY <1>1, Lists DEF MainEndAhead, MainSideAhead, LaunchAhead, StartAhead, EmitAhead,
                     EventAhead, Stopping
<1>6. at' > 0 /\ mode' = mode /\ (\A e : Kind(e)' = Kind(e))
  BY <1>1 DEF TypeOK, Kind, Hook
<1>7. TypeOK'
  <2>1. at' \in 0 .. Len(script)
    BY <1>1, ScriptHooks DEF TypeOK
  <2>2. todo' \in [Actors -> Seq(Ops)]
    BY <1>1, <1>2, <1>3, <1>4, ActorsDiffer DEF TypeOK
  <2> QED BY <1>1, <2>1, <2>2 DEF TypeOK
<1>8. MainInv'
  BY <1>2, <1>4, <1>6 DEF MainInv, SyncTodo, AsyncTodo, DryTodo
<1>9. OthersInv'
  BY <1>1, <1>3 DEF OthersInv
<1>10. StopInv'
  BY <1>2, <1>4 DEF StopInv
<1>11. HookInv(c)'
  <2>1. Untouched(c)'
    BY <1>1, <1>2, <1>3 DEF Untouched, Busy
  <2> QED BY <2>1 DEF HookInv, Untouched
<1>12. ASSUME NEW e \in Hooks, e # c PROVE HookInv(e)' /\ ShownInv(e)'
  <2>1. ~IsCurrent(e)' /\ (Reached(e)' <=> Reached(e))
    BY <1>2, <1>12
  <2>2. HookInv(e)'
    <3>1. Untouched(e)' <=> Untouched(e)
      BY <1>1, <1>3 DEF Untouched, Busy
    <3>2. (proc[e] = "alive" \/ Busy(Copier(e)) => Reaping(e))'
      BY <1>1, <1>3, <1>5 DEF HookInv, Reaping, Busy
    <3>3. ~Busy(Side(e))'
      BY <1>1, <1>3, <1>5 DEF HookInv, Busy
    <3>4. (Busy(Waiter(e)) => Kind(e) = "async")'
      BY <1>1, <1>3, <1>6 DEF HookInv, Busy
    <3> QED BY <1>1, <1>6, <2>1, <3>1, <3>2, <3>3, <3>4 DEF HookInv
  <2>3. EndAhead(e)' <=> EndAhead(e)
    BY <1>3, <1>5, <2>1 DEF EndAhead
  <2>4. /\ \A k : Contains(shown[e], k)' <=> Contains(shown[e], k)
        /\ Once(shown[e], "end")' <=> Once(shown[e], "end")
        /\ \A kinds : Only(e, kinds)' <=> Only(e, kinds)
        /\ InOrder(e)' <=> InOrder(e)
    BY <1>1, <1>6 DEF Contains, Once, Only, InOrder
  <2>5. ShownInv(e)'
    BY <1>1, <1>6, <2>1, <2>3, <2>4 DEF ShownInv
  <2> QED BY <2>2, <2>5
<1>13. ShownInv(c)'
  <2>1. shown'[c] = <<>> /\ DOMAIN shown'[c] = {}
    BY <1>1, <1>2
  <2>2. /\ \A k : ~Contains(shown[c], k)'
        /\ \A kinds : Only(c, kinds)'
        /\ InOrder(c)'
    BY <2>1 DEF Contains, Only, InOrder
  <2>3. EndAhead(c)'
    BY <1>2, <1>4 DEF EndAhead
  <2> QED BY <2>1, <2>2, <2>3 DEF ShownInv
<1>14. PipeInv'
  <2>1. \A i \in DOMAIN pipe : Reached(pipe[i].of) /\ pipe[i].of # c
    BY <1>1, <1>2 DEF PipeInv
  <2>2. \A i \in DOMAIN pipe' :
          Reached(pipe[i].of)' /\ (todo'[Main] \in EmitAhead => pipe'[i].of # Current')
    BY <1>1, <1>2, <2>1
  <2>3. /\ \A i : Record(i)' = Record(i) /\ Final(i)' = Final(i)
        /\ \A r, q : Follows(r, q)' <=> Follows(r, q)
    BY <1>1 DEF Record, Final, Follows
  <2>4. (~disabled => IF NothingYet THEN pipe = <<>>
                      ELSE pipe # <<>> /\ Record(Len(pipe)) = Latest)'
    <3>1. (NothingYet' <=> at = 0) /\ (NothingYet <=> at = 0)
      BY <1>1, <1>4, <1>5 DEF NothingYet, TypeOK
    <3>2. Latest' = Final(at)
      <4>1. at' - 1 = at
        BY <1>1 DEF TypeOK
      <4> QED BY <1>1, <1>4, <4>1 DEF Latest, Final
    <3>3. at > 0 => Latest = Final(at)
      <4>1. ASSUME at > 0 PROVE ~SideAhead
        <5>1. Current \in Hooks
          BY <1>1, <4>1, CurrentEvent
        <5> QED BY <1>1, <1>5, <5>1 DEF SideAhead, HookInv
      <4> QED BY <1>5, <4>1 DEF Latest
    <3>4. at = 0 \/ at > 0
      BY <1>1 DEF TypeOK
    <3> QED BY <1>1, <2>3, <3>1, <3>2, <3>3, <3>4 DEF PipeInv
  <2>5. /\ (pipe # <<>> => Record(1) = <<"emit", script[1].event>>)'
        /\ (\A i \in 1 .. Len(pipe) - 1 : Follows(Record(i + 1), Record(i)))'
    BY <1>1, <2>3 DEF PipeInv
  <2> QED BY <2>2, <2>4, <2>5 DEF PipeInv
<1>15. WritesInv'
  BY <1>1, <1>3 DEF WritesInv, LockInv, LineInv, TornIsLast, WarnInv
<1>16. \A e \in Hooks : HookInv(e)' /\ ShownInv(e)'
  BY <1>11, <1>12, <1>13
<1> QED BY <1>7, <1>8, <1>9, <1>10, <1>14, <1>15, <1>16
        DEF IInv, ShapeInv, HooksInv, RecordsInv

-----------------------------------------------------------------------------
(* The invariant is inductive.                                             *)

\* A run starts in it.
LEMMA InitEstablishes == Init => IInv
<1> SUFFICES ASSUME Init PROVE IInv
  OBVIOUS
<1>1. /\ at = 0 /\ todo = [a \in Actors |-> <<>>] /\ phase = [a \in Actors |-> "ready"]
      /\ proc = [e \in Hooks |-> "none"] /\ chunks = [e \in Hooks |-> 0]
      /\ shown = [e \in Hooks |-> <<>>] /\ warned = 0
      /\ atStart = TRUE /\ lineStart = TRUE /\ disabled = FALSE /\ pipe = <<>>
      /\ outLock = Nobody /\ managerLock = Nobody /\ emitLock = Nobody
  BY Zenon DEF Init
<1>2. PICK r \in Runs : script = r.script /\ mode = r.mode
  BY DEF Init
<1>3. /\ [script |-> script, mode |-> mode] \in Runs
      /\ script \in Seq(Event) /\ Len(script) \in Nat
  <2>1. r \in [script : Seq(Event), mode : Mode]
    BY RunsAssumption
  <2>2. r = [script |-> script, mode |-> mode]
    BY <1>2, <2>1
  <2> QED BY <1>2, <2>1, <2>2
<1>4. TypeOK
  <2>1. <<>> \in Seq(Ops) /\ <<>> \in Seq(Lines \cup {"chunk"})
        /\ <<>> \in Seq([kind : {"emit", "side"}, of : Hooks, torn : BOOLEAN])
    OBVIOUS
  <2>2. /\ todo \in [Actors -> Seq(Ops)]
        /\ phase \in [Actors -> {"ready", "locked", "separated", "checked", "blocked"}]
        /\ proc \in [Hooks -> {"none", "alive", "ok", "fail"}]
        /\ chunks \in [Hooks -> Nat]
        /\ shown \in [Hooks -> Seq(Lines \cup {"chunk"})]
    BY <1>1, <2>1
  <2>3. at \in 0 .. Len(script) /\ warned \in 0 .. 2
    BY <1>1, <1>3
  <2>4. /\ {atStart, lineStart, disabled} \subseteq BOOLEAN
        /\ {outLock, managerLock, emitLock} \subseteq Actors \cup {Nobody}
    BY <1>1
  <2>5. pipe \in Seq([kind : {"emit", "side"}, of : Hooks, torn : BOOLEAN])
    BY <1>1, <2>1
  <2> QED BY <1>3, <2>2, <2>3, <2>4, <2>5 DEF TypeOK
<1>5. /\ todo[Main] = <<>> /\ todo[Warner] = <<>>
      /\ \A e \in Hooks : /\ todo[Side(e)] = <<>> /\ todo[Copier(e)] = <<>>
                          /\ todo[Waiter(e)] = <<>>
                          /\ proc[e] = "none" /\ shown[e] = <<>>
  BY <1>1, ActorsDiffer
<1>6. MainInv
  BY <1>5, Lists DEF MainInv, MainTodo, SyncTodo, AsyncTodo, DryTodo, Stopping
<1>7. OthersInv
  <2>1. <<>> \in Seq({"warn"})
    OBVIOUS
  <2> QED BY <1>5, <2>1 DEF OthersInv, WaiterTodo
<1>8. WritesInv
  BY <1>1, <1>5, Lists DEF WritesInv, LockInv, LineInv, TornIsLast, WarnInv
<1>9. /\ \A e : ~Reached(e) /\ ~IsCurrent(e)
  BY <1>1 DEF Reached, IsCurrent
<1>10. HooksInv
  <2>1. \A e \in Hooks : HookInv(e)
    BY <1>5, <1>9 DEF HookInv, Untouched, Busy
  <2>2. StopInv
    BY <1>1 DEF StopInv
  <2> QED BY <2>1, <2>2 DEF HooksInv
<1>11. ASSUME NEW e \in Hooks PROVE ShownInv(e)
  <2>1. DOMAIN shown[e] = {} /\ EndAhead(e)
    BY <1>5, <1>9 DEF EndAhead
  <2>2. /\ \A k : ~Contains(shown[e], k)
        /\ \A kinds : Only(e, kinds)
        /\ InOrder(e)
    BY <2>1 DEF Contains, Only, InOrder
  <2> QED BY <1>5, <1>9, <2>1, <2>2 DEF ShownInv
<1>12. PipeInv
  BY <1>1 DEF PipeInv, NothingYet
<1> QED BY <1>4, <1>6, <1>7, <1>8, <1>10, <1>11, <1>12 DEF IInv, ShapeInv, RecordsInv

\* A step that changes nothing keeps it.
LEMMA StutterKeeps ==
  ASSUME IInv, UNCHANGED vars PROVE IInv'
<1>1. /\ UNCHANGED <<script, mode, at, proc, chunks, todo, phase, managerLock>>
      /\ UNCHANGED <<shown, warned, atStart, lineStart, outLock, emitLock, disabled, pipe>>
      /\ TypeOK /\ LockInv /\ LineInv
  BY DEF vars, hookVars, outVars, pipeVars, IInv, ShapeInv, WritesInv
<1>2. /\ HooksInv' /\ RecordsInv' /\ MainInv' /\ OthersInv' /\ TornIsLast' /\ WarnInv'
  BY <1>1, WithinKeeps DEF hookVars
<1>3. TypeOK' /\ LockInv' /\ LineInv'
  BY <1>1 DEF TypeOK, LockInv, LineInv
<1> QED BY <1>2, <1>3 DEF IInv, ShapeInv, WritesInv

\* Every step keeps it.
LEMMA NextKeeps == IInv /\ [Next]_vars => IInv'
<1> SUFFICES ASSUME IInv, [Next]_vars PROVE IInv'
  OBVIOUS
<1>1. CASE StderrStep
  BY <1>1, SeparateKeeps, WriteOutKeeps DEF StderrStep
<1>2. ASSUME NEW a \in Actors,
             \/ Skip(a) \/ Acquire(a) \/ EmitChecks(a) \/ EmitWrite(a)
             \/ Launch(a) \/ LaunchFails(a) \/ Proceed(a) \/ Lock(a)
      PROVE  IInv'
  BY <1>2, SkipKeeps, AcquireKeeps, EmitChecksKeep, EmitWriteKeeps, LaunchKeeps,
     LaunchFailsKeeps, ProceedKeeps, ManagerLockKeeps
<1>3. CASE QuietStep
  BY <1>2, <1>3, ExitKeeps, NextEventKeeps DEF QuietStep
<1>4. CASE \E a \in Actors : EmitBlocks(a)
  BY <1>4, EmitBlocksKeeps
<1>5. CASE \E e \in Hooks : Output(e)
  BY <1>5, OutputKeeps
<1>6. CASE UNCHANGED vars
  BY <1>6, StutterKeeps
<1> QED BY <1>1, <1>3, <1>4, <1>5, <1>6 DEF Next

\* The invariant holds in every reachable state.
THEOREM Inductive == Spec => []IInv
BY InitEstablishes, NextKeeps, PTL DEF Spec

-----------------------------------------------------------------------------
(* The properties of the runs.                                             *)

\* What the variables hold.
THEOREM TypeCorrect == Spec => []TypeOK
<1>1. IInv => TypeOK
  BY DEF IInv, ShapeInv
<1> QED BY <1>1, Inductive, PTL

\* At most one goroutine is inside a write to a stderr that is not a file,
\* however many hooks overlap.
THEOREM OneWriter == Spec => []WritersSerialized
<1>1. IInv => WritersSerialized
  BY DEF IInv, WritesInv, LockInv, WritersSerialized, Writing, Direct
<1> QED BY <1>1, Inductive, PTL

\* In verbose mode no step writes a record but at the start of a line.
THEOREM RecordsAreLines == Spec => RecordsBeginLines
<1> DEFINE Begins == \A e \in Hooks :
       mode.verbose /\ shown'[e] # shown[e] /\ Last(shown'[e]) # "chunk" => atStart
<1>1. IInv /\ [Next]_vars => [Begins]_vars
  <2> SUFFICES ASSUME IInv, Next, NEW e \in Hooks, mode.verbose, shown'[e] # shown[e],
                      Last(shown'[e]) # "chunk"
               PROVE  atStart
    BY DEF vars, outVars
  <2>1. PICK a \in Actors : WriteOut(a)
    BY DEF Next, StderrStep, QuietStep, Separate, Skip, Acquire, EmitChecks, EmitWrite,
       EmitBlocks, Launch, LaunchFails, Proceed, Lock, Exit, Output, NextEvent, outVars, vars
  <2>2. /\ shown \in [Hooks -> Seq(Lines \cup {"chunk"})]
        /\ shown' = [shown EXCEPT ![Of(a)] = Append(@, Op(a))] /\ Op(a) # "warn"
        /\ Op(a) \in Lines \cup {"chunk"} /\ Busy(a)
    BY <2>1 DEF WriteOut, Stderr, Doing, IInv, ShapeInv, TypeOK
  <2>3. shown'[e] = Append(shown[e], Op(a))
    BY <2>2
  <2>4. Op(a) # "chunk"
    <3>1. shown[e] \in Seq(Lines \cup {"chunk"})
      BY <2>2
    <3>2. Last(Append(shown[e], Op(a))) = Op(a)
      BY <2>2, <3>1, Appended DEF Last
    <3> QED BY <2>3, <3>2
  <2>5. ~Direct(a)
    BY <2>2, WarnerWarns DEF Direct, IInv
  <2>6. phase[a] = "separated" \/ (phase[a] = "locked" /\ lineStart)
    BY <2>1, <2>4, <2>5 DEF WriteOut, NeedsSeparator
  <2> QED BY <2>6 DEF IInv, WritesInv, LineInv
<1> QED BY <1>1, Inductive, PTL DEF Spec, RecordsBeginLines

\* The event pipe is a prefix of the run's records, whole but for the last one, and
\* a failure is warned of at most once.
THEOREM PipeInOrder == Spec => []EventsInOrder
<1>1. ASSUME IInv PROVE EventsInOrder
  <2>1. PipeInv /\ TornIsLast /\ WarnInv /\ TypeOK /\ OthersInv
    BY <1>1 DEF IInv, ShapeInv, WritesInv, RecordsInv
  <2>2. Len(todo[Warner]) \in Nat /\ warned \in 0 .. 2
    BY <2>1 DEF OthersInv, TypeOK
  <2>3. warned <= 1
    BY <2>1, <2>2 DEF WarnInv
  <2> QED BY <2>1, <2>3 DEF EventsInOrder, PipeInv, TornIsLast
<1> QED BY <1>1, Inductive, PTL

\* When main has come to the end, or past stopAndWait, no wait goroutine is left,
\* and only the shutdown's own records are to come.
LEMMA HooksOver ==
  ASSUME IInv, Reached("shutdown"), todo[Main] \notin Stopping, NEW e \in Hooks,
         e # "shutdown" \/ todo[Main] = <<>>
  PROVE  /\ proc[e] # "alive" /\ ShownInv(e)
         /\ Contains(shown[e], "start") => Once(shown[e], "end")
<1>1. /\ TypeOK /\ StopInv /\ HookInv(e) /\ ShownInv(e)
  BY DEF IInv, ShapeInv, HooksInv, RecordsInv
<1>2. at > 0 /\ at = Len(script) /\ Current = "shutdown"
  <2>1. PICK i \in 1 .. at : script[i].event = "shutdown"
    BY DEF Reached
  <2>2. /\ at \in 0 .. Len(script) /\ Len(script) \in Nat /\ script \in Seq(Event)
        /\ \A j \in DOMAIN script : script[j].event = "shutdown" <=> j = Len(script)
    BY <1>1, ScriptHooks DEF TypeOK
  <2>3. i \in DOMAIN script /\ at > 0 /\ i <= at
    BY <2>2
  <2>4. i = Len(script)
    BY <2>1, <2>2, <2>3
  <2> QED BY <2>1, <2>2, <2>3, <2>4 DEF Current
<1>3. todo[Waiter(e)] = <<>>
  BY <1>1, <1>2 DEF StopInv, Busy
<1>4. IsCurrent(e) => todo[Main] = <<>>
  BY <1>2 DEF IsCurrent
<1>5. todo[Waiter(e)] # WReap /\ todo[Waiter(e)] \notin WaiterEndAhead
  BY <1>3, Lists DEF WaiterEndAhead
<1>6. IsCurrent(e) => todo[Main] # MReap /\ todo[Main] \notin MainEndAhead
  BY <1>4, Lists DEF MainEndAhead, LaunchAhead, StartAhead, EmitAhead, EventAhead, Stopping
<1>7. proc[e] # "alive"
  BY <1>1, <1>5, <1>6 DEF HookInv, Reaping
<1>8. Contains(shown[e], "start") => Reached(e)
  <2>1. ~Contains(<<>>, "start")
    BY DEF Contains
  <2> QED BY <1>1, <2>1 DEF ShownInv
<1>9. Contains(shown[e], "start") => Once(shown[e], "end")
  BY <1>1, <1>5, <1>6, <1>8 DEF ShownInv, EndAhead
<1> QED BY <1>1, <1>7, <1>9

\* What stderr has about a hook is in the documented order, and at the end of the
\* run every hook that was started has exactly one terminal record.
THEOREM RecordsInOrder == Spec => []HookOrder
<1>1. ASSUME IInv PROVE HookOrder
  <2>1. /\ TypeOK /\ \A e \in Hooks : ShownInv(e)
    BY <1>1 DEF IInv, ShapeInv, RecordsInv
  <2>2. ASSUME NEW s \in ToSet(script)
        PROVE  /\ s.event \in Hooks
               /\ mode.dryRun \/ InOrder(s.event)
    <3>1. PICK i \in DOMAIN script : s = script[i]
      BY <2>2 DEF ToSet
    <3>2. s.event \in Hooks
      BY <2>1, <3>1, ScriptHooks
    <3> QED BY <2>1, <3>2 DEF ShownInv
  <2>3. ASSUME Done PROVE Reached("shutdown") /\ todo[Main] \notin Stopping /\ todo[Main] = <<>>
    <3>1. todo[Main] = <<>> /\ at = Len(script)
      BY <2>3 DEF Done, Busy
    <3>2. /\ Len(script) \in Nat /\ script \in Seq(Event) /\ script # <<>>
          /\ \A j \in DOMAIN script : script[j].event = "shutdown" <=> j = Len(script)
      BY <2>1, ScriptHooks
    <3>3. Len(script) \in 1 .. Len(script) /\ Len(script) \in DOMAIN script
      BY <3>2
    <3>4. Reached("shutdown")
      BY <3>1, <3>2, <3>3 DEF Reached
    <3> QED BY <3>1, <3>4, Lists DEF Stopping
  <2> QED BY <1>1, <2>2, <2>3, HooksOver DEF HookOrder
<1> QED BY <1>1, Inductive, PTL

\* When the shutdown is recorded, on stderr or on the pipe, the process of every
\* other hook is over and what was started has its terminal record.
THEOREM HooksBeforeShutdown == Spec => []ShutdownAfterHooks
<1>1. ASSUME IInv,
             shown["shutdown"] # <<>> \/ (\E i \in DOMAIN pipe : pipe[i].of = "shutdown")
      PROVE  Reached("shutdown") /\ todo[Main] \notin Stopping
  <2>1. /\ TypeOK /\ MainInv /\ PipeInv /\ \A e \in Hooks : ShownInv(e)
    BY <1>1 DEF IInv, ShapeInv, RecordsInv
  <2>2. "shutdown" \in Hooks
    <3>1. /\ Len(script) \in Nat /\ script \in Seq(Event) /\ script # <<>>
          /\ \A j \in DOMAIN script : /\ script[j].event = "shutdown" <=> j = Len(script)
                                      /\ script[j].event \in Hooks
      BY <2>1, ScriptHooks
    <3>2. Len(script) \in DOMAIN script
      BY <3>1
    <3> QED BY <3>1, <3>2
  <2>3. Stopping \subseteq EventAhead /\ EventAhead \subseteq EmitAhead /\ <<>> \notin Stopping
    BY Lists DEF EventAhead, EmitAhead, Stopping
  <2>4. todo[Main] \in Stopping => at > 0 /\ Current = "shutdown"
    BY <2>1, <2>3 DEF MainInv
  <2>5. CASE shown["shutdown"] # <<>>
    BY <2>1, <2>2, <2>3, <2>4, <2>5 DEF ShownInv, IsCurrent
  <2>6. CASE \E i \in DOMAIN pipe : pipe[i].of = "shutdown"
    BY <2>1, <2>3, <2>4, <2>6 DEF PipeInv
  <2> QED BY <1>1, <2>5, <2>6
<1>2. ASSUME NEW seq, Once(seq, "end") PROVE Contains(seq, "end")
  BY <1>2 DEF Once, Contains
<1>3. IInv => ShutdownAfterHooks
  BY <1>1, <1>2, HooksOver DEF ShutdownAfterHooks
<1> QED BY <1>3, Inductive, PTL
=============================================================================

------------------------- MODULE HookBoundaryProofs -------------------------
(***************************************************************************)
(* Lemmas about the boundary of a hook that the proofs of its users share. *)
(***************************************************************************)
EXTENDS HookBoundary, TLAPS

\* Everything that may happen to the boundary of hook h.
BoundaryStep(h) ==
  \/ Fork(h) \/ KidsExit(h) \/ RootExit(h) \/ Reap(h) \/ WaitReturns(h)
  \/ Launch(h) \/ ProbeRoot(h) \/ ProbeGroup(h) \/ CloseBoundary(h)
  \/ \E err \in {"none", "done", "error"} : Kill(h, err)

\* Each touches the hook's own entry only (a hook has its own process group or
\* job object, hook_unix.go and hook_windows.go) ...
LEMMA OwnBoundary ==
  ASSUME group \in [Hooks -> Group], NEW h \in Hooks, BoundaryStep(h)
  PROVE  group' = [group EXCEPT ![h] = group'[h]]
<1>1. CASE Fork(h) \/ KidsExit(h) \/ RootExit(h) \/ Reap(h) \/ WaitReturns(h)
  BY <1>1 DEF Fork, KidsExit, RootExit, Reap, WaitReturns
<1>2. CASE Launch(h) \/ ProbeRoot(h) \/ ProbeGroup(h) \/ CloseBoundary(h)
  BY <1>2 DEF Launch, ProbeRoot, ProbeGroup, CloseBoundary
<1>3. CASE \E err \in {"none", "done", "error"} : Kill(h, err)
  BY <1>3 DEF Kill, KillGroup, TerminateJob, EndMembers, Vanished, KillRefused,
     TerminateFails
<1> QED BY <1>1, <1>2, <1>3 DEF BoundaryStep

\* ... which keeps its type ...
LEMMA BoundaryEntryTyping ==
  ASSUME group \in [Hooks -> Group], NEW h \in Hooks, BoundaryStep(h)
  PROVE  group'[h] \in Group
<1> USE DEF Group, Lives, Exits
<1>1. CASE Fork(h)
  BY <1>1 DEF Fork
<1>2. CASE KidsExit(h)
  BY <1>2 DEF KidsExit
<1>3. CASE RootExit(h)
  <2>1. PICK e \in OwnExits :
          group' = [group EXCEPT ![h].life = "zombie", ![h].exit = e]
    BY <1>3 DEF RootExit
  <2>2. e \in {"ok", "fail", "sigkill"}
    BY DEF OwnExits
  <2> QED BY <2>1, <2>2
<1>4. CASE Reap(h)
  BY <1>4 DEF Reap
<1>5. CASE WaitReturns(h)
  BY <1>5 DEF WaitReturns
<1>6. CASE Launch(h)
  BY <1>6 DEF Launch
<1>7. CASE ProbeRoot(h)
  BY <1>7 DEF ProbeRoot, ReapedRoot, ExitedRoot
<1>8. CASE ProbeGroup(h)
  BY <1>8 DEF ProbeGroup, Running, Populated, GroupMembers, ActiveProcesses
<1>9. CASE CloseBoundary(h)
  BY <1>9 DEF CloseBoundary
<1>10. CASE \E err \in {"none", "done", "error"} : Kill(h, err)
  BY <1>10 DEF Kill, KillGroup, TerminateJob, EndMembers, Vanished, KillRefused,
     TerminateFails
<1> QED BY <1>1, <1>2, <1>3, <1>4, <1>5, <1>6, <1>7, <1>8, <1>9, <1>10
    DEF BoundaryStep

\* ... and so does the whole.
LEMMA BoundaryTyping ==
  ASSUME group \in [Hooks -> Group], NEW h \in Hooks, BoundaryStep(h)
  PROVE  group' \in [Hooks -> Group]
BY OwnBoundary, BoundaryEntryTyping

\* What every boundary satisfies, whoever uses it: how the root ended is known
\* once it did, Cmd.Wait returns after reaping it, and stop remembers an exit
\* that really happened.
RootOrder(h) ==
  /\ group[h].life = "none" =>
       /\ group[h].exit = "none"
       /\ ~(group[h].kids \/ group[h].tracked)
  /\ group[h].life = "alive" => group[h].exit = "none"
  /\ group[h].life \in {"zombie", "reaped"} => group[h].exit # "none"
  /\ group[h].waited => group[h].life = "reaped"
  /\ group[h].rootExited =>
       group[h].life \in {"zombie", "reaped"} /\ group[h].exit # "killed"
=============================================================================

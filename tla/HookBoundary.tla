---------------------------- MODULE HookBoundary ----------------------------
(***************************************************************************)
(* hookBoundary: the processes a hook's shell belongs to, as the kernel    *)
(* sees them, and the questions and orders that pipewisp sends it.  On     *)
(* Unix (hook_unix.go) it is a private process group, on Windows           *)
(* (hook_windows.go) a job object.  Looking at the root, looking at the    *)
(* boundary and killing it are three system calls on both, so the          *)
(* processes can change between them.                                      *)
(*                                                                         *)
(* On Unix an exited root stays a member of its group, as a zombie, until  *)
(* Cmd.Wait reaps it; a job counts running processes only.  `kids` says    *)
(* that ordinary descendants are alive; a descendant that left the         *)
(* boundary is not modelled.  How a root ended tells the SIGKILL that      *)
(* pipewisp sent ("killed") from anybody else's ("sigkill"), which a wait  *)
(* status does not.                                                        *)
(***************************************************************************)
CONSTANTS Hooks,         \* hook invocations
          Platforms,     \* the platforms to check
          KillMayFail    \* may the system refuse to kill a boundary?

ASSUME KillAssumption == KillMayFail \in BOOLEAN
ASSUME PlatformAssumption == Platforms \subseteq {"unix", "windows"}

VARIABLES os,      \* the platform, fixed for the run
          group    \* per hook: the boundary's processes and hookBoundary's fields

Lives == {"none", "alive", "zombie", "reaped"}
Exits == {"none", "ok", "fail", "sigkill", "killed"}

Group == [life : Lives, exit : Exits, kids : BOOLEAN, waited : BOOLEAN,
          tracked : BOOLEAN, rootExited : BOOLEAN]

NoGroup == [life |-> "none", exit |-> "none", kids |-> FALSE, waited |-> FALSE,
            tracked |-> FALSE, rootExited |-> FALSE]

BoundaryTypeOK == os \in Platforms /\ group \in [Hooks -> Group]
BoundaryInit == os \in Platforms /\ group = [h \in Hooks |-> NoGroup]

\* Unix: some process, a zombie included, still has the group's identifier.
GroupMembers(h) == group[h].life \in {"alive", "zombie"} \/ group[h].kids

\* Windows: the job's ActiveProcesses.
ActiveProcesses(h) == group[h].life = "alive" \/ group[h].kids

Populated(h) == IF os = "unix" THEN GroupMembers(h) ELSE ActiveProcesses(h)

\* hasRunningProcesses' answer.
Running(h) == group[h].tracked /\ Populated(h)

-----------------------------------------------------------------------------
(* What the processes and the kernel do.                                   *)

\* The shell, or a descendant, starts a descendant.
Fork(h) ==
  /\ group[h].life = "alive" \/ group[h].kids
  /\ group' = [group EXCEPT ![h].kids = TRUE]

KidsExit(h) ==
  /\ group[h].kids
  /\ group' = [group EXCEPT ![h].kids = FALSE]

\* The root ends without pipewisp: it exits, or dies of a signal.  Of the
\* signals only SIGKILL is told from the other failures, and only on Unix.
OwnExits == {"ok", "fail"} \cup (IF os = "unix" THEN {"sigkill"} ELSE {})
RootExit(h) ==
  /\ group[h].life = "alive"
  /\ \E e \in OwnExits :
       group' = [group EXCEPT ![h].life = "zombie", ![h].exit = e]

\* Cmd.Wait reaps the root ...
Reap(h) ==
  /\ group[h].life = "zombie"
  /\ group' = [group EXCEPT ![h].life = "reaped"]

\* ... and, when its output is drained or WaitDelay has passed, sends the
\* result to waitDone.
WaitReturns(h) ==
  /\ group[h].life = "reaped" /\ ~group[h].waited
  /\ group' = [group EXCEPT ![h].waited = TRUE]

-----------------------------------------------------------------------------
(* What pipewisp does.                                                     *)

\* boundary.start.  On Windows the shell is created suspended, put into its
\* job and only then resumed, so no process runs outside the job; where one of
\* these steps fails cleanupStartedHook leaves no process, and start fails.
Launch(h) ==
  group' = [group EXCEPT ![h].life = "alive", ![h].tracked = TRUE]

\* stop's first system call.  Unix: hook.Process.Signal(0), which reports
\* ErrProcessDone once the root was reaped.  Windows: hookProcessExited.
ReapedRoot(h) == group[h].life = "reaped"
ExitedRoot(h) == group[h].life # "alive"
ProbeRoot(h) ==
  group' = [group EXCEPT ![h].rootExited =
              IF os = "unix" THEN ReapedRoot(h) ELSE ExitedRoot(h)]

\* hasRunningProcesses forgets a group it finds empty.
ProbeGroup(h) ==
  group' = [group EXCEPT ![h].tracked = Running(h)]

\* Fault: the root alone is signalled.
EndRoot(h) ==
  group' = [group EXCEPT
       ![h].life = IF @ = "alive" THEN "zombie" ELSE @,
       ![h].exit = IF group[h].life = "alive" THEN "killed" ELSE @,
       ![h].tracked = FALSE]

\* Every live member dies.
EndMembers(h) ==
  group' = [group EXCEPT
       ![h].life = IF @ = "alive" THEN "zombie" ELSE @,
       ![h].exit = IF group[h].life = "alive" THEN "killed" ELSE @,
       ![h].kids = FALSE,
       ![h].tracked = FALSE]

\* Unix: syscall.Kill(-pgid, SIGKILL).
KillGroup(h) == os = "unix" /\ GroupMembers(h) /\ EndMembers(h)

\* Unix: the kill says ESRCH, which combineHookStopErrors drops, so that stop
\* returns os.ErrProcessDone only if the root was found exited before.
Vanished(h) == os = "unix" /\ ~GroupMembers(h) /\ UNCHANGED group
NoSuchProcess(h) == "ESRCH"     \* fault: it is not dropped
VanishedErr(h) == IF group[h].rootExited THEN "done" ELSE "none"

\* Unix: the kill says EPERM.
KillRefused(h) ==
  KillMayFail /\ os = "unix" /\ GroupMembers(h) /\ UNCHANGED group

\* Windows: TerminateJobObject, which an empty job accepts as well.
TerminateJob(h) == os = "windows" /\ EndMembers(h)

\* Windows: it fails, and the root alone is killed.
TerminateFails(h) ==
  /\ KillMayFail /\ os = "windows"
  /\ group' = [group EXCEPT
       ![h].life = IF @ = "alive" THEN "zombie" ELSE @,
       ![h].exit = IF group[h].life = "alive" THEN "killed" ELSE @]

\* stop's last system call, and what stop then returns.
Kill(h, err) ==
  \/ (KillGroup(h) \/ TerminateJob(h)) /\ err = "none"
  \/ Vanished(h) /\ err = VanishedErr(h)
  \/ (KillRefused(h) \/ TerminateFails(h)) /\ err = "error"

\* processStateKilledByPipewisp, Unix: the wait status is SIGKILL, whoever
\* sent it.
DiedOfSIGKILL(h) == group[h].exit \in {"killed", "sigkill"}

\* killedRoot, Unix: the root died of SIGKILL and had not been reaped when stop
\* looked at it.  Windows: it was running when stop looked at it.
NeverKilledRoot(h) == FALSE     \* fault: any death by SIGKILL is a failure
KilledRoot(h) ==
  ~group[h].rootExited /\ (os = "windows" \/ DiedOfSIGKILL(h))

\* boundary.close
CloseBoundary(h) ==
  group' = [group EXCEPT ![h].tracked = FALSE]
=============================================================================

SPECIFICATION FairSpec
CONSTANTS
  Procs <- MCProcs
  Caller = "caller"
  Other = "other"
  Hooks <- MCHooks
  Hook = "hook"
  Platforms = {"unix", "windows"}
  KillMayFail = TRUE
  MaxSignals = 2
INVARIANTS
  TypeOK
  StopLeavesNobody
PROPERTIES
  ImplementsRunner
  SignalEndsHook

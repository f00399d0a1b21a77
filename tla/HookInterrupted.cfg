SPECIFICATION Spec
CONSTANTS
  Procs <- MCProcs
  Caller = "caller"
  Other = "other"
  Hooks <- MCHooks
  Hook = "hook"
  Platforms = {"windows"}
  KillMayFail = FALSE
  MaxSignals = 1
INVARIANT InterruptedWasRunning

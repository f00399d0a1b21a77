SPECIFICATION Spec
CONSTANTS
  Hooks = {h1, h2}
  Platforms = {"unix", "windows"}
  KillMayFail = TRUE
  Timeout = TRUE
SYMMETRY HookSymmetry
INVARIANTS
  TypeOK
  NothingSurvivesShutdown
  FailureReportedOnce
  ShutdownBeatsTimeout

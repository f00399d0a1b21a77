SPECIFICATION Spec
CONSTANTS
  Hooks = {h1}
  Platforms = {"unix"}
  KillMayFail = FALSE
  Timeout = TRUE
INVARIANT TimeoutOwnedAProcess

SPECIFICATION FairSpec
CONSTANTS
  Hooks = {h1, h2}
  Platforms = {"unix", "windows"}
  KillMayFail = FALSE
  Timeout = FALSE
PROPERTIES
  StopReturns
  HookReleased

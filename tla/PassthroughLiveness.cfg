SPECIFICATION FairSpec
CONSTANTS
  Procs <- MCProcs
  HookNames <- MCHookNames
  Configs <- LiveConfigs
  MaxSignals = 2
  MaxBytes = 2
  MaxChunk = 1
PROPERTIES
  SignalEndsMainOnlyRun
  Termination

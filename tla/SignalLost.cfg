SPECIFICATION FairSpec
CONSTANTS
  Procs <- MCProcs
  HookNames <- MCHookNames
  Configs <- FirstDataConfigs
  MaxSignals = 1
  MaxBytes = 1
  MaxChunk = 1
PROPERTY SignalEndsRun

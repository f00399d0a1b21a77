SPECIFICATION Spec
CONSTANTS
  Procs <- MCProcs
  HookNames <- MCHookNames
  Configs <- FirstDataConfigs
  MaxSignals = 2
  MaxBytes = 1
  MaxChunk = 1
INVARIANT FirstSignalWins

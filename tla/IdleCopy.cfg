SPECIFICATION FairSpec
CONSTANTS
  Procs <- MCProcs
  HookNames <- MCHookNames
  Configs <- HookConfigs
  MaxSignals = 1
  MaxBytes = 3
  MaxChunk = 2
INVARIANTS
  TypeOK
  OutputFaithful
  TransitionBeforeChunk
  BufferHasOneUser
  FailedFirstDataStops
  QuietAfterCompletion
PROPERTIES
  ImplementsLifecycle
  SignalEndsRun
  NobodyLeftBehind

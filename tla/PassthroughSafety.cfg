SPECIFICATION Spec
CONSTANTS
  Procs <- MCProcs
  HookNames <- MCHookNames
  Configs <- AllConfigs
  MaxSignals = 2
  MaxBytes = 3
  MaxChunk = 2
INVARIANTS
  TypeOK
  CleanupAlone
  OutputFaithful
  FirstDataGate
  ShutdownBytes
  ExitStatusTable
  CleanupInterruptedByNewSignal
PROPERTY ImplementsLifecycle

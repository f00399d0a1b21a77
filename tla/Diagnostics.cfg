SPECIFICATION Spec
CONSTANTS
  Runs <- MCRuns
INVARIANTS
  TypeOK
  EventsInOrder
  HookOrder
  ShutdownAfterHooks
  WritersSerialized
PROPERTIES
  RecordsBeginLines
  Completes
  WarningDelaysNobody

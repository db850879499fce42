SPECIFICATION Spec
CONSTANTS
  Pid <- ThreeProcesses
  NoTask = NoTask
  SemId <- TwoSemaphores
  Initial = {0}
  Delays <- WrappedAndShort
  Elapsed = {1}
  Spent = {0, 2000}
  Priorities = {65536, 66536}
  MaxCount = 1
  MaxClocks = 2
  MaxVruntime = 2
INVARIANTS
  TypeOK
  OnePlace
  NoLostWakeup
  ReadyInOrder
  NeverIdle
PROPERTIES
  TerminatedForGood
  ImplementsLifecycle
  NothingOverdue
  QuietReadyRuns

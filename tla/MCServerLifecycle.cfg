\* Two plugins (one of them has nothing to drain), two callers of stop(), an
\* operation, both signals.  A run to the end is legal: the process dies, or
\* every call has ended.
SPECIFICATION FairSpec
CONSTANTS
  Plugins <- MCPlugins
  DrainPlugins <- MCDrainPlugins
  StopPlugins <- MCPlugins
  SchemaManager <- MCSchemaManager
  Callers = {c1, c2}
  SignalHandler = handler
  Requests = {r1}
  Signals <- MCSignals
  None = "none"
  StopOnSignals = TRUE
CHECK_DEADLOCK FALSE
INVARIANTS
  StagesInOrder
  CleanStopIsComplete
  OperationsAfterStart
PROPERTIES
  NoKillDuringShutdown
  ImplementsContract
  EveryWaitEnds
  SignalEndsProcess

\* Two callers of stop(), nothing else.
SPECIFICATION FairSpec
CONSTANTS
  Plugins <- MCDrainPlugins
  DrainPlugins = {}
  StopPlugins <- MCDrainPlugins
  SchemaManager <- MCSchemaManager
  Callers = {c1, c2}
  SignalHandler = handler
  Requests = {}
  Signals = {}
  None = "none"
  StopOnSignals = FALSE
CHECK_DEADLOCK FALSE
PROPERTIES
  ParallelStopsEnd

\* Every mode, up to two listeners, and a schema from which no data can be
\* derived.  A server that failed to start, or stopped, ends when the gateway
\* does.
SPECIFICATION ReportingSpec
CONSTANTS
  Plugins <- MCPlugins
  Modes <- MCModes
  MaxVersion = 3
  Reporter = "reporter"
  Broken = {2}
CHECK_DEADLOCK FALSE
INVARIANTS
  ServesNewest
  ListenersMissNothing
  OneSchemaIsReported
PROPERTIES
  QuietAfterStop
  SchemaIsReported

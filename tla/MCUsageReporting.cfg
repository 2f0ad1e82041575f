\* A server that has stopped sends no more reports; every trace has been added.
SPECIFICATION FairSpec
CONSTANTS
  Traces <- MCTraces
  Schemas <- MCSchemas
  MaxSize = 2
  MaxAttempts = 2
  Immediately = {"no", "yes"}
  Overrides <- MCOverrides
  NoSchema = "noSchema"
INVARIANTS
  EveryTraceInOneReport
  FinalReportsAreSent
PROPERTY AddedTracesLeave
CHECK_DEADLOCK FALSE

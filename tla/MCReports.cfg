\* Every trace has been added; a message has been read or printed.
SPECIFICATION ReportsSpec
CONSTANTS
  Recorded <- SampleRecorded
  Trace <- SampleTrace
  Nodes <- SampleNodes
  Node <- SampleNode
  Plans <- SamplePlans
  Plan <- SamplePlan
  None = 0
  BucketCount = 6
  InitSize = 2
  StringBytes = 3
  TraceBytes = 40
  Inputs <- MCInputs
  Narrow = 32
  Wide = 64
INVARIANTS
  TracesAreFiled
  TracesAreCountedOnce
  ErrorsAreAtTheirPlace
  EstimateFitsContent
  MessagesSurvive
PROPERTY FirstOfItsKindIsATrace
CHECK_DEADLOCK FALSE

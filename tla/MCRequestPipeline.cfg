SPECIFICATION FairSpec
CONSTANTS
  r1 = r1
  r2 = r2
  Requests = {r1, r2}
  Queries <- MCQueries
  Syntactic <- MCSyntactic
  MaxVersion = 2
  Valid <- MCValid
  Rejecting <- MCRejecting
  StoreModes = {"perSchema"}
  ApqModes = {"on", "off"}
INVARIANT ExecutesValidOperations
INVARIANT RegistersAcceptedQueries
INVARIANT ExecutionIsEnded
INVARIANT ErrorsAreAnswered
PROPERTY ResponseIsLast
PROPERTY EveryRequestEnds

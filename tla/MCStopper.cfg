\* A server that was stopped ends when its clients are gone.
SPECIFICATION FairSpec
CONSTANTS
  Sockets <- MCSockets
  MaxRequests = 2
  Protocols = {"http", "https"}
  GracePeriods = {"finite", "infinite"}
  NoSocket = "noSocket"
INVARIANT GracefulStopCutsNothing
INVARIANT StoppedServerIsEmpty
PROPERTY HttpStopReturns
CHECK_DEADLOCK FALSE

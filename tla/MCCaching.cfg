\* The requests have all been sent, the calls are done.
SPECIFICATION CachingSpec
CONSTANTS
  Undefined = Undefined
  Absent = Absent
  Unset = Unset
  NoTtl = NoTtl
  Never = Never
  DefaultTtl = 300
  Requests = {r1, r2}
  Sessions = {alice, bob}
  NoSession = NoSession
  Bases = {b1, b2}
  CachePolicies <- MCPolicies
  MaxNow = 2
  RestMaxNow = 1
  c1 = c1
  c2 = c2
  c3 = c3
  c4 = c4
  s1 = s1
  s2 = s2
  Calls = {c1, c2, c3, c4}
  DataSources = {s1, s2}
  Source <- MCSource
  CallMethods <- MCCallMethods
  Override <- MCOverride
  Headers <- MCHeaders
  CacheKinds = {"redis"}
  Failed = Failed
SYMMETRY Symmetry
INVARIANTS PrivateStaysPrivate HitsAreFresh OneFetchBetweenWrites AnswersAreFresh
CHECK_DEADLOCK FALSE

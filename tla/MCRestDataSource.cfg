SPECIFICATION Spec
CONSTANTS
  Absent = Absent
  Unset = Unset
  NoTtl = NoTtl
  Never = Never
  DefaultTtl = 300
  Calls = {c1, c2, c3}
  DataSources = {s1, s2}
  Source <- MCSource
  CallMethods <- MCCallMethods
  c1 = c1
  c2 = c2
  c3 = c3
  s1 = s1
  s2 = s2
  Override <- MCOverride
  Headers <- MCHeaders
  CacheKinds = {"redis"}
  Failed = Failed
  MaxNow = 2
INVARIANTS WritesReachOrigin
CHECK_DEADLOCK FALSE

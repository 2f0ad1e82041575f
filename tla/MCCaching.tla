----------------------------- MODULE MCCaching -----------------------------
EXTENDS Caching, TLC

CONSTANTS c1, c2, c3, c4, s1, s2

\* Two GETs and a write in one data source, and a GET in another that has a ttl of
\* its own.
MCSource == [c \in Calls |-> IF c = c4 THEN s2 ELSE s1]
MCCallMethods == [c \in Calls |-> IF c = c3 THEN {"POST"} ELSE {"GET"}]
MCOverride == [c \in Calls |-> IF c = c4 THEN 1 ELSE Unset]
MCHeaders == {[maxAge |-> 0, etag |-> FALSE], [maxAge |-> 1, etag |-> TRUE]}
MCPolicies == {[maxAge |-> 1, scope |-> "PRIVATE"], [maxAge |-> 1, scope |-> Undefined],
               [maxAge |-> 0, scope |-> "PUBLIC"]}
Symmetry == Permutations({c1, c2}) \cup Permutations(Requests) \cup Permutations(Sessions)
=============================================================================

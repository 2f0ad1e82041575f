------------------------- MODULE MCRestDataSource -------------------------
EXTENDS RestDataSource

CONSTANTS c1, c2, c3, s1, s2

\* Two calls in one data source, one in another; one has a ttl of its own.
MCSource == [c \in Calls |-> IF c = c3 THEN s2 ELSE s1]
MCCallMethods == [c \in Calls |-> Methods]
MCOverride == [c \in Calls |-> IF c = c1 THEN 1 ELSE Unset]
MCHeaders == {[maxAge |-> 0, etag |-> FALSE], [maxAge |-> 1, etag |-> TRUE]}
=============================================================================

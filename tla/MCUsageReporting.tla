--------------------------- MODULE MCUsageReporting ---------------------------
(* MaxSize bounds a report in traces, each trace is captured once: a report *)
(* of two leaves one of the three traces over.                             *)
EXTENDS UsageReporting

MCTraces == {"t1", "t2", "t3"}
MCSchemas == {"oldSchema", "newSchema"}
MCOverrides == {NoSchema, "newSchema"}
=============================================================================

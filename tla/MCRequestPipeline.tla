-------------------------- MODULE MCRequestPipeline --------------------------
\* RequestPipeline with a query that the second schema drops and one that does
\* not parse.  Every awaited point of the first request may reject; in the
\* second nothing does that comes after a report of its errors.
EXTENDS RequestPipeline, TLC

CONSTANTS r1, r2

MCQueries == {"old", "broken"}
MCSyntactic == {"old"}
MCValid == <<{"old"}, {}>>

AllPoints == Points \cup {"formatResponse"}
MCRejecting == r1 :> AllPoints @@ r2 :> AllPoints \ AfterReport
=============================================================================

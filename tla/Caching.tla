------------------------------- MODULE Caching -------------------------------
(***************************************************************************)
(* The two users of a key-value cache, each by itself: a behaviour is one  *)
(* of the response cache or one of the REST data source, as part says, and *)
(* leaves the variables of the other as they are.                          *)
(***************************************************************************)
EXTENDS ResponseCache

CONSTANTS Calls, DataSources, Source, CallMethods, Override, Headers, CacheKinds, Failed,
          RestMaxNow   \* bound: seconds that may pass in the data sources

VARIABLES part, restKind, method, restPc, memo, shares, stale, reply, restResult,
          restStore, version, restNow, before, written, confirmed, cached

Rest == INSTANCE RestDataSource WITH
  kind <- restKind, pc <- restPc, result <- restResult, store <- restStore,
  now <- restNow, MaxNow <- RestMaxNow

ASSUME CachingAssumption == Rest!RestAssumption

restVars == <<restKind, method, restPc, memo, shares, stale, reply, restResult,
              restStore, version, restNow, before, written, confirmed, cached>>

\* The part that a behaviour is not about stays in one initial state.
CachingInit ==
  /\ part \in {"responses", "rest"} /\ Init /\ Rest!Init
  /\ part = "rest" => kind = "lru" /\ ~hook /\ who = [r \in Requests |-> NoSession]

CachingNext ==
  /\ \/ part = "responses" /\ Next /\ UNCHANGED restVars
     \/ part = "rest" /\ Rest!Next /\ UNCHANGED vars
  /\ UNCHANGED part

CachingSpec == CachingInit /\ [][CachingNext]_<<part, vars, restVars>>

-----------------------------------------------------------------------------
\* The properties of the REST data source, in its variables here.  One fetch
\* serves the GETs of a data source between two of its writes.
OneFetchBetweenWrites == Rest!OneFetchBetweenWrites

\* What its cache answers was confirmed by the origin as long ago as is allowed.
AnswersAreFresh == Rest!AnswersAreFresh
=============================================================================

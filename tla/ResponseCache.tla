---------------------------- MODULE ResponseCache ----------------------------
(***************************************************************************)
(* The response cache plugin: whole responses kept in a key-value cache,   *)
(* for one session or for all, for as long as the cache policy of the      *)
(* operation says.                                                         *)
(*                                                                         *)
(* One request goes through responseForOperation(), the execution when     *)
(* nothing was cached, and willSendResponse().  Every await in these hooks *)
(* is a point where the other requests go on, and time passes.             *)
(***************************************************************************)
EXTENDS CachePolicy, KeyValueCache

CONSTANTS
  Requests,      \* the requests, all of query operations
  Sessions,      \* the ids that the sessionId hook answers with
  NoSession,     \* its answer null: nobody is logged in
  Bases,         \* the base keys: query, name, variables, extra key data
  CachePolicies, \* the policies that executions end with
  MaxNow         \* bound: seconds that may pass

Who == Sessions \cup {NoSession}
Modes == {"NoSession", "Private", "AuthenticatedPublic"}
Keys == [base : Bases, mode : Modes, session : Who]

\* A result, with the request that it was executed for.
Results == [base : Bases, who : Who, policy : Policies, executed : Nat]
\* CacheValue
Values == [data : Results, cachePolicy : Policies, cacheTime : Nat]

ASSUME ResponseCacheAssumption ==
  /\ NoSession \notin Sessions
  /\ CachePolicies \subseteq Policies
  /\ MaxNow \in Nat
  /\ Absent \notin Values \cup Results \cup Nat \cup [value : Values, until : Int \cup {Never}]

VARIABLES
  kind,      \* the kind of the cache
  hook,      \* whether options.sessionId is defined
  who,       \* each request: who really sent it
  base,      \* baseCacheKey, once it was computed
  sessionId, \* the session id, once the hook answered
  pc,        \* "idle", "private", "shared", "executing", "sending", "sent", "failed"
  hit,       \* metrics.responseCacheHit
  age,       \* the age of what was found, or Absent
  result,    \* the response's data, or Absent
  overall,   \* overallCachePolicy
  writes,    \* sets in the background that have not reached the store
  store,     \* the store: an entry or Absent for each key
  now        \* the time

config == <<kind, hook, who>>
vars == <<config, base, sessionId, pc, hit, age, result, overall, writes, store, now>>

Entries == [value : Values, until : Nat \cup {Never}]

TypeOK ==
  /\ kind \in Kinds /\ hook \in BOOLEAN /\ who \in [Requests -> Who]
  /\ base \in [Requests -> Bases \cup {Absent}]
  /\ sessionId \in [Requests -> Who]
  /\ pc \in [Requests -> {"idle", "private", "shared", "executing", "sending", "sent", "failed"}]
  /\ hit \in [Requests -> BOOLEAN]
  /\ age \in [Requests -> Int \cup {Absent}]
  /\ result \in [Requests -> Results \cup {Absent}]
  /\ overall \in [Requests -> Policies]
  /\ writes \subseteq [key : Keys, value : Values]
  /\ store \in [Keys -> Entries \cup {Absent}]
  /\ now \in Nat

Init ==
  /\ kind \in Kinds /\ hook \in BOOLEAN /\ who \in [Requests -> Who]
  /\ base = [r \in Requests |-> Absent]
  /\ sessionId = [r \in Requests |-> NoSession]
  /\ pc = [r \in Requests |-> "idle"]
  /\ hit = [r \in Requests |-> FALSE]
  /\ age = [r \in Requests |-> Absent]
  /\ result = [r \in Requests |-> Absent]
  /\ overall = [r \in Requests |-> NewPolicy]
  /\ writes = {}
  /\ store = [k \in Keys |-> Absent]
  /\ now = 0

-----------------------------------------------------------------------------
\* cacheKeyString(): only private responses are kept under a session's id.
Key(r, mode) ==
  [base |-> base[r], mode |-> mode,
   session |-> IF mode = "Private" THEN sessionId[r] ELSE NoSession]

\* The mode of a response that may be shared.
SharedMode(r) == IF sessionId[r] = NoSession THEN "NoSession" ELSE "AuthenticatedPublic"

\* responseForOperation() up to the first lookup: sessionId(),
\* extraCacheKeyData() and shouldReadFromCache() have answered; skip tells
\* that nothing is to be read.
Begin(r, b, skip) ==
  /\ pc[r] = "idle"
  /\ base' = [base EXCEPT ![r] = b]
  /\ sessionId' = [sessionId EXCEPT ![r] = IF hook THEN who[r] ELSE NoSession]
  /\ pc' = [pc EXCEPT ![r] = IF skip THEN "executing"
                             ELSE IF sessionId'[r] = NoSession THEN "shared" ELSE "private"]
  /\ UNCHANGED <<config, hit, age, result, overall, writes, store, now>>

\* cacheGet() has an answer: the response, or nothing and the next step.
Found(r, key, next) ==
  LET value == Value(kind, store[key], now)
  IN  IF value = Absent
      THEN /\ pc' = [pc EXCEPT ![r] = next]
           /\ UNCHANGED <<hit, age, result, overall>>
      ELSE /\ pc' = [pc EXCEPT ![r] = "sending"]
           /\ hit' = [hit EXCEPT ![r] = TRUE]
           /\ age' = [age EXCEPT ![r] = now - value.cacheTime]
           /\ result' = [result EXCEPT ![r] = value.data]
           /\ overall' = [overall EXCEPT ![r] = Replace(@, value.cachePolicy)]

LookupPrivate(r) ==
  /\ pc[r] = "private"
  /\ Found(r, Key(r, "Private"), "shared")
  /\ UNCHANGED <<config, base, sessionId, writes, store, now>>

LookupShared(r) ==
  /\ pc[r] = "shared"
  /\ Found(r, Key(r, SharedMode(r)), "executing")
  /\ UNCHANGED <<config, base, sessionId, writes, store, now>>

\* The store rejects a lookup, and with it the hook.
LookupFails(r) ==
  /\ pc[r] \in {"private", "shared"}
  /\ pc' = [pc EXCEPT ![r] = "failed"]
  /\ UNCHANGED <<config, base, sessionId, hit, age, result, overall, writes, store, now>>

\* The operation is executed, with policy p; a response with errors, or
\* without data, is sent as it is: willSendResponse() does nothing with it.
Execute(r, p) ==
  /\ pc[r] = "executing"
  /\ overall' = [overall EXCEPT ![r] = p]
  /\ \/ /\ pc' = [pc EXCEPT ![r] = "sending"]
        /\ result' = [result EXCEPT ![r] =
             [base |-> base[r], who |-> who[r], policy |-> p, executed |-> now]]
     \/ pc' = [pc EXCEPT ![r] = "sent"] /\ UNCHANGED result
  /\ UNCHANGED <<config, base, sessionId, hit, age, writes, store, now>>

\* Wrong on purpose: private responses are shared by the logged-in users.
WriteModesShared(r) ==
  IF sessionId[r] = NoSession /\ overall[r].scope = "PRIVATE" THEN {}
  ELSE {SharedMode(r)}

\* The mode to write in, if any: private data of nobody is not kept.
WriteModes(r) ==
  IF overall[r].scope = "PRIVATE"
  THEN IF ~hook \/ sessionId[r] = NoSession THEN {} ELSE {"Private"}
  ELSE {SharedMode(r)}

\* willSendResponse(), shouldWriteToCache() having answered write.  The
\* in-memory cache takes the value at once, the others later.
Send(r, write) ==
  /\ pc[r] = "sending"
  /\ pc' = [pc EXCEPT ![r] = "sent"]
  /\ writes' = IF hit[r] \/ ~write \/ ~Cacheable(overall[r]) THEN writes
               ELSE writes \cup
                 {[key |-> Key(r, mode),
                   value |-> [data |-> result[r], cacheTime |-> now,
                              cachePolicy |-> PolicyIfCacheable(overall[r])]] :
                  mode \in WriteModes(r)}
  /\ UNCHANGED <<config, base, sessionId, hit, age, result, overall, store, now>>

-----------------------------------------------------------------------------
\* set() of what was to be written reaches the store.
Land(w) ==
  /\ w \in writes
  /\ writes' = writes \ {w}
  /\ store' = [store EXCEPT ![w.key] = Entry(kind, w.value, w.value.cachePolicy.maxAge, now)]
  /\ UNCHANGED <<config, base, sessionId, pc, hit, age, result, overall, now>>

\* set() is rejected: the plugin logs it.
Lose(w) ==
  /\ w \in writes /\ kind # "lru"
  /\ writes' = writes \ {w}
  /\ UNCHANGED <<config, base, sessionId, pc, hit, age, result, overall, store, now>>

\* The cache is full, or is flushed.
Evict(k) ==
  /\ store[k] # Absent
  /\ store' = [store EXCEPT ![k] = Absent]
  /\ UNCHANGED <<config, base, sessionId, pc, hit, age, result, overall, writes, now>>

\* Time passes; a value on its way to the in-memory cache is there at once.
Tick ==
  /\ now < MaxNow
  /\ kind = "lru" => writes = {}
  /\ now' = now + 1
  /\ UNCHANGED <<config, base, sessionId, pc, hit, age, result, overall, writes, store>>

Next ==
  \/ \E r \in Requests :
       \/ \E b \in Bases, skip \in BOOLEAN : Begin(r, b, skip)
       \/ LookupPrivate(r) \/ LookupShared(r) \/ LookupFails(r)
       \/ \E p \in CachePolicies : Execute(r, p)
       \/ \E write \in BOOLEAN : Send(r, write)
  \/ \E w \in writes : Land(w) \/ Lose(w)
  \/ \E k \in Keys : Evict(k)
  \/ Tick

Spec == Init /\ [][Next]_vars

-----------------------------------------------------------------------------
\* What request r may be answered with: the result of the same operation;
\* a private one only if it was executed for r's own session; a shared one only
\* if both were sent by somebody logged in, or both by nobody.  A server without
\* the sessionId hook cannot tell, and keeps no private results.
MayHave(r, value) ==
  /\ value.base = base[r]
  /\ IF value.policy.scope = "PRIVATE" THEN hook /\ who[r] # NoSession /\ value.who = who[r]
     ELSE hook => (value.who = NoSession) = (who[r] = NoSession)

\* No request is answered from the cache with what it may not have, in
\* whatever order lookups, executions and late writes of all requests come.
PrivateStaysPrivate ==
  \A r \in Requests : hit[r] => MayHave(r, result[r])

\* What the cache answers was written, for as long as its policy allows; its
\* Age header says how long ago; and the policy that the request goes on with is
\* the one the original response was sent with.
HitsAreFresh ==
  \A r \in Requests : hit[r] =>
    /\ result[r].executed + age[r] <= now
    /\ kind = "lru" => age[r] <= result[r].policy.maxAge
    /\ overall[r] = PolicyIfCacheable(result[r].policy)
=============================================================================

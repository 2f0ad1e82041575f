--------------------------- MODULE RestDataSource ---------------------------
(***************************************************************************)
(* RESTDataSource and its HTTPCache.  Every GraphQL request has a data     *)
(* source of its own, which memoizes the promises of its GETs; all of them *)
(* keep the origin's responses in one key-value cache.  The module follows *)
(* the calls with one cache key, that is, with one URL.                    *)
(*                                                                         *)
(* The origin has a resource whose version grows with every write.  It may *)
(* answer in any order, with or without an ETag, with an error status, or  *)
(* not at all.                                                             *)
(***************************************************************************)
EXTENDS KeyValueCache

CONSTANTS
  Calls,        \* the calls of get(), post(), put(), ...
  DataSources,  \* the instances
  Source,       \* the data source of each call
  CallMethods,  \* the methods each call may have
  Override,     \* the ttl of each call's cacheOptions, Unset if there is none
  Headers,      \* what the origin may say of a response: the age it allows (if
                \* 0, it is not storable), and whether it has an ETag
  CacheKinds,   \* the kinds of cache considered
  Failed,       \* the result of a call that rejects
  MaxNow        \* bound: seconds that may pass

Methods == {"GET", "POST"}

\* What the constants are; the MC modules assume it.
RestAssumption ==
  /\ Override \in [Calls -> Nat \cup {Unset}]
  /\ Headers \subseteq [maxAge : Nat, etag : BOOLEAN]
  /\ Source \in [Calls -> DataSources]
  /\ CallMethods \in [Calls -> SUBSET Methods]
  /\ MaxNow \in Nat
  /\ CacheKinds \subseteq Kinds
  /\ {Absent, Failed} \cap (Calls \cup DataSources \cup Nat) = {} /\ Absent # Failed

VARIABLES
  kind,     \* the kind of the key-value cache
  method,   \* the method of each call, or Absent
  pc,       \* "idle", "reading", "sent", "handled", "storing", "done", "shared"
  memo,     \* memoizedResults: the call whose promise a data source keeps
  shares,   \* for a call that got a promise from it, the call that made it
  stale,    \* the cached value that a call revalidates, or Absent
  reply,    \* the origin's response to a call, or Absent
  result,   \* the version a call ended with, Failed or Absent
  store,    \* the cache's entry, or Absent
  version,  \* the resource's version
  now,
  before,     \* history: the calls of its data source performed before each
  written,    \* history: the writes that the origin handled
  confirmed,  \* history: what the origin said of the resource, with the time
  cached      \* history: the answers from the cache, with the age allowed

vars == <<kind, method, pc, memo, shares, stale, reply, result, store, version, now,
          before, written, confirmed, cached>>

Replies == [modified : BOOLEAN, error : BOOLEAN, version : Nat, headers : Headers]
\* The entry: the policy (its method, status, time of response, age, ETag),
\* ttlOverride, body.
Values == [method : Methods, error : BOOLEAN, at : Nat, headers : Headers,
           ttlOverride : Nat \cup {Unset}, body : Nat]

TypeOK ==
  /\ kind \in CacheKinds
  /\ method \in [Calls -> Methods \cup {Absent}]
  /\ pc \in [Calls -> {"idle", "reading", "sent", "handled", "storing", "done", "shared"}]
  /\ memo \in [DataSources -> Calls \cup {Absent}]
  /\ shares \in [Calls -> Calls \cup {Absent}]
  /\ stale \in [Calls -> Values \cup {Absent}]
  /\ reply \in [Calls -> Replies \cup {Absent}]
  /\ result \in [Calls -> Nat \cup {Failed, Absent}]
  /\ store \in [value : Values, until : Nat \cup {Never}] \cup {Absent}
  /\ version \in Nat /\ now \in Nat
  /\ before \in [Calls -> SUBSET Calls]
  /\ written \subseteq Calls
  /\ confirmed \subseteq [version : Nat, error : BOOLEAN, time : Nat]
  /\ cached \subseteq [version : Nat, error : BOOLEAN, time : Nat, allowed : Nat]

Init ==
  /\ kind \in CacheKinds
  /\ method = [c \in Calls |-> Absent] /\ pc = [c \in Calls |-> "idle"]
  /\ memo = [s \in DataSources |-> Absent] /\ shares = [c \in Calls |-> Absent]
  /\ stale = [c \in Calls |-> Absent] /\ reply = [c \in Calls |-> Absent]
  /\ result = [c \in Calls |-> Absent]
  /\ store = Absent
  /\ version = 0 /\ now = 0
  /\ before = [c \in Calls |-> {}]
  /\ written = {} /\ confirmed = {} /\ cached = {}

history == <<before, written, confirmed, cached>>

-----------------------------------------------------------------------------
\* Wrong on purpose: a write leaves the promise of a GET before it.
PerformKeeping(c, m) ==
  LET s == Source[c]
  IN  /\ pc[c] = "idle" /\ m \in CallMethods[c]
      /\ method' = [method EXCEPT ![c] = m]
      /\ IF m = "GET" /\ memo[s] # Absent
         THEN /\ pc' = [pc EXCEPT ![c] = "shared"]
              /\ shares' = [shares EXCEPT ![c] = memo[s]]
              /\ UNCHANGED memo
         ELSE /\ pc' = [pc EXCEPT ![c] = "reading"]
              /\ memo' = [memo EXCEPT ![s] = IF m = "GET" THEN c ELSE @]
              /\ UNCHANGED shares
      /\ before' = [before EXCEPT ![c] = {d \in Calls : Source[d] = s /\ pc[d] # "idle"}]
      /\ UNCHANGED <<kind, stale, reply, result, store, version, now, written, confirmed,
                     cached>>

\* fetch(), when willSendRequest() and resolveURL() are done: a GET takes the
\* promise that is there, or leaves its own; anything else removes it.
Perform(c, m) ==
  LET s == Source[c]
  IN  /\ pc[c] = "idle" /\ m \in CallMethods[c]
      /\ method' = [method EXCEPT ![c] = m]
      /\ IF m = "GET" /\ memo[s] # Absent
         THEN /\ pc' = [pc EXCEPT ![c] = "shared"]
              /\ shares' = [shares EXCEPT ![c] = memo[s]]
              /\ UNCHANGED memo
         ELSE /\ pc' = [pc EXCEPT ![c] = "reading"]
              /\ memo' = [memo EXCEPT ![s] = IF m = "GET" THEN c ELSE Absent]
              /\ UNCHANGED shares
      /\ before' = [before EXCEPT ![c] = {d \in Calls : Source[d] = s /\ pc[d] # "idle"}]
      /\ UNCHANGED <<kind, stale, reply, result, store, version, now, written, confirmed,
                     cached>>

\* Nothing refers to the responses of a call that has ended.
Forget(c) ==
  /\ stale' = [stale EXCEPT ![c] = Absent]
  /\ reply' = [reply EXCEPT ![c] = Absent]

\* didEncounterError(): the call rejects.
Fail(c) ==
  /\ Forget(c)
  /\ pc' = [pc EXCEPT ![c] = "done"]
  /\ result' = [result EXCEPT ![c] = Failed]

Overridden(ttl) == ttl \notin {Unset, 0}

\* policy.satisfiesWithoutRevalidation(): for requests with the same method.
Satisfies(value, m) == value.method = m /\ now - value.at < value.headers.maxAge

Fresh(value, m) ==
  IF Overridden(value.ttlOverride) THEN now - value.at < value.ttlOverride
  ELSE Satisfies(value, m)

Allowed(value) ==
  IF Overridden(value.ttlOverride) THEN value.ttlOverride ELSE value.headers.maxAge

\* didReceiveResponse(): the call rejects for an error status.
Result(error, body) == IF error THEN Failed ELSE body

\* HTTPCache.fetch(), when the key-value cache has answered.
Read(c) ==
  /\ pc[c] = "reading"
  /\ LET value == IF store = Absent THEN Absent ELSE Value(kind, store, now)
     IN  IF value # Absent /\ Fresh(value, method[c])
         THEN /\ pc' = [pc EXCEPT ![c] = "done"]
              /\ result' = [result EXCEPT ![c] = Result(value.error, value.body)]
              /\ cached' = cached \cup
                   {[version |-> value.body, error |-> value.error, time |-> now,
                     allowed |-> Allowed(value)]}
              /\ UNCHANGED stale
         ELSE /\ pc' = [pc EXCEPT ![c] = "sent"]
              /\ stale' = [stale EXCEPT ![c] = value]
              /\ UNCHANGED <<result, cached>>
  /\ UNCHANGED <<kind, method, memo, shares, reply, store, version, now, before, written,
                 confirmed>>

\* The key-value cache rejects the lookup.
ReadFails(c) ==
  /\ pc[c] = "reading"
  /\ Fail(c)
  /\ UNCHANGED <<kind, method, memo, shares, store, version, now, history>>

\* policy.revalidationHeaders() has an If-None-Match for a GET of a storable
\* response to a GET with an ETag.
Conditional(c) ==
  /\ stale[c] # Absent /\ method[c] = "GET" /\ stale[c].method = "GET"
  /\ stale[c].headers.etag /\ stale[c].headers.maxAge > 0

\* The origin handles a request, and answers with its version, with 304 if that is
\* the client's (it has the ETag again), or with an error whose status may be stored,
\* as 404; a write makes a new version.
Handle(c, headers, error) ==
  /\ pc[c] = "sent" /\ (error => method[c] = "GET" /\ headers.maxAge > 0)
  /\ pc' = [pc EXCEPT ![c] = "handled"]
  /\ version' = IF method[c] = "POST" THEN version + 1 ELSE version
  /\ written' = IF method[c] = "POST" THEN written \cup {c} ELSE written
  /\ LET modified == error \/ ~Conditional(c) \/ stale[c].error \/ stale[c].body # version
     IN  /\ ~modified => headers.etag
         /\ reply' = [reply EXCEPT ![c] = [modified |-> modified, error |-> error,
                                           version |-> version', headers |-> headers]]
  /\ UNCHANGED <<kind, method, memo, shares, stale, result, store, now, before, confirmed,
                 cached>>

\* httpFetch() rejects, whether the origin has handled the request or not, or the
\* response is an error that is not stored.
FetchFails(c) ==
  /\ pc[c] \in {"sent", "handled"}
  /\ Fail(c)
  /\ UNCHANGED <<kind, method, memo, shares, store, version, now, history>>

\* Wrong on purpose: every revalidated response is taken for a 304.
ReceivedBody(c) ==
  [method |-> method[c], error |-> reply[c].error, at |-> now, headers |-> reply[c].headers,
   ttlOverride |-> Override[c],
   body |-> IF stale[c] # Absent THEN stale[c].body ELSE reply[c].version]

\* What storeResponseAndReturnClone() is given: the new policy, and the body of
\* a response that was modified.
Received(c) ==
  [method |-> method[c], error |-> reply[c].error, at |-> now, headers |-> reply[c].headers,
   ttlOverride |-> Override[c],
   body |-> IF reply[c].modified THEN reply[c].version ELSE stale[c].body]

\* Whether to store it: an override alone stores no errors.
Storable(c) ==
  /\ (Overridden(Override[c]) /\ ~reply[c].error) \/ (method[c] = "GET" /\ reply[c].headers.maxAge > 0)
  /\ Override[c] # 0

\* A response is there, which is stored, or is the result at once.
Receive(c) ==
  /\ pc[c] = "handled"
  /\ IF Storable(c)
     THEN /\ pc' = [pc EXCEPT ![c] = "storing"]
          /\ stale' = [stale EXCEPT ![c] = Received(c)]
          /\ reply' = [reply EXCEPT ![c] = Absent]
          /\ UNCHANGED result
     ELSE /\ Forget(c)
          /\ pc' = [pc EXCEPT ![c] = "done"]
          /\ result' = [result EXCEPT ![c] = Result(Received(c).error, Received(c).body)]
  /\ confirmed' = confirmed \cup
       {[version |-> reply[c].version, error |-> reply[c].error, time |-> now]}
  /\ UNCHANGED <<kind, method, memo, shares, store, version, now, before, written, cached>>

\* Seconds to keep it: twice as long if it can be revalidated.
KeepFor(value) == IF value.headers.etag THEN 2 * Allowed(value) ELSE Allowed(value)

\* set() is done, or rejected, and the call with it.
Store(c) ==
  /\ pc[c] = "storing"
  /\ \/ /\ store' = Entry(kind, stale[c], KeepFor(stale[c]), now)
        /\ pc' = [pc EXCEPT ![c] = "done"]
        /\ result' = [result EXCEPT ![c] = Result(stale[c].error, stale[c].body)]
        /\ Forget(c)
     \/ Fail(c) /\ UNCHANGED store
  /\ UNCHANGED <<kind, method, memo, shares, version, now, history>>

Evict ==
  /\ store # Absent /\ store' = Absent
  /\ UNCHANGED <<kind, method, pc, memo, shares, stale, reply, result, version, now, history>>

Tick ==
  /\ now < MaxNow /\ now' = now + 1
  /\ UNCHANGED <<kind, method, pc, memo, shares, stale, reply, result, store, version, history>>

Next ==
  \/ \E c \in Calls :
       \/ \E m \in Methods : Perform(c, m)
       \/ Read(c) \/ ReadFails(c)
       \/ \E headers \in Headers, error \in BOOLEAN : Handle(c, headers, error)
       \/ FetchFails(c) \/ Receive(c) \/ Store(c)
  \/ Evict
  \/ Tick

Spec == Init /\ [][Next]_vars

-----------------------------------------------------------------------------
\* Between two writes of one data source there is one fetch for all its GETs, and
\* none across a write: two GETs that both made a promise have a write performed
\* between them, and a GET has none between it and the GET whose promise it takes.
OneFetchBetweenWrites ==
  \A d \in Calls :
    /\ \A c \in before[d] :
         /\ method[c] = "GET" /\ method[d] = "GET"
         /\ shares[c] = Absent /\ shares[d] = Absent
         => \E w \in before[d] : c \in before[w] /\ method[w] = "POST"
    /\ shares[d] # Absent =>
         \A w \in before[d] : shares[d] \in before[w] => method[w] # "POST"

\* What the cache answers without the origin, the origin has confirmed, by a
\* response or by a 304, no longer ago than the ttl or the age allows: however
\* the fetches overlap, and though revalidatable entries are kept twice as long.
\* An error is answered again only if it was the origin's answer.
AnswersAreFresh ==
  \A answer \in cached : \E word \in confirmed :
    /\ word.version = answer.version /\ word.error = answer.error
    /\ word.time <= answer.time /\ answer.time - word.time < answer.allowed

\* "Without an override, we only cache GET requests": a write that was called
\* without one and did not fail was handled by the origin.
WritesReachOrigin ==
  \A c \in Calls :
    method[c] # Absent /\ result[c] \notin {Absent, Failed} =>
      method[c] = "GET" \/ Override[c] # Unset \/ c \in written
=============================================================================

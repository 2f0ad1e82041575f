# Apollo Server in TLA+

Specifications, model-checking configurations and proofs for this repository
(Apollo Server 3: `apollo-server-core`, its integrations, plugins, caches and data
source). Every module is
translated from the TypeScript source; `PROJECT.json` maps each definition to
the lines it stands for.

Contents: 1 the system, 2 the modules, 3 the runs, 4 disagreements, 5 the proofs,
6 what is assumed, 7 what is not modelled, 8 what could come next.

To repeat the checks, in this directory: `tlc -config MCStopper.cfg MCStopper`
for a run, `tlapm StopperProofs.tla` for proofs.

## 1. The system

Apollo Server answers GraphQL operations for a web framework. Node runs one
callback at a time, so two pieces of code interleave only at an `await`, a
timer, an event or a `setImmediate`. That is where all the difficulty of the
code lies, and where the steps of the models begin and end.

```
 framework --> runHttpQuery --> processGraphQLRequest --> graphql-js
     |              |              |    |      |
     |   graphQLServerOptions()    |  plugins  +--> documentStore, persistedQueries
     |              |              |    |                (KeyValueCache: LRU, redis...)
     |        ApolloServerBase ----+    +-- usage reporting --> reports --> ingress
     |         |         |              +-- cache control, response cache, registry...
     |   SchemaManager   +-- start / stop / signals --> drain plugin --> http.Server
     |         |
     |      gateway (load, updates)
```

### Components, their state, and what makes each correct

| component | state it keeps | operations | hard behaviour | what must hold |
|---|---|---|---|---|
| **Server life cycle** `ApolloServer.ts` | `state.phase`, the starting, draining and stopping barriers, `toDispose`, the signal listeners | `start`, `stop`, `_ensureStarted`, `executeOperation`, signal handler | parallel stops; requests before and during the start and the stop; hooks that reject; signals in between | one shutdown, one verdict; stages in order; each hook once; nobody waits for ever |
| **Schema manager** `utils/schemaManager.ts` | `schemaDerivedData`, `schemaContext`, `isStopped`, listeners | `start`, gateway events, `onSchemaLoadOrUpdate`, `stop` | events before, between and after the answer of `load()`; broken schemas; listeners that register late | newest schema served, never an older one again; listeners miss nothing; quiet after stop |
| **Request pipeline** `requestPipeline.ts` | the request context; two shared caches written without `await` | the steps of `processGraphQLRequest` and its hooks | schema updates while a request runs; a rejection at any hook; lost or late cache writes | only valid operations are executed; hashes name their query; a request is answered once, errors are reported |
| **Drain plugin** `drainHttpServer/` | requests per socket, `stopped`, `gracefully`, a timer | `stop`, listeners of `connection`, `secureConnection`, `request`, `finish`, `close` | stop called inside a request; pipelining; the timer against the last close | idle sockets end, busy ones do not; stop returns; nothing is left then |
| **Usage reporting** `usageReporting/` | a report per schema, the cached schema id, the timer, `stopped` | `willSendResponse`, `addTrace`, `sendReport`, `serverWillStop` | the timer, a big report and the stop take the same report; retries; `setImmediate` before the trace is added | every trace in one report, under its schema, and out before the process ends |
| Hook dispatcher `utils/dispatcher.ts` | its listeners | `invokeHook`, `invokeHooksUntilNonNull`, `invokeDidStartHook` | `Promise.all` over hooks, of which one rejects | the request goes on with one outcome of each event |
| **HTTP query runner** `runHttpQuery.ts` | none; per HTTP request a response initialisation | single requests, batches, GET | the requests of a batch share headers and status | a batch is answered as a whole, with status 200 once it runs |
| **Schema reporting** `schemaReporting/` | `isStopped`, a timer, what the last answer asked for | `start`, `sendOneReportAndScheduleNext`, `stop` | stop while a report is in flight; replacement by an update | no report after stop; one reporter at a time |
| **Cache control, cache policy** | the policy of an operation, hints per path | `restrict`, `replace`, the resolver hook | concurrent resolvers restrict one policy; the response is there while resolvers still run | the header is the strictest of the fields', in any order |
| **Trace tree builder, inline trace** | node map, start and stop flags | `startTiming`, `stopTiming`, `willResolveField`, errors | resolvers that begin after the trace ended; errors of fields and of list items | one node per path; errors of fields at their node, of list items at the root |
| **Response cache plugin** | entries by session, kind and operation | `responseForOperation`, `willSendResponse` | the policy known after the key is | private data never under a public key |
| **Operation registry plugin** | the manifest, its ETag and last success | `start`, `checkForUpdate`, `stop`, `didResolveOperation` | a failed or partial update; stop during a check | the store is the last manifest, and what failed updates left; retries go on |
| Key-value caches | LRU entries, ages, batches of the redis loader | `get`, `set`, `delete` | eviction; concurrent loads | an answer is the last value set, or none |
| **REST data source, HTTP cache** | memoized promises, cached responses and policies | `get` and others, revalidation | concurrent requests for one key | one fetch between two writes, none shared across one; never a stale entry unchecked |
| **Report contents** `stats.ts`, `durationHistogram.ts` | the report, histograms, a tree of error paths | `addTrace`, `incrementDuration`, `combine`, `toArray` | traces or statistics of one kind; runs of empty buckets; the size is kept piece by piece | each trace counted once, each error at its place |
| **Messages of reports** `protobuf.js` | none | `verify`, `encode`, `decode`, `toJSON` | 64-bit numbers, oneofs, pre-encoded elements, unknown fields | what was verified and sent is read |
| Standalone server, framework and serverless integrations | the HTTP server | `listen`, `stop`, handlers | who answers which method and path, and with what body | every request gets to the handler in its shape, or has its answer |
| Landing pages, configuration, schema hash, types, test harness | none | pure functions | none | - |

Components in bold have a module of their own, or a part of one.

Interactions. `_start()` calls the schema manager, then `serverWillStart` of
the plugins, then registers their listeners with the schema manager. `stop()`
calls `drainServer` hooks (the drain plugin), then `serverWillStop` hooks (usage
reporting sends its last reports there) together with `schemaManager.stop()`. A
request reads the options of the current schema once, after `_ensureStarted`, and
is processed with them to its end; its resolvers are wrapped so that cache control and
the tracers follow each field. The caches are shared by all requests. The schema
manager tells the schema reporting plugin of each schema.

`PROJECT.json` lists all components with their status and 40 hazards at their
lines, with the properties that cover them, or the reason why none does.

## 2. The modules

Every module has the same layout: constants with a named assumption, variables,
`TypeOK`, `Init`, one action per piece of code between two awaits, `Next`,
`Spec`, fairness, properties. `MCX.tla` has the constants that a `.cfg` cannot
write, `MCX.cfg` the run. `XProofs.tla` has the theorems. How they depend on each
other:

```
 StopContract <-- ServerLifecycle        CachePolicy <-- Execution <--+-- Answers
                  SchemaManager              ^           HttpQuery <--+
                     ^-- SchemaReporting     +---------- ResponseCache <---+
                  RequestPipeline        KeyValueCache <----^              +-- Caching
                  Stopper                    ^---------- RestDataSource <--+
                  UsageReporting         UsageStats, ReportFormat <-- MCReports
                  OperationRegistry
```

A proof module may have the theorems of two modules that belong together, both
extended or one of them an instance under a name: `SchemaProofs` of `SchemaManager` and
`SchemaReporting`, `CachingProofs` of `Caching` with `Rest!` for `RestDataSource`,
`AnswerProofs` of `Answers` with `Http!` for `HttpQuery`, `UsageReportingProofs` of
`UsageReporting` and `UsageStats`.

*Wrong on purpose.* A definition with this comment stands in front of the one it
distorts and is used by no specification. It is what a plausible bug would make
of the code, and is there to show that a property notices: put in the place of
the original it makes TLC report that property. `PROJECT.json` lists the pairs
under "mutants".

### StopContract and ServerLifecycle

`StopContract` says what a caller of `stop()` may rely on and nothing of how: a
server that is not up refuses the call, the first call closes it, the shutdown
ends with one verdict, every call is answered with it and not before. (CHANGELOG
line 41 states the part about errors.)

`ServerLifecycle` is `ApolloServerBase` from the constructor to the end of the
process. The variables `phase` and `stopError` are `this.state`; `startBarrier`
and `stopBarrier` its resolvables; `boot` is the `await` where `_start()` is
suspended; `startHook`, `drainHook` and `disposal` hold each external call
("idle", "running", "done", "failed"); `rejection` is the first rejection of the
`Promise.all` being awaited; `stopCall[c]` is where call `c` of `stop()` is, the
signal handler being one of the callers; `listening`, `receivedSignal` and
`process` are the signal listeners and the Node process; `request` is where each
operation is.

- `Start`, `LoadSucceeds`, `LoadFails`, `StartHookSettles`, `StartHookRejected`,
  `StartHooksDone`, `RegistrationFails`, `FinishStart`: `_start()`.
- `RequestArrives` (with `EnsureStarted`, which refuses in the phase "initialized",
  when nobody called `start()`), `RequestResumes`, `ContextSettles`,
  `ExecutionEnds`: `executeOperation()`.
- `UserStops` (with `CallStop`, `LeadStop`, `AnswerStopped`), `StopResumes`,
  `DrainHookSettles`, `Drained`, `DisposerSettles`, `StopFails`, `StopSucceeds`:
  `stop()`. A `Promise.all` rejects with its first rejection while the other
  hooks run on; the model keeps them running.
- `SignalKills`, `SignalHandled`, `HandlerRekills`, `HandlerExits`: the
  termination signals. The second signal of a shutdown is swallowed; once the
  listeners are removed, a signal kills the process.

`AbstractStage` and `AbstractReply` are the refinement mapping to `StopContract`.

### SchemaManager

`mode` is the kind of gateway; `pc` the part of the server's life that drives
the manager; `published` the newest schema of the gateway, which is external and
publishes at any time; `subscribed` says if it calls us; `current` stands for
`schemaDerivedData` and `schemaContext`, assigned together; `heard` and
`accepted` are history. `Process(v)` is `processSchemaLoadOrUpdateEvent`:
nothing changes after `stop()` or for a schema that `generateSchemaDerivedData`
throws for. `LoadContinues` is the code after `await gateway.load()`, which uses
the answer only if no event came first. `Register` is the loop of `_start()` over
the listeners, with its partial outcomes.

### RequestPipeline

A step is the code of `processGraphQLRequest` between two awaits. `pc[r]` is the
hook or the cache answer that request `r` awaits; `called[r]` the hooks called
for it. Each request is given `schema[r]` when it arrives and keeps it. Parsing
and validation are sets: `Syntactic`, and `Valid[v]` for schema `v`. A query
stands for its SHA-256 as well, so a hash is a query, and `persisted[h]` and
`documents[s][h]` are what the two caches answer for it. `persisting` and
`storing` are the writes nobody awaits; `WriteSettles` performs or loses one
at any time, and `Forget` drops an entry, as the caches may. `Rejecting` names
the awaited points whose hook may reject; `Throw` is the rejection of
`processGraphQLRequest` at those that nothing catches. A hook is all plugins'
hooks together (`Dispatcher`), which resolve or reject as one. An error of the
end hook of a parse or validation that failed has its own point, because there
it is awaited outside of the `try`.

### Stopper

The environment is `http.Server`, its sockets and clients: `conn`, `running`
(requests without an answer), `listening`. The plugin's own state is `tracked` and
`reqs` (keys and values of `reqsPerSocket`), `stopped`, `gracefully`, `timer`;
`stopPc` is where `stop()` is. Listeners of one event run in registration order,
without anything between them but calls they make: `emitting` marks the moment
after the application's `request` listener, which may call `stop()`, and before
the plugin's, which counts. `stop()` begins with a `setImmediate` for that
reason. `cut` is a history variable with the sockets that the plugin closed
under a running request.

### UsageReporting

`phase[t]` follows a trace from `willSendResponse` over the `setImmediate` of
`addTrace()`; `reports` is the report of each schema; a member of `jobs` is a
call of `sendReport()` that has taken one. `Take` takes reports without an
`await` and is shared by the timer, a report that has become big and
`serverWillStop`. `Compress`, `RetryOrGiveUp`, `Answered` are the rest of
`sendReport()`; an attempt may fail after the ingress received it. `lastSeen`
is the one-element cache of schema ids. With `overrideReportedSchema` (`overridden`) no
id is computed and all traces share one report: `ReportOf`.

### SchemaReporting

Composes `SchemaManager` with the plugin, as one of the listeners. A reporter is
the version it reports. `Hear(v)` is the plugin's `schemaDidLoadOrUpdate`: it stops
the current reporter and starts another (with an overridden schema only the first
time). `ManagerStep` is a step of the manager with what the plugin does in it,
`serverWillStop` included. `Send`, `Answered`, `ReportFails`, `Refused` are
`sendOneReportAndScheduleNext()` around the await of `reportSchema()`. A timer holds
what the registry asked for: the hash, or the schema ("core").

### CachePolicy and Execution

`CachePolicy` is `cachePolicy.ts`: pure operators, used by `Execution` and
`ResponseCache`.

`Execution` is the execution of one operation: `schemaInstrumentation.ts`, the
cache control plugin and the trace tree builder of the inline trace and of usage
reporting. The constants are an operation and its schema: response paths, list
items, non-null paths, directives of fields and types. `FieldSettles` is a resolver
that ends, with a dynamic hint or an error: the end hooks of its field run, then
the `willResolveField` hooks of the fields below. A resolver may answer with a list of
promises (`FieldLists`): its field ends when all of them were kept, or one was broken
(`ListSettles`). `ItemSettles` is a list item that has its value, or an error, which is
located at a path that no resolver began and no node was made for. `Places` puts an
error at the node of its path, or at the root of the trace when there is none.
`OutcomeIsKnown` is what graphql-js
knows: an error nulls the nearest nullable value above it (`Nulled`), and an operation
is settled while resolvers below such a value still run, which is why
`ExecutionSettles`, `SendResponse` and `UsageTraceEnds` may come before the last
`FieldSettles`. `misused` has the fields whose `willResolveField`
came when the tracer's clock had stopped, in which case it throws and the field
fails, after the response.

### KeyValueCache, ResponseCache, RestDataSource

`KeyValueCache` is what `set` and `get` do with times to live in the in-memory LRU
cache, Redis and memcached (`LifeTime`: given, not given, or given as `null` or
`undefined`). `ResponseCache` is `responseForOperation` and
`willSendResponse` of the plugin: a step is the code between two awaits, `writes`
are the sets nobody awaits (`Land`, `Lose`), `Evict` is the cache's. `result`
carries, beside what it is, for whom it was executed. `RestDataSource` is
`RESTDataSource.fetch()` and `HTTPCache.fetch()` for one address: `memo` is
`memoizedResults`, `pc` is the await a call is at, `stale` the entry it
revalidates. The origin answers in any order, with versions of one resource, or with an error that
says for how long it may be kept: `HTTPCache` stores that before the data source throws
for its status. Other errors store nothing (`FetchFails`).
Histories: `before[c]` has the calls of the same data source made before `c`, `confirmed` what the origin
said and when, `cached` what was answered without it.

`Caching` puts the two side by side over one kind of cache and one clock each: a
behaviour is of one of them, as its variable `part` says, and the other stutters.

### HttpQuery

`Route` says for each of the ten integrations which requests are answered by
itself, with what, and which get to `runHttpQuery`; its clauses follow each
handler's order of checks. `ResolveOptions`, `ReadPayload` and the rest are
`runHttpQuery.ts`: `op[i]` is where operation `i` of a batch is, `status` and
`header` the response initialisation they share. `Resolved`, `Refused`, `Executed`,
`Throws` are what the pipeline and `checkOperationPlugin` may answer; an execution may
come to data, to data and errors, or to errors only (variables that cannot be coerced, an
executor or a hook that rejects).

### Answers

Composes `HttpQuery` with `Execution`, which is the execution of the first operation of
the request. `HttpStep` is a step of the handler; where it takes the result of that
operation, `RespondsAsSent` makes it the one that the execution came to when
`willSendResponse` had ended: data or partial data, with a caching header or without;
or errors only, when nothing was resolved, or a hook rejected at the end.
`ExecutionStep` is a step of the execution, which goes on after the answer if fields
still run. Other operations of a batch may respond with anything, as in `HttpQuery`.

### OperationRegistry

`check` is the request in flight, first for the secret, then for the manifest;
`last` and `store` are `lastOperationSignatures` and the store. `UpdateManifest` adds,
then removes; a malformed entry throws after those before it were added.
`known` is the manifest of the response in the HTTP cache, to which the registry
answers 304, and `spoiled` says that the agent refused that response: for its content
type (`WrongContentType`) or for a malformed entry. `CheckFails` are the failures that
leave nothing in that cache. `leftovers` has what failed updates added. `Operation` is the decision of `didResolveOperation`; `ShouldForbid`
has the options and the predicate with each of its possible answers.

### UsageStats and ReportFormat

`UsageStats` is what `OurReport.addTrace` and its helpers build: histograms
(`DurationToBucket`, `IncrementBucket`, and `ToArray`, which writes runs of zeros as one
number), the walk of a trace with the nodes of its query plan, the tree of errors, the
counts of a field, the estimate of the size, and whether a trace is kept or counted. The
traces are constants: `Node` and `Plan` are tables, and a node's children have
smaller numbers than itself (`TreeAssumption`: they are trees, and a resolver's node has
the names that the builder gives it). So the walks `NodeVisits` and `PlanVisits`, what
`ToArray` has `Written` after each number and what a walk has added after each
visit (`Walked`) are recursive functions, about which things can be proved. The
properties compare all this with definitions that look at the whole at once; `Read` is
a reader of a histogram's array.

`ReportFormat` is the generated `protobuf.js`, whose 7,000 lines repeat four functions
for each message type. Here a type is the set of its fields, and `Verify`,
`Encode`, `Decode`, `ToJSON` are written once over that set, with the rules for
repeated fields, maps, oneofs, `toArray()` and pre-encoded elements. A code is a
sequence of tokens, so the bytes of variable-length integers are left out; their
range (32 or 64 bits, signed or not) is not.

`MCReports` checks the two in one run, as `Caching` does for the caches: `part` says
which of them a behaviour is of.

## 3. The runs

`CHECK_DEADLOCK FALSE` stands where the system really ends: a server that is
stopped, a process that is dead, a request that was answered. The pipeline run keeps
deadlock checking: caches may forget at any time, so the system never stops. Only
`caching` uses symmetry (of requests and sessions, which the response cache does not
tell apart; it has no liveness property).

| run | distinct states | what it asks |
|---|---|---|
| `lifecycle` | 23,600 | Two callers of `stop()`, two signals, an operation, two plugins (both with `serverWillStop`, one with `drainServer`), a server of either kind (started by the user or by its constructor), any hook resolving or rejecting at any time. Safety: `StagesInOrder`, `CleanStopIsComplete`, `OperationsAfterStart`, `NoKillDuringShutdown`; `ImplementsContract`, the refinement of `StopContract`. Liveness: `EveryWaitEnds`, `SignalEndsProcess` |
| `lifecycle_parallel_stop` | | must be violated: section 4 |
| `schema` | 3,000 | All four modes, up to two listeners, of which one is the schema reporting plugin, three versions of which one is broken: `ServesNewest`, `ListenersMissNothing`, `QuietAfterStop`, `OneSchemaIsReported`; liveness `SchemaIsReported` |
| `pipeline` | 423,000 | Two requests, one schema update, persisted queries on or off, every awaited point may reject: `ExecutesValidOperations`, `RegistersAcceptedQueries`, `ExecutionIsEnded`, `ErrorsAreAnswered` (when nothing that comes after the first error rejects), `ResponseIsLast`; liveness `EveryRequestEnds` |
| `stopper` | 3,600 | Two sockets, two overlapping requests on each, both protocols, both grace periods: `GracefulStopCutsNothing`, `StoppedServerIsEmpty`; liveness `HttpStopReturns`: over http, `stop()` returns when there is a grace period whatever clients do, and without one if they are polite |
| `usage_reporting` | 456,000 | Three traces, two schemas, of which one may override, reports of two traces or sent at once, two attempts: `EveryTraceInOneReport`, `FinalReportsAreSent`; liveness `AddedTracesLeave` |
| `execution` | 1,342,000 | A query of five fields, a list of two items, with or without promises in it, a non-null field at either level and non-null items, errors of fields and of items, directives on fields and types, dynamic hints, an error that is dropped, each tracer: `HeaderCoversResponse`, `TraceFollowsExecution` |
| `caching` | 739,000 | Response cache: two requests, two sessions or none, two operations, private, shared and uncacheable policies, each kind of cache: `PrivateStaysPrivate`, `HitsAreFresh`. Data source: two GETs and a POST of one data source, and a GET of another with a time to live of its own, over Redis: `OneFetchBetweenWrites`, `AnswersAreFresh` |
| `rest_writes` | | must be violated: section 4 |
| `answers` | 3,207,000 | Each method, path, kind of payload and integration; single operations and batches of two and three; the first operation has three fields, one non-null, one below another, with directives and dynamic hints; other operations, and the first one's pipeline, may end in errors only: `AnswersAreWhole` |
| `registry` | 174,000 | Two signatures, manifests with and without malformed entries, published three times, answers of another content type, every option and answer of the predicate: `StoreFollowsManifest`, `RegisteredAreServed`; liveness `ManifestArrives` |
| `reports` | 112,000 | Every message type with each field unset, set, null or at the ends of its range, read by a reader that lacks any one field: `MessagesSurvive`. Five traces of two operations and two clients in every order: `TracesAreFiled`, `TracesAreCountedOnce`, `ErrorsAreAtTheirPlace`, `EstimateFitsContent`, `FirstOfItsKindIsATrace` |

Invariants that are theorems of section 5 and have no run of their own any more:
`TypeOK` of the life cycle, the schema manager, the pipeline, the drain plugin, the
execution, the response cache, the data source, the registry and usage reporting;
`StopCallsAgree`, `HooksRunOnce`; `SchemaMovesForward`; `HashNamesItsQuery`; `IdleSocketsAreEnded`;
`TracesUnderTheirSchema` (a conjunct of `EveryTraceInOneReport`).

### Why the bounds are enough

- Life cycle: the code treats hooks of one kind alike and compares callers with
  nobody, so what can go wrong takes two: a hook that rejects and one that runs
  on, a call that leads and one that waits, a signal that is handled and one
  that follows. Operations do not see each other, so one is enough. The safety
  properties are proved for any sets (section 5).
- Schema manager and reporting: versions come at any point of the start, the run
  and the stop; three of them let one come before and one after any given step, with
  a broken one between. A server with a gateway that is too old starts only without
  listeners, hence a set of listeners chosen at first. A reporter can be replaced
  while its report is in flight, twice. Also proved for any number.
- Pipeline: two requests on one hash, two schemas, two queries (one that the second
  schema drops, one that does not parse). Requests meet in the caches only, and an entry
  is written by one and read by another. A query that only the second schema accepts
  would take the first one's paths the other way round. Safety is proved for any
  numbers.
- Stopper: sockets are independent but for the sweep and the close callback; two
  of them can be idle and busy at once, and two requests make an answer that is
  not the last. Safety is proved for any number.
- Usage reporting: three traces fill a report of two and leave one over; two
  schemas alternate in the one-element cache; two attempts have a retry and a
  last one. Also proved for any numbers.
- Execution: the shortest operation in which everything meets. A field of a list
  item below a composite field, and a leaf below that; two items, so that one fails while
  the other goes on; one non-null path at the root and others inside the list, so that an error ends the operation, or a part
  of it, while others run; a type and a field that both have directives; one field
  that inherits its parent's age. Proved for every operation.
- Response cache: a leak takes one request that writes and one that reads; time
  has to pass the longest policy (1 second) only. Proved for any numbers.
- Data source: two GETs and a write of one data source, in any order, so that the write
  comes before, between or after them, with their fetches in flight or done; a GET of
  another data source meets them in the cache. The clock takes one step, as long as the
  age that an origin gives. Proved for any
  numbers and every kind of cache.
- Answers: operations of a batch meet in the shared status and headers; the
  malformed one may be first, last or alone. An execution can be whole, lose a field or
  lose everything, cacheable or not, or never begin. Proved for any batches and any operation.
- Registry: three manifests are enough for a failed update between two others;
  liveness speaks of the last one. Safety is proved for any number.
- Reports: five traces have every pair that the code tells apart: same and
  other operation, client, bucket of time, error. Histograms of six buckets have
  runs of empty ones at the start, inside and at the end. The widths of integers are
  32 and 64 in place of 2^32 and 2^64: the model's values at the ends of the
  ranges are theirs.

### Fairness

- `ServerLifecycle!Fairness`: Node runs a continuation whose promise has settled,
  and code that was called settles (hooks, the gateway, the context function,
  execution). Nobody has to start or stop the server, or to send a request. The
  hooks' part is a condition on plugins, without which `stop()` cannot end.
- `RequestPipeline!FairSpec`: the same for the hooks and caches of each request.
  Schema updates, cache writes and evictions are not fair.
- `Stopper!NodeFairness`: timers and immediates run, and `server.close` calls back,
  though requests come again and again (hence strong fairness: an event between
  the listeners of a request disables them for a moment); a TLS handshake ends.
  Nothing is assumed of clients. `HttpStopReturns` has its assumption, `Polite`,
  in the property: handlers answer, a client closes a socket that we ended, and
  no client pipelines for ever, which is what a stop without a deadline relies on.
- `UsageReporting!FairSpec`: the timer fires while it is set; compression and
  posts end. The `setImmediate` of a trace is not assumed to run: the property
  speaks of traces that were added.
- `SchemaReporting!ReportingFairness`: timers fire, a report ends somehow, and one
  that is sent again and again is answered well some time (strong fairness).
- `OperationRegistry!Fairness`: the interval fires; requests for the secret and the
  manifest that are tried again and again succeed some time. Without that no
  retry can be shown to matter.

## 4. Disagreements

Two of them are runs that TLC must find violated, listed under "findings".

1. **Parallel stops** (`lifecycle_parallel_stop`, `ApolloServer.ts:754`). `stop()`
   resolves the barrier of the draining and stopping phases in its `catch` only.
   When the shutdown succeeds, a call that was made meanwhile waits for ever,
   although the comment at line 701 says it waits for the other one and does
   whatever it did. For the same reason a signal that comes while `stop()` is
   called by the user does not end the process, which is the case that
   `SignalEndsProcess` leaves out.
2. **Writes answered from the cache** (`rest_writes`, `HTTPCache.ts:62`). The method of
   a request is compared after the entry's own time to live: a POST to an address
   whose GET was cached with an override is answered with the GET's response and
   never sent. The comment at line 119 says that without an override only GETs are
   cached.

Others were met while modelling. The models follow the code, so their behaviours are
in the state spaces, and the properties are stated so as not to claim the opposite.

- `ApolloServer.ts:681`: a custom `documentStore` is used with every schema, so
  documents that an older schema accepted are executed against a newer one without
  validation, which the comment at line 673 says the default avoids. Theorem
  `ValidOperations` and run `pipeline` assume there is none.
- `ApolloServer.ts:903`: an operation that passed `_ensureStarted` and awaits its
  context function executes after the drain; `docs/source/api/apollo-server.mdx:600`
  says that it will not. `OperationsAfterStart` is about the start.
- `requestPipeline.ts:437`: when `formatResponse` throws, errors that were reported
  are not followed by `willSendResponse` (comment at 518). `ErrorsAreAnswered` has
  the exception.
- `requestPipeline.ts:202`: most hooks reject without `didEncounterErrors`, in
  spite of `docs/source/integrations/plugins.md:114`.
- `stoppable.ts:86`: a TLS connection whose handshake ends after the sweep is in no
  sweep, and an idle client keeps `stop()` waiting in spite of the grace period
  (`docs/source/api/plugin/drain-http-server.mdx:23`). `HttpStopReturns` is about http.
- `runHttpQuery.ts:309`: the headers of the operations of a batch are set one after
  the other, the last one wins: a batch is called cacheable when one of its
  responses is. `docs/source/performance/caching.md:337` reads otherwise.
  `AnswersAreWhole` claims the weaker fact.
- `agent.ts:278`: what a failed update has stored is not removed by later ones,
  because they compare with the last list: it stays permitted (`leftovers`).
- `cache.ts:46`: the agent's HTTP cache keeps a 200 before the agent looks at it. When
  it refuses the response, for its content type or a malformed entry, the next checks
  are answered with 304, and the manifest is not read before it changes.
  `ManifestArrives` has the exception.
- `traceTreeBuilder.ts`: graphql-js may begin resolvers after the operation's outcome
  is known. `willResolveField` then throws, into a field that nobody reads.
- `traceTreeBuilder.ts:119`: errors located at list items have no node and are put at
  the root of the trace, as the code means to; `TraceFollowsExecution` says so.
- `schemaInstrumentation.ts:138`: a resolver's list of promises ends with the first
  that breaks, when others of its items, and the fields below them, still go on.
- `usageReporting/plugin.ts:549`: a trace whose `setImmediate` comes after
  `serverWillStop` stays in a report that nobody sends.
- `usageReporting/plugin.ts:658`: `serverWillStop` awaits the reports it takes, not
  those that the timer or a big report sent before and are still on their way.

## 5. The proofs

TLAPS checks the theorems below for all values of the constants that satisfy the
named assumptions of the modules. Every proof has the same shape: an inductive
invariant, `Init => IInv`, `IInv /\ [Next]_vars => IInv'` with one step per action,
`IInv => Inv`, and a temporal step.

**ServerLifecycleProofs** (from `LifecycleAssumption`): `TypeCorrect`, `Agreement`,
`Stages`, `CleanStop`, `GatedOperations`, `HooksOnce`, `NoKill`, `Implementation`.
`StopCallsAgree` and the others are not inductive by themselves: that a call does
not throw a wrong error, for one, depends on what `rejection` may hold in each
phase, and that only one call leads depends on the phase it changed. The invariant
ties the phase to `boot`, to the hooks (none runs before its stage; all are done when
the next begins, or one rejected), to the calls (one leads exactly while the
phase is draining or stopping) and to the listeners. `Implementation` maps each
action to a step of `StopContract` or a stutter, and uses the same invariant to
know that the leader's answer is the verdict.

**SchemaProofs** (from `SchemaAssumption`): `TypeCorrect`, `Newest`, `NothingMissed`,
`Forward`, `Quiet` are about the manager. The invariant says, for each part of the
start, what `current` is in terms of `published`: nothing yet, or the newest
schema that is not broken; what `load()` returned is at most `published` and
everything newer was heard of through an event.
`ManagerUndisturbed`, `ReportingTypeCorrect`, `OneSchema` (from `ReportingAssumption`)
are about the manager with the schema reporting plugin. The composition refines the
manager, so that its theorems hold here, and its invariant can be used: lemma
`Hearing` draws from it that whatever the plugin is told next is newer than all it
was told before, and that it is told nothing after the stop. `ReporterInv` and
`CurrentInv` add that every reporter but the current one was stopped, and that a
report in flight is of one of these.

**StopperProofs** (from `StopperAssumption`): `TypeCorrect`, `Graceful`,
`IdleEnded`, `Empty`. `GracefulStopCutsNothing` speaks of the requests that run,
the code decides by the requests it counted: the invariant `CountInv` says that
they are the same for every socket, but for the one whose `request` event is
between its two listeners, and that exactly the open connections are tracked.
`StopInv` says what `stop()` has done at each of its steps.

**RequestPipelineProofs** (from `PipelineAssumption`): `TypeCorrect`,
`ValidOperations`, `HashNames`, `Registers`, `Ends`, `Answered`, `Last`.
`ValidOperations` has the assumption that no custom store is configured, without which
it is false (section 4). An operation found in a store is executed unchecked, so the
invariant speaks of three things at once: `RequestInv`, what is known of a request at
each point it can have come to (its source is the query of its key, its document is its
source, and once approved is valid for its schema; which hooks were called so far, and
that after a report of errors the only way on is to `willSendResponse`, unless one of
the hooks between rejects); `DocumentsInv`, that a schema's store, and every write on
its way there, holds under a hash its query and only if that is valid for the schema;
`PersistedInv`, the same of the persisted queries and those accepted. Most steps of a
request leave the caches alone and all leave the other requests alone: `StepMoves`
and `OnlyMovesInv` say so once, and each action's lemma shows what it disturbs.

**UsageReportingProofs** (from `ReportingAssumption`): `TypeCorrect`,
`UnderTheirSchema`, `InOneReport`, `FinalReports`. `PlaceInv` says where a trace is
and how often it can have been received by then (at most the tries of its job);
`StopInv` that what was in reports when the server stopped is in jobs that the
stop awaits. `TakeInv` is the one lemma about `sendReport()` taking reports, cited
by its three callers.

The contents of a report (from `StatsAssumption` and `TreeAssumption`): `FiledOnce`,
`FirstOfItsKind`, `DurationsCountOnce`, `HistogramIsReadBack`, `CountsOnce`,
`ErrorsAtTheirPlace`, `EstimateFits`, for any traces, trees and plans, in any order.
The argument has four layers.

- *Where a trace goes.* `StatsInv`: what is filed under a key is what the report got,
  the entry of a new key being empty because no trace of the report has it; a trace is
  appended once because only one that was not added is. What `seen` remembers was
  reported as a trace (`SeenInv`): evictions only forget, so the cache may send a trace
  too many and never one too few.
- *Induction and recursion.* The code loops and recurs; the library's theorems on
  that take operators, which the provers cannot instantiate. Both are had for
  numbers from what takes sets and functions only: `UpTo` is induction up to a number for
  a set of numbers, from the well-foundedness of `<`. `RecursiveFunction`: if each value
  of a function depends on its values at smaller numbers only (`LooksDown`), there
  is such a function, built up from its beginnings. From `UpTo` come the unfoldings of
  the loops (`WalkedStep`, `WrittenStep`, `ExpandedStep`), from `RecursiveFunction`
  those of the trees and plans (`NodeVisitsStep`, `PlanVisitsStep`), the type of a
  flattened sequence, and `VisitsAreWalks`: every walk is a sequence of nodes with
  paths of names.
- *One step.* Counting is adding one element to a set: `SumOf` of a histogram
  grows by one (`DurationsCountOnce` says where), `AddErrorsStep` and the lemmas on
  fields show that a node's errors and resolver are counted at its path and field, for
  the visits so far (`PathsFit`, `FieldsFit`), and that the size grew by exactly the new
  pieces. `ReadStep` says what a reader makes of each number that is written, so
  `HistogramIsReadBack`.
- *The report.* `ContentInv`: the statistics of each key and client `FitsTraces`, the
  set of traces counted there. It is stronger than the properties in that sets are
  finite, histograms are histograms and each bucket has its own
  traces, none of which the counts alone would keep; and it needs `StatsInv`, because a
  trace that is added again, or one filed elsewhere, would be counted twice. `SizeInv`:
  the estimate is the size of the pieces; it needs `ContentInv` to know that a client who
  is not there has no pieces, and that those of the others stay.

**AnswerProofs**, from the execution to the HTTP answer. `Execution` (from
`ExecutionAssumption`, `PolicyAssumption`): `TypeCorrect`, `HeaderSafety`, `TraceSafety`,
`HeaderMeansData`. `HeaderCoversResponse` compares the header with the policies of all
fields, the code restricts one policy whenever a field settles: `PolicyInv` says that
the policy of the operation is at most that of each settled field, and not stricter
than all of them, in every order of settling; `FieldInv` that no field
below one that is not done has begun, and that a response without errors has every
field done, which is what makes the settled fields all fields. `NodeInv` says which
paths have nodes in terms of which fields began: an item has one when a field below it
began, so never when the item itself failed, which is why its error is at the root. The order of fields is that of
prefixes, so the proofs need no induction over the tree: without an error nothing was
nulled, and the outcome is known only when all fields are done (`CleanOutcome`).
`HttpQuery` (from `AnswersAssumption`): `HttpInv` has one clause per place in the
handler; while operations run (`Begun`, `StatusFits`) the shared status is that of the
operations done so far. The two together: `Composed`, a behaviour of `Answers` is one
of `Execution` and one of `HttpQuery`, so that both invariants hold in it;
`WholeAnswers`, for which `SentInv` says that the first operation counts as cacheable
only if its execution was sent, without errors and with a header. `HeaderMeansData` and `HeaderSafety` then
say what that header is.

**CachingProofs** (from `PolicyAssumption`, `ResponseCacheAssumption` and
`CachingAssumption`, which is `RestAssumption` of the instance `Rest`).
`RestrictInAnyOrder`, `RestrictTightens` say why resolvers may settle in any order.
The response cache: `TypeCorrect`, `Private`, `Fresh`. The invariant is
`Fit(key, value)`: what is stored under a key, or on its way there, is cacheable, has
the key's operation, and belongs to the key's session exactly if it is private. A
request's own key is tied to who sent it, and so a lookup finds what the request may
have. The data source: `RestTypeCorrect`, `OneFetch`, `FreshAnswers`. For `OneFetch`
the invariant `MemoInv` says that a data source without a promise in its memo has been
written to since it last fetched; so the next GET shares the promise or has that write
before it, and a GET after a write never shares a promise from before it.
For `FreshAnswers`, `FreshInv` says that the entry in the store, and each value on its
way there, is confirmed: the origin gave or validated its version at the time from which
its age counts, so a lookup, however much later, measures the right age. A validation
that answers 304 confirms the version it was asked about.

**OperationRegistryProofs** (from `RegistryAssumption`): `TypeCorrect`,
`StoreFollows`, `Served`. The store is the last list and what failed
updates left, which have nothing in common, and both were published: what is in the
list is never refused, and what is let in for being in the store was in some manifest.

Only model-checked:

- the liveness properties, all under fairness, which the prover does not treat;
- `MessagesSurvive` of `ReportFormat`, whose operators are `RECURSIVE` as messages are: it
  is the one invariant of the runs without a theorem;
- the violations, which are single behaviours.

## 6. What is assumed

- External code is an environment: plugins' hooks, the gateway, the context
  function, graphql-js, caches, `http.Server`, sockets, the ingress. A call to
  it settles in any of its outcomes at any later time.
- `Listeners of one event run in one go` (Stopper) and `a continuation is a
  step` (all modules) are properties of Node.
- Data is abstract: schemas are versions, queries and traces are names, errors
  carry only who caused them. Formatting of errors, HTTP headers but
  `Cache-Control` and `Age`, logging and metrics are left out.
- Request pipeline: hooks of all plugins settle together, as `Promise.all` does for
  the caller; the rejections that no code awaits (a parse end hook, `Dispatcher`'s
  other hooks) are Node's business.
- Body parsers, routers and platforms (`HttpQuery`) are taken from how the handlers
  use them: they parse JSON, reject what is none, and leave an empty object for a
  missing body where the handler relies on it. Plugins do not set the status themselves.
- A report's size is its number of traces in `UsageReporting`, and its bytes, for
  strings of one length, in `UsageStats`. Its trees and plans have no cycles, which
  their nodes' numbers express: the tree builder hangs each new node below an older one,
  and plans come from the gateway as trees.

## 7. Not modelled

- Server life cycle: the configuration in the constructor (mocks, type definitions,
  implicit plugins), the landing page's markup, `renderLandingPage`. They run once,
  before anything concurrent does.
- Hook dispatcher: the order among several plugins and a hook that runs on when
  another rejected; the pipeline sees one outcome per event.
- Usage reporting: which variables, headers and client names a trace shows, and the
  cache of signatures, a memo of a pure function. Inline trace: its text.
- HTTP/2 sessions in the drain plugin, which does not treat them apart; cross-origin
  headers, uploads and the registration of routes in the integrations; `listen()` of
  the standalone server beyond its routes.
- Eviction order of the LRU cache and the batches of the redis loader: both are
  libraries'. URLs, bodies and hooks of subclasses of `RESTDataSource`.
- `fromObject` and the delimited variants of `protobuf.js`, which the server does
  not call.
- Landing pages, configuration, schema hash, types: static or pure. The test suites
  and the plugin test harness are no part of the program.

## 8. What could come next

1. `Dispatcher` with several plugins, composed with `RequestPipeline`.
2. `ServerLifecycle` with `Stopper` as its drain hook and `UsageReporting` as its
   stop hook: the last report is out before the process ends.
3. An abstract request flow refined by `RequestPipeline`; an abstract store of
   confirmed versions refined by `RestDataSource`.
4. `ReportFormat` with its messages numbered as `UsageStats` numbers its nodes, so that
   `RecursiveFunction` applies and `MessagesSurvive` can be proved.

--------------------------- MODULE RequestPipeline ---------------------------
(***************************************************************************)
(* processGraphQLRequest(): what becomes of the requests of a server whose *)
(* schema is updated while they are processed, and of the two caches they  *)
(* share: the persisted queries, and the documents that were parsed and    *)
(* validated.                                                              *)
(*                                                                         *)
(* A step is the code between two awaits.  pc is the hook, or the answer   *)
(* of a cache, that a request awaits.  A query stands for its hash as      *)
(* well; a document is the query it was parsed from.                       *)
(***************************************************************************)
EXTENDS Integers

CONSTANTS
  Requests,
  Queries,
  Syntactic,    \* the queries that parse
  MaxVersion,   \* bound: the schemas a gateway brings
  Valid,        \* Valid[v]: the queries that validate against schema v
  Rejecting,    \* Rejecting[r]: the awaited points (and formatResponse) where a
                \* request may meet a rejection
  StoreModes,   \* the documentStore configurations considered:
                \*   "perSchema"  the default, a store made with each schema
                \*   "custom"     the user's store
                \*   "off"        documentStore: null
  ApqModes      \* persistedQueries: "on", "off"

Versions == 1..MaxVersion
NoQuery == "noQuery"
Shared == 0     \* the user's store; the others are known by their schema
Stores == {Shared} \cup Versions

ASSUME PipelineAssumption ==
  /\ NoQuery \notin Queries
  /\ MaxVersion \in Nat \ {0}
  /\ Valid \in [Versions -> SUBSET Syntactic]
  /\ Syntactic \subseteq Queries
  /\ StoreModes \subseteq {"perSchema", "custom", "off"}
  /\ ApqModes \subseteq {"on", "off"}

PluginHooks == {"requestDidStart", "didResolveSource", "parsingDidStart",
                "validationDidStart", "didResolveOperation",
                "responseForOperation", "executionDidStart", "executionDidEnd",
                "didEncounterErrors", "willSendResponse"}

\* An end hook of a step that failed is awaited at a point of its own:
\* "syntaxError", "invalid", "resultErrors", "executionError".
HasSource == {"didResolveSource", "storeGet", "parsingDidStart", "syntaxError"}
HasDocument == {"validationDidStart", "validationDidEnd", "invalid",
                "didResolveOperation", "responseForOperation",
                "executionDidStart", "executing", "resultErrors",
                "executionDidEnd", "executionError"}
Ended == {"answered", "threw"}
Points == {"new", "requestDidStart", "dataSources", "apqGet",
           "didEncounterErrors", "willSendResponse"}
          \cup HasSource \cup HasDocument \cup Ended

\* The points where a rejection makes processGraphQLRequest reject.
Unguarded == Points \ ({"new", "storeGet", "didResolveOperation", "executing",
                        "resultErrors", "executionDidEnd"} \cup Ended)

VARIABLES
  store,        \* config.documentStore, one of StoreModes
  apq,          \* config.persistedQueries, one of ApqModes
  version,      \* the schema the server serves now
  pc,
  schema,       \* config.schema: the version a request is processed with
  asked,        \* request.query
  hash,         \* request.extensions.persistedQuery.sha256Hash
  source,       \* requestContext.source
  document,     \* requestContext.document
  persisted,    \* the persisted query cache: the query kept under a hash
  documents,    \* the document kept in a store under a hash
  persisting,   \* the writes to persisted that nobody awaits
  storing,      \* the writes to documents that nobody awaits
  called,       \* history: the plugin hooks called for each request
  accepted      \* history: the queries no didResolveOperation objected to

config == <<store, apq>>
input == <<schema, asked, hash>>
caches == <<persisted, documents, persisting, storing>>
vars == <<config, version, pc, input, source, document, caches, called, accepted>>

\* With the fields that the types of the request contexts require.
TypeOK ==
  /\ store \in StoreModes /\ apq \in ApqModes
  /\ version \in Versions
  /\ pc \in [Requests -> Points]
  /\ schema \in [Requests -> Versions]
  /\ asked \in [Requests -> Queries \cup {NoQuery}]
  /\ hash \in [Requests -> Queries \cup {NoQuery}]
  /\ source \in [Requests -> Queries \cup {NoQuery}]
  /\ document \in [Requests -> Queries \cup {NoQuery}]
  /\ persisted \in [Queries -> Queries \cup {NoQuery}]
  /\ documents \in [Stores -> [Queries -> Queries \cup {NoQuery}]]
  /\ persisting \subseteq Queries \X Queries
  /\ storing \subseteq Stores \X Queries \X Queries
  /\ called \in [Requests -> SUBSET PluginHooks]
  /\ accepted \subseteq Queries
  /\ \A r \in Requests :
       /\ pc[r] \in HasSource \cup HasDocument => source[r] # NoQuery
       /\ pc[r] \in HasDocument => document[r] # NoQuery

Init ==
  /\ store \in StoreModes /\ apq \in ApqModes
  /\ version = 1
  /\ pc = [r \in Requests |-> "new"]
  /\ schema = [r \in Requests |-> 1]
  /\ asked = [r \in Requests |-> NoQuery]
  /\ hash = [r \in Requests |-> NoQuery]
  /\ source = [r \in Requests |-> NoQuery]
  /\ document = [r \in Requests |-> NoQuery]
  /\ persisted = [q \in Queries |-> NoQuery]
  /\ documents = [s \in Stores |-> [q \in Queries |-> NoQuery]]
  /\ persisting = {} /\ storing = {}
  /\ called = [r \in Requests |-> {}]
  /\ accepted = {}

-----------------------------------------------------------------------------
\* Request r goes on to await at; it has called the hook of the plugins.
Await(r, at) == pc' = [pc EXCEPT ![r] = at]
CallAt(r, hook, at) ==
  Await(r, at) /\ called' = [called EXCEPT ![r] = @ \cup {hook}]
Call(r, hook) == CallAt(r, hook, hook)

\* sendErrorResponse() starts.
Fail(r) == Call(r, "didEncounterErrors")

\* queryHash
KeyOf(r) == IF hash[r] # NoQuery THEN hash[r] ELSE asked[r]

\* Wrong on purpose: one store for all schemas.
StoreOfServer(r) == Shared

\* config.documentStore was chosen with config.schema.
StoreOf(r) == IF store = "custom" THEN Shared ELSE schema[r]

\* A request comes, is given the options of the schema served now, and
\* requestDidStart is called.
Arrive(r) ==
  /\ pc[r] = "new"
  /\ schema' = [schema EXCEPT ![r] = version]
  /\ \E q \in Queries \cup {NoQuery} : asked' = [asked EXCEPT ![r] = q]
  /\ \E h \in Queries \cup {NoQuery} : hash' = [hash EXCEPT ![r] = h]
  /\ Call(r, "requestDidStart")
  /\ UNCHANGED <<config, version, source, document, caches, accepted>>

ListenersReady(r) ==
  /\ pc[r] = "requestDidStart"
  /\ Await(r, "dataSources")
  /\ UNCHANGED <<config, version, input, source, document, caches, called, accepted>>

-----------------------------------------------------------------------------
\* Persisted queries are not supported, or the hash is not the query's, or
\* there is neither.
Malformed(r) ==
  \/ hash[r] # NoQuery /\ apq = "off"
  \/ hash[r] # NoQuery /\ asked[r] # NoQuery /\ hash[r] # asked[r]
  \/ hash[r] = NoQuery /\ asked[r] = NoQuery

RefuseRequest(r) ==
  /\ pc[r] = "dataSources" /\ Malformed(r)
  /\ Fail(r)
  /\ UNCHANGED <<config, version, input, source, document, caches, accepted>>

\* Wrong on purpose: a query is registered before the plugins had their say.
UseQueryAndRegister(r) ==
  /\ pc[r] = "dataSources" /\ ~Malformed(r) /\ asked[r] # NoQuery
  /\ source' = [source EXCEPT ![r] = asked[r]]
  /\ Call(r, "didResolveSource")
  /\ persisting' = IF hash[r] # NoQuery
                   THEN persisting \cup {<<hash[r], asked[r]>>} ELSE persisting
  /\ UNCHANGED <<config, version, input, document, persisted, documents, storing,
                 accepted>>

UseQuery(r) ==
  /\ pc[r] = "dataSources" /\ ~Malformed(r) /\ asked[r] # NoQuery
  /\ source' = [source EXCEPT ![r] = asked[r]]
  /\ Call(r, "didResolveSource")
  /\ UNCHANGED <<config, version, input, document, caches, accepted>>

LookUpPersisted(r) ==
  /\ pc[r] = "dataSources" /\ ~Malformed(r) /\ asked[r] = NoQuery
  /\ Await(r, "apqGet")
  /\ UNCHANGED <<config, version, input, source, document, caches, called, accepted>>

PersistedFound(r) ==
  /\ pc[r] = "apqGet" /\ persisted[hash[r]] # NoQuery
  /\ source' = [source EXCEPT ![r] = persisted[hash[r]]]
  /\ Call(r, "didResolveSource")
  /\ UNCHANGED <<config, version, input, document, caches, accepted>>

PersistedNotFound(r) ==
  /\ pc[r] = "apqGet" /\ persisted[hash[r]] = NoQuery
  /\ Fail(r)
  /\ UNCHANGED <<config, version, input, source, document, caches, accepted>>

-----------------------------------------------------------------------------
SourceResolved(r) ==
  /\ pc[r] = "didResolveSource"
  /\ IF store = "off"
     THEN Call(r, "parsingDidStart")
     ELSE Await(r, "storeGet") /\ UNCHANGED called
  /\ UNCHANGED <<config, version, input, source, document, caches, accepted>>

\* A stored document is neither parsed nor validated.
DocumentFound(r) ==
  /\ pc[r] = "storeGet"
  /\ documents[StoreOf(r)][KeyOf(r)] # NoQuery
  /\ document' = [document EXCEPT ![r] = documents[StoreOf(r)][KeyOf(r)]]
  /\ Call(r, "didResolveOperation")
  /\ UNCHANGED <<config, version, input, source, caches, accepted>>

\* Nothing is stored, or the store rejects, which is logged.
DocumentNotFound(r) ==
  /\ pc[r] = "storeGet"
  /\ documents[StoreOf(r)][KeyOf(r)] = NoQuery \/ "storeGet" \in Rejecting[r]
  /\ Call(r, "parsingDidStart")
  /\ UNCHANGED <<config, version, input, source, document, caches, accepted>>

Parse(r) ==
  /\ pc[r] = "parsingDidStart"
  /\ IF source[r] \in Syntactic
     THEN /\ document' = [document EXCEPT ![r] = source[r]]
          /\ Call(r, "validationDidStart")
     ELSE Await(r, "syntaxError") /\ UNCHANGED <<document, called>>
  /\ UNCHANGED <<config, version, input, source, caches, accepted>>

Validate(r) ==
  /\ pc[r] = "validationDidStart"
  /\ Await(r, IF document[r] \in Valid[schema[r]] THEN "validationDidEnd"
              ELSE "invalid")
  /\ UNCHANGED <<config, version, input, source, document, caches, called, accepted>>

\* The document is valid: it is stored, which nobody awaits.
Validated(r) ==
  /\ pc[r] = "validationDidEnd"
  /\ storing' = IF store = "off" THEN storing
                ELSE storing \cup {<<StoreOf(r), KeyOf(r), document[r]>>}
  /\ Call(r, "didResolveOperation")
  /\ UNCHANGED <<config, version, input, source, document, persisted, documents,
                 persisting, accepted>>

\* The end hook of a parse or a validation that failed is through.
RefuseDocument(r) ==
  /\ pc[r] \in {"syntaxError", "invalid"}
  /\ Fail(r)
  /\ UNCHANGED <<config, version, input, source, document, caches, accepted>>

\* No plugin objects: a query that came with its hash is registered, which
\* nobody awaits.
OperationResolved(r) ==
  /\ pc[r] = "didResolveOperation"
  /\ accepted' = accepted \cup {document[r]}
  /\ persisting' = IF hash[r] # NoQuery /\ asked[r] # NoQuery
                   THEN persisting \cup {<<hash[r], source[r]>>} ELSE persisting
  /\ Call(r, "responseForOperation")
  /\ UNCHANGED <<config, version, input, source, document, persisted, documents,
                 storing>>

OperationRejected(r) ==
  /\ pc[r] = "didResolveOperation" /\ "didResolveOperation" \in Rejecting[r]
  /\ Fail(r)
  /\ UNCHANGED <<config, version, input, source, document, caches, accepted>>

-----------------------------------------------------------------------------
\* formatResponse, then sendResponse().
Respond(r) ==
  \/ Call(r, "willSendResponse")
  \/ "formatResponse" \in Rejecting[r] /\ Await(r, "threw") /\ UNCHANGED called

ResponseProvided(r) ==
  /\ pc[r] = "responseForOperation"
  /\ Respond(r)
  /\ UNCHANGED <<config, version, input, source, document, caches, accepted>>

StartExecution(r) ==
  /\ pc[r] = "responseForOperation"
  /\ Call(r, "executionDidStart")
  /\ UNCHANGED <<config, version, input, source, document, caches, accepted>>

Execute(r) ==
  /\ pc[r] = "executionDidStart"
  /\ Await(r, "executing")
  /\ UNCHANGED <<config, version, input, source, document, caches, called, accepted>>

\* Wrong on purpose: an execution that throws is not ended.
ExecutionSettlesUnended(r) ==
  /\ pc[r] = "executing"
  /\ \/ Call(r, "executionDidEnd")
     \/ CallAt(r, "didEncounterErrors", "resultErrors")
     \/ Fail(r)
  /\ UNCHANGED <<config, version, input, source, document, caches, accepted>>

\* Execution returns data, or errors as well, or throws.
ExecutionSettles(r) ==
  /\ pc[r] = "executing"
  /\ \/ Call(r, "executionDidEnd")
     \/ CallAt(r, "didEncounterErrors", "resultErrors")
     \/ CallAt(r, "executionDidEnd", "executionError")
  /\ UNCHANGED <<config, version, input, source, document, caches, accepted>>

ResultErrorsReported(r) ==
  /\ pc[r] = "resultErrors"
  /\ Call(r, "executionDidEnd")
  /\ UNCHANGED <<config, version, input, source, document, caches, accepted>>

\* A hook that rejects there is caught like an execution that throws.
ExecutionHookRejects(r) ==
  /\ pc[r] \in {"resultErrors", "executionDidEnd"} \cap Rejecting[r]
  /\ CallAt(r, "executionDidEnd", "executionError")
  /\ UNCHANGED <<config, version, input, source, document, caches, accepted>>

ExecutionErrorReported(r) ==
  /\ pc[r] = "executionError"
  /\ Fail(r)
  /\ UNCHANGED <<config, version, input, source, document, caches, accepted>>

ExecutionEnded(r) ==
  /\ pc[r] = "executionDidEnd"
  /\ Respond(r)
  /\ UNCHANGED <<config, version, input, source, document, caches, accepted>>

\* Wrong on purpose: the error is thrown to the HTTP layer.
SendErrorsUp(r) ==
  /\ pc[r] = "didEncounterErrors"
  /\ Await(r, "threw")
  /\ UNCHANGED <<config, version, input, source, document, caches, called, accepted>>

\* A formatError that throws is caught: the response is sent in any case.
SendErrors(r) ==
  /\ pc[r] = "didEncounterErrors"
  /\ Call(r, "willSendResponse")
  /\ UNCHANGED <<config, version, input, source, document, caches, accepted>>

Answer(r) ==
  /\ pc[r] = "willSendResponse"
  /\ Await(r, "answered")
  /\ UNCHANGED <<config, version, input, source, document, caches, called, accepted>>

\* Wrong on purpose: a willSendResponse that rejects is answered like an error.
ThrowAnswered(r) ==
  /\ pc[r] \in Unguarded \cap Rejecting[r]
  /\ IF pc[r] = "willSendResponse" THEN Fail(r)
     ELSE Await(r, "threw") /\ UNCHANGED called
  /\ UNCHANGED <<config, version, input, source, document, caches, accepted>>

Throw(r) ==
  /\ pc[r] \in Unguarded \cap Rejecting[r]
  /\ Await(r, "threw")
  /\ UNCHANGED <<config, version, input, source, document, caches, called, accepted>>

-----------------------------------------------------------------------------
\* The gateway brings a schema, for the requests that come from now on.
UpdateSchema ==
  /\ version < MaxVersion
  /\ version' = version + 1
  /\ UNCHANGED <<config, pc, input, source, document, caches, called, accepted>>

\* A write to a cache is done, or fails, which is logged.
WriteSettles ==
  /\ \/ \E w \in persisting :
          /\ persisting' = persisting \ {w}
          /\ \/ persisted' = [persisted EXCEPT ![w[1]] = w[2]]
             \/ UNCHANGED persisted
          /\ UNCHANGED <<storing, documents>>
     \/ \E w \in storing :
          /\ storing' = storing \ {w}
          /\ \/ documents' = [documents EXCEPT ![w[1]][w[2]] = w[3]]
             \/ UNCHANGED documents
          /\ UNCHANGED <<persisting, persisted>>
  /\ UNCHANGED <<config, version, pc, input, source, document, called, accepted>>

\* A cache drops an entry.
Forget ==
  /\ \/ /\ \E q \in Queries : persisted' = [persisted EXCEPT ![q] = NoQuery]
        /\ UNCHANGED documents
     \/ /\ \E s \in Stores, q \in Queries :
             documents' = [documents EXCEPT ![s][q] = NoQuery]
        /\ UNCHANGED persisted
  /\ UNCHANGED <<config, version, pc, input, source, document, persisting, storing,
                 called, accepted>>

\* The steps of a request that has come.
Proceed(r) ==
  \/ ListenersReady(r) \/ RefuseRequest(r) \/ UseQuery(r)
  \/ LookUpPersisted(r) \/ PersistedFound(r) \/ PersistedNotFound(r)
  \/ SourceResolved(r) \/ DocumentFound(r) \/ DocumentNotFound(r)
  \/ Parse(r) \/ Validate(r) \/ Validated(r) \/ RefuseDocument(r)
  \/ OperationResolved(r) \/ OperationRejected(r)
  \/ ResponseProvided(r) \/ StartExecution(r) \/ Execute(r)
  \/ ExecutionSettles(r) \/ ResultErrorsReported(r) \/ ExecutionHookRejects(r)
  \/ ExecutionErrorReported(r) \/ ExecutionEnded(r)
  \/ SendErrors(r) \/ Answer(r) \/ Throw(r)

Next ==
  \/ \E r \in Requests : Arrive(r) \/ Proceed(r)
  \/ UpdateSchema \/ WriteSettles \/ Forget

Spec == Init /\ [][Next]_vars

\* The event loop runs what can run, and hooks, caches and execution settle.
FairSpec == Spec /\ \A r \in Requests : WF_vars(Proceed(r))

-----------------------------------------------------------------------------
\* An operation is executed only against a schema it is valid for, however
\* updates and other requests come in between.
ExecutesValidOperations ==
  \A r \in Requests :
    pc[r] \in {"executionDidStart", "executing"} =>
      document[r] \in Valid[schema[r]]

\* A hash brings about the execution of the query it is the hash of, whoever
\* registered it; and no document is mistaken for another.
HashNamesItsQuery ==
  \A r \in Requests :
    pc[r] \in {"executionDidStart", "executing"} => document[r] = KeyOf(r)

\* A plugin that objects to an operation keeps it out of the persisted queries:
\* what was ever registered had been parsed and validated, and passed
\* didResolveOperation.
RegistersAcceptedQueries ==
  /\ \A q \in Queries : persisted[q] # NoQuery => persisted[q] \in accepted
  /\ \A w \in persisting : w[2] \in accepted

\* Once willSendResponse was called, nothing else is called: a request is
\* answered once, and its response is the last thing a plugin hears of it.
ResponseIsLast ==
  [][\A r \in Requests : "willSendResponse" \in called[r] =>
       /\ called'[r] = called[r]
       /\ pc'[r] \in {pc[r]} \cup Ended]_vars

\* An execution that started is ended for the plugins before its errors are
\* reported on the way to a response, and before any response: when it
\* succeeds, when it throws, and when a hook of its own rejects.
ExecutionIsEnded ==
  \A r \in Requests :
    /\ "executionDidStart" \in called[r] /\ pc[r] # "resultErrors"
    /\ called[r] \cap {"didEncounterErrors", "willSendResponse"} # {}
    => "executionDidEnd" \in called[r]

\* All calls to didEncounterErrors are followed by calls to willSendResponse, in
\* a request where nothing rejects that is awaited after the report.
AfterReport == {"didEncounterErrors", "executionError", "formatResponse"}

ErrorsAreAnswered ==
  \A r \in Requests :
    /\ pc[r] \in Ended /\ "didEncounterErrors" \in called[r]
    /\ Rejecting[r] \cap AfterReport = {}
    => "willSendResponse" \in called[r]

\* A request ends in an answer or a rejection, whatever its hooks do.
EveryRequestEnds ==
  \A r \in Requests : pc[r] = "requestDidStart" ~> pc[r] \in Ended
=============================================================================

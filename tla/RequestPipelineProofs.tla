------------------------ MODULE RequestPipelineProofs ------------------------
(***************************************************************************)
(* Theorems of RequestPipeline, for any requests, queries and schemas, any *)
(* hooks that reject, and any number of updates.                           *)
(***************************************************************************)
EXTENDS RequestPipeline, TLAPS

\* The points of a request that has not begun to execute nor met an error.
Before == {"new", "requestDidStart", "dataSources", "apqGet", "validationDidStart",
           "validationDidEnd", "invalid", "didResolveOperation",
           "responseForOperation"} \cup HasSource
Executing == {"executionDidStart", "executing"}
Approved == {"validationDidEnd", "didResolveOperation", "responseForOperation"}
            \cup Executing

\* What is known of a request at the point it has come to.
RequestInv(r) ==
  /\ pc[r] = "apqGet" => asked[r] = NoQuery /\ hash[r] # NoQuery
  /\ pc[r] \in HasSource \cup HasDocument =>
       source[r] = KeyOf(r) /\ source[r] # NoQuery
  /\ pc[r] \in HasDocument => document[r] = source[r]
  /\ pc[r] \in Approved /\ store # "custom" => document[r] \in Valid[schema[r]]
  /\ pc[r] \in Before => "executionDidStart" \notin called[r]
  /\ pc[r] \in Before \cup Executing =>
       "didEncounterErrors" \notin called[r] /\ "willSendResponse" \notin called[r]
  /\ pc[r] \in {"executionDidEnd", "executionError"} =>
       "executionDidEnd" \in called[r]
  /\ pc[r] = "didEncounterErrors" => "didEncounterErrors" \in called[r]
  /\ "willSendResponse" \in called[r] =>
       pc[r] \in {"willSendResponse", "answered", "threw"}
  /\ /\ "executionDidStart" \in called[r] /\ pc[r] # "resultErrors"
     /\ "didEncounterErrors" \in called[r] \/ "willSendResponse" \in called[r]
     => "executionDidEnd" \in called[r]
  /\ pc[r] = "willSendResponse" => "willSendResponse" \in called[r]
  /\ /\ pc[r] \in Ended /\ "didEncounterErrors" \in called[r]
     /\ Rejecting[r] \cap AfterReport = {}
     => "willSendResponse" \in called[r]

\* What the caches hold, and what is on its way there: under a hash its query,
\* if that was accepted; in the store of a schema what is valid for it.
PersistedInv ==
  /\ \A h \in Queries : persisted[h] # NoQuery =>
       persisted[h] = h /\ h \in accepted
  /\ \A w \in persisting : w[1] = w[2] /\ w[2] \in accepted
DocumentsInv ==
  /\ \A s \in Stores, h \in Queries : documents[s][h] # NoQuery =>
       documents[s][h] = h /\ (s \in Versions => h \in Valid[s])
  /\ \A w \in storing : w[2] = w[3] /\ (w[1] \in Versions => w[3] \in Valid[w[1]])

IInv ==
  /\ TypeOK
  /\ PersistedInv
  /\ DocumentsInv
  /\ \A r \in Requests : RequestInv(r)

\* The constants that every proof may look into.
USE DEF Versions, Stores, Shared, NoQuery, Ended, AfterReport

-----------------------------------------------------------------------------
LEMMA InitInv == Init => IInv
  BY PipelineAssumption
     DEF Init, IInv, TypeOK, PersistedInv, DocumentsInv, RequestInv, KeyOf, Before,
         Executing, Approved, HasSource, HasDocument, Points, Ended

\* A request is not touched by the steps of others.
LEMMA OthersInv ==
  ASSUME NEW q \in Requests, RequestInv(q), UNCHANGED <<config, asked[q], hash[q],
           schema[q], pc[q], source[q], document[q], called[q]>>
  PROVE  RequestInv(q)'
  BY DEF RequestInv, KeyOf, config

\* Request r moves on, and may call a hook.
Moves(r) ==
  /\ \E at \in Points : pc' = [pc EXCEPT ![r] = at]
  /\ \/ UNCHANGED called
     \/ \E hook \in PluginHooks : called' = [called EXCEPT ![r] = @ \cup {hook}]

LEMMA MovesType ==
  ASSUME TypeOK, NEW r \in Requests, Moves(r)
  PROVE  /\ pc' \in [Requests -> Points]
         /\ called' \in [Requests -> SUBSET PluginHooks]
         /\ \A q \in Requests \ {r} : pc'[q] = pc[q] /\ called'[q] = called[q]
<1>1. pc' \in [Requests -> Points] /\ \A q \in Requests \ {r} : pc'[q] = pc[q]
  BY DEF TypeOK, Moves
<1>2. CASE UNCHANGED called
  BY <1>1, <1>2 DEF TypeOK
<1>3. ASSUME NEW hook \in PluginHooks, called' = [called EXCEPT ![r] = @ \cup {hook}]
      PROVE  /\ called' \in [Requests -> SUBSET PluginHooks]
             /\ \A q \in Requests \ {r} : called'[q] = called[q]
  BY <1>3 DEF TypeOK
<1>. QED
  BY <1>1, <1>2, <1>3 DEF Moves

\* Whatever a request does, it moves.
LEMMA StepMoves ==
  ASSUME NEW r \in Requests, Arrive(r) \/ Proceed(r) PROVE Moves(r)
<1>. USE DEF Moves, Points, HasSource, HasDocument, Ended, PluginHooks, Await,
         CallAt, Call, Fail, Respond
<1>1. CASE Arrive(r)
  BY <1>1 DEF Arrive
<1>2. CASE ListenersReady(r)
  BY <1>2 DEF ListenersReady
<1>3. CASE RefuseRequest(r)
  BY <1>3 DEF RefuseRequest
<1>4. CASE UseQuery(r)
  BY <1>4 DEF UseQuery
<1>5. CASE LookUpPersisted(r)
  BY <1>5 DEF LookUpPersisted
<1>6. CASE PersistedFound(r)
  BY <1>6 DEF PersistedFound
<1>7. CASE PersistedNotFound(r)
  BY <1>7 DEF PersistedNotFound
<1>8. CASE SourceResolved(r)
  BY <1>8 DEF SourceResolved
<1>9. CASE DocumentFound(r)
  BY <1>9 DEF DocumentFound
<1>10. CASE DocumentNotFound(r)
  BY <1>10 DEF DocumentNotFound
<1>11. CASE Parse(r)
  BY <1>11 DEF Parse
<1>12. CASE Validate(r)
  BY <1>12 DEF Validate
<1>13. CASE Validated(r)
  BY <1>13 DEF Validated
<1>14. CASE RefuseDocument(r)
  BY <1>14 DEF RefuseDocument
<1>15. CASE OperationResolved(r)
  BY <1>15 DEF OperationResolved
<1>16. CASE OperationRejected(r)
  BY <1>16 DEF OperationRejected
<1>17. CASE ResponseProvided(r)
  BY <1>17 DEF ResponseProvided
<1>18. CASE StartExecution(r)
  BY <1>18 DEF StartExecution
<1>19. CASE Execute(r)
  BY <1>19 DEF Execute
<1>20. CASE ExecutionSettles(r)
  BY <1>20 DEF ExecutionSettles
<1>21. CASE ResultErrorsReported(r)
  BY <1>21 DEF ResultErrorsReported
<1>22. CASE ExecutionHookRejects(r)
  BY <1>22 DEF ExecutionHookRejects
<1>23. CASE ExecutionErrorReported(r)
  BY <1>23 DEF ExecutionErrorReported
<1>24. CASE ExecutionEnded(r)
  BY <1>24 DEF ExecutionEnded
<1>25. CASE SendErrors(r)
  BY <1>25 DEF SendErrors
<1>26. CASE Answer(r)
  BY <1>26 DEF Answer
<1>27. CASE Throw(r)
  BY <1>27 DEF Throw
<1>. QED
  BY <1>1, <1>2, <1>3, <1>4, <1>5, <1>6, <1>7, <1>8, <1>9, <1>10,
     <1>11, <1>12, <1>13, <1>14, <1>15, <1>16, <1>17, <1>18, <1>19, <1>20,
     <1>21, <1>22, <1>23, <1>24, <1>25, <1>26, <1>27
     DEF Proceed

\* A step that only moves request r keeps the invariant if it keeps what is
\* known of r.
LEMMA MovesInv ==
  ASSUME IInv, NEW r \in Requests, Moves(r), RequestInv(r)',
         UNCHANGED <<config, version, input, source, document, caches, accepted>>
  PROVE  IInv'
<1>. USE DEF IInv, config, input, caches
<1>1. \A q \in Requests : RequestInv(q)'
  BY MovesType, OthersInv
<1>2. \A q \in Requests :
        /\ pc'[q] \in HasSource \cup HasDocument => source'[q] # NoQuery
        /\ pc'[q] \in HasDocument => document'[q] # NoQuery
  BY <1>1 DEF RequestInv
<1>3. TypeOK'
  BY <1>2, MovesType DEF TypeOK
<1>4. PersistedInv' /\ DocumentsInv'
  BY DEF PersistedInv, DocumentsInv
<1>. QED
  BY <1>1, <1>3, <1>4

\* The steps that do nothing but move.
OnlyMoves(r) ==
  \/ ListenersReady(r) \/ RefuseRequest(r) \/ LookUpPersisted(r)
  \/ PersistedNotFound(r) \/ SourceResolved(r) \/ DocumentNotFound(r)
  \/ Validate(r) \/ RefuseDocument(r) \/ OperationRejected(r)
  \/ ResponseProvided(r) \/ StartExecution(r) \/ Execute(r)
  \/ ExecutionSettles(r) \/ ResultErrorsReported(r)
  \/ ExecutionHookRejects(r) \/ ExecutionErrorReported(r)
  \/ ExecutionEnded(r) \/ SendErrors(r) \/ Answer(r) \/ Throw(r)

LEMMA OnlyMovesInv ==
  ASSUME IInv, NEW r \in Requests, OnlyMoves(r) PROVE IInv'
<1>1. RequestInv(r)'
  <2>. USE DEF IInv, TypeOK, RequestInv, KeyOf, Malformed, Unguarded, Before,
           Executing, Approved, Points, HasSource, HasDocument, Ended, config,
           input, Await, CallAt, Call, Fail, Respond
  <2>1. CASE ListenersReady(r)
    BY <2>1 DEF ListenersReady
  <2>2. CASE RefuseRequest(r)
    BY <2>2 DEF RefuseRequest
  <2>3. CASE LookUpPersisted(r)
    BY <2>3 DEF LookUpPersisted
  <2>4. CASE PersistedNotFound(r)
    BY <2>4 DEF PersistedNotFound
  <2>5. CASE SourceResolved(r)
    BY <2>5 DEF SourceResolved
  <2>6. CASE DocumentNotFound(r)
    BY <2>6 DEF DocumentNotFound
  <2>7. CASE Validate(r)
    BY <2>7 DEF Validate
  <2>8. CASE RefuseDocument(r)
    BY <2>8 DEF RefuseDocument
  <2>9. CASE OperationRejected(r)
    BY <2>9 DEF OperationRejected
  <2>10. CASE ResponseProvided(r)
    BY <2>10 DEF ResponseProvided
  <2>11. CASE StartExecution(r)
    BY <2>11 DEF StartExecution
  <2>12. CASE Execute(r)
    BY <2>12 DEF Execute
  <2>13. CASE ExecutionSettles(r)
    BY <2>13 DEF ExecutionSettles
  <2>14. CASE ResultErrorsReported(r)
    BY <2>14 DEF ResultErrorsReported
  <2>15. CASE ExecutionHookRejects(r)
    BY <2>15 DEF ExecutionHookRejects
  <2>16. CASE ExecutionErrorReported(r)
    BY <2>16 DEF ExecutionErrorReported
  <2>17. CASE ExecutionEnded(r)
    BY <2>17 DEF ExecutionEnded
  <2>18. CASE SendErrors(r)
    BY <2>18 DEF SendErrors
  <2>19. CASE Answer(r)
    BY <2>19 DEF Answer
  <2>20. CASE Throw(r)
    BY <2>20 DEF Throw
  <2>. QED
    BY <2>1, <2>2, <2>3, <2>4, <2>5, <2>6, <2>7, <2>8, <2>9, <2>10,
       <2>11, <2>12, <2>13, <2>14, <2>15, <2>16, <2>17, <2>18, <2>19, <2>20
       DEF OnlyMoves
<1>2. Proceed(r)
  BY DEF OnlyMoves, Proceed
<1>3. UNCHANGED <<config, version, input, source, document, caches, accepted>>
  BY DEF OnlyMoves, ListenersReady, RefuseRequest, LookUpPersisted, PersistedNotFound,
         SourceResolved, DocumentNotFound, Validate, RefuseDocument,
         OperationRejected, ResponseProvided, StartExecution, Execute,
         ExecutionSettles, ResultErrorsReported, ExecutionHookRejects, ExecutionErrorReported,
         ExecutionEnded, SendErrors, Answer, Throw
<1>. QED
  BY <1>1, <1>2, <1>3, StepMoves, MovesInv

-----------------------------------------------------------------------------
\* The steps that change more than where request r is and what was called.
LEMMA ArriveInv == ASSUME IInv, NEW r \in Requests, Arrive(r) PROVE IInv'
<1>. USE DEF IInv, Arrive, Await, CallAt, Call, config, caches
<1>1. Moves(r)
  BY StepMoves
<1>2. /\ \A q \in Requests \ {r} :
            UNCHANGED <<config, asked[q], hash[q], schema[q], pc[q], source[q],
                        document[q], called[q]>>
      /\ schema' \in [Requests -> Versions]
      /\ asked' \in [Requests -> Queries \cup {NoQuery}]
      /\ hash' \in [Requests -> Queries \cup {NoQuery}]
  BY <1>1, MovesType DEF TypeOK
<1>3. RequestInv(r)'
  BY DEF TypeOK, RequestInv, Before, Executing, Approved, HasSource, HasDocument
<1>4. \A q \in Requests : RequestInv(q)'
  BY <1>2, <1>3, OthersInv
<1>5. TypeOK'
  BY <1>1, <1>2, <1>4, MovesType DEF TypeOK, RequestInv
<1>6. PersistedInv' /\ DocumentsInv'
  BY DEF PersistedInv, DocumentsInv
<1>. QED
  BY <1>4, <1>5, <1>6

\* A step that also gives r its source or its document.
LEMMA ResolvesInv ==
  ASSUME IInv, NEW r \in Requests, Moves(r), RequestInv(r)',
         NEW q \in Queries \cup {NoQuery}, NEW d \in Queries \cup {NoQuery},
         source' = [source EXCEPT ![r] = q], document' = [document EXCEPT ![r] = d],
         UNCHANGED <<config, version, input, caches, accepted>>
  PROVE  IInv'
<1>. USE DEF IInv, config, input, caches
<1>1. /\ \A p \in Requests \ {r} : UNCHANGED <<source[p], document[p]>>
      /\ source' \in [Requests -> Queries \cup {NoQuery}]
      /\ document' \in [Requests -> Queries \cup {NoQuery}]
  BY DEF TypeOK
<1>2. \A p \in Requests : RequestInv(p)'
  BY <1>1, MovesType, OthersInv
<1>3. TypeOK'
  BY <1>1, <1>2, MovesType DEF TypeOK, RequestInv
<1>4. PersistedInv' /\ DocumentsInv'
  BY DEF PersistedInv, DocumentsInv
<1>. QED
  BY <1>2, <1>3, <1>4

LEMMA UseQueryInv == ASSUME IInv, NEW r \in Requests, UseQuery(r) PROVE IInv'
<1>. USE DEF UseQuery, Await, CallAt, Call
<1>1. Moves(r)
  BY StepMoves DEF Proceed
<1>2. document' = [document EXCEPT ![r] = document[r]]
  BY DEF IInv, TypeOK
<1>3. RequestInv(r)'
  BY DEF IInv, TypeOK, RequestInv, KeyOf, Malformed, Before, Executing, Approved,
         HasSource, HasDocument, config, input
<1>4. asked[r] \in Queries \cup {NoQuery} /\ document[r] \in Queries \cup {NoQuery}
  BY DEF IInv, TypeOK
<1>. QED
  BY <1>1, <1>2, <1>3, <1>4, ResolvesInv

LEMMA PersistedFoundInv ==
  ASSUME IInv, NEW r \in Requests, PersistedFound(r) PROVE IInv'
<1>. USE DEF PersistedFound, Await, CallAt, Call
<1>1. Moves(r)
  BY StepMoves DEF Proceed
<1>2. document' = [document EXCEPT ![r] = document[r]]
  BY DEF IInv, TypeOK
<1>3. hash[r] \in Queries /\ persisted[hash[r]] = hash[r] /\ asked[r] = NoQuery
  BY DEF IInv, TypeOK, RequestInv, PersistedInv
<1>4. RequestInv(r)'
  BY <1>3 DEF IInv, TypeOK, RequestInv, KeyOf, Before, Executing, Approved, HasSource,
              HasDocument, config, input
<1>5. persisted[hash[r]] \in Queries \cup {NoQuery}
      /\ document[r] \in Queries \cup {NoQuery}
  BY <1>3 DEF IInv, TypeOK
<1>. QED
  BY <1>1, <1>2, <1>4, <1>5, ResolvesInv

\* The key of a request with a source, and its store.
LEMMA KeyType ==
  ASSUME IInv, NEW r \in Requests, pc[r] \in HasSource \cup HasDocument
  PROVE  /\ KeyOf(r) \in Queries /\ source[r] = KeyOf(r)
         /\ StoreOf(r) \in Stores
         /\ store # "custom" => StoreOf(r) = schema[r] /\ schema[r] \in Versions
  BY DEF IInv, TypeOK, RequestInv, KeyOf, StoreOf

LEMMA DocumentFoundInv ==
  ASSUME IInv, NEW r \in Requests, DocumentFound(r) PROVE IInv'
<1>. USE DEF DocumentFound, Await, CallAt, Call
<1>1. Moves(r)
  BY StepMoves DEF Proceed
<1>2. source' = [source EXCEPT ![r] = source[r]]
  BY DEF IInv, TypeOK
<1>3. pc[r] \in HasSource \cup HasDocument
  BY DEF HasSource
<1>4. /\ documents[StoreOf(r)][KeyOf(r)] = source[r]
      /\ store # "custom" => source[r] \in Valid[schema[r]]
  BY <1>3, KeyType DEF IInv, DocumentsInv
<1>5. RequestInv(r)'
  <2>1. pc'[r] = "didResolveOperation" /\ document'[r] = source[r]
    BY <1>4 DEF IInv, TypeOK
  <2>. QED
    BY <2>1, <1>3, <1>4
       DEF IInv, TypeOK, RequestInv, KeyOf, Before, Executing, Approved, HasSource,
           HasDocument, config, input
<1>6. source[r] \in Queries \cup {NoQuery}
  BY DEF IInv, TypeOK
<1>. QED
  BY <1>1, <1>2, <1>4, <1>5, <1>6, ResolvesInv

LEMMA ParseInv == ASSUME IInv, NEW r \in Requests, Parse(r) PROVE IInv'
<1>. USE DEF Parse, Await, CallAt, Call
<1>1. Moves(r)
  BY StepMoves DEF Proceed
<1>2. source' = [source EXCEPT ![r] = source[r]]
  BY DEF IInv, TypeOK
<1>3. source[r] \in Queries \cup {NoQuery} /\ document[r] \in Queries \cup {NoQuery}
  BY DEF IInv, TypeOK
<1>4. RequestInv(r)'
  BY DEF IInv, TypeOK, RequestInv, KeyOf, Before, Executing, Approved, HasSource,
         HasDocument, config, input
<1>5. CASE source[r] \in Syntactic
  BY <1>1, <1>2, <1>3, <1>4, <1>5, ResolvesInv
<1>6. CASE source[r] \notin Syntactic
  BY <1>1, <1>4, <1>6, MovesInv
<1>. QED
  BY <1>5, <1>6

\* A step that also hands something to the caches.
LEMMA HandsOverInv ==
  ASSUME IInv, NEW r \in Requests, Moves(r), RequestInv(r)',
         PersistedInv', DocumentsInv', accepted' \subseteq Queries,
         persisting' \subseteq Queries \X Queries,
         storing' \subseteq Stores \X Queries \X Queries,
         UNCHANGED <<config, version, input, source, document, persisted, documents>>
  PROVE  IInv'
<1>. USE DEF IInv, config, input
<1>1. \A p \in Requests : RequestInv(p)'
  BY MovesType, OthersInv
<1>2. TypeOK'
  BY <1>1, MovesType DEF TypeOK, RequestInv
<1>. QED
  BY <1>1, <1>2

LEMMA ValidatedInv == ASSUME IInv, NEW r \in Requests, Validated(r) PROVE IInv'
<1>. USE DEF Validated, Await, CallAt, Call
<1>1. Moves(r)
  BY StepMoves DEF Proceed
<1>2. RequestInv(r)'
  BY DEF IInv, TypeOK, RequestInv, KeyOf, Before, Executing, Approved, HasSource,
         HasDocument, config, input
<1>3. pc[r] \in HasSource \cup HasDocument
  BY DEF HasDocument
<1>4. document[r] = KeyOf(r) /\ document[r] \in Queries
  BY <1>3, KeyType DEF IInv, RequestInv, HasDocument
<1>5. StoreOf(r) \in Versions => document[r] \in Valid[StoreOf(r)]
  BY DEF IInv, RequestInv, StoreOf, Approved
<1>6. DocumentsInv'
  BY <1>3, <1>4, <1>5, KeyType DEF IInv, DocumentsInv
<1>7. storing' \subseteq Stores \X Queries \X Queries
  BY <1>3, <1>4, KeyType DEF IInv, TypeOK
<1>. QED
  BY <1>1, <1>2, <1>6, <1>7, HandsOverInv DEF IInv, TypeOK, PersistedInv

LEMMA OperationResolvedInv ==
  ASSUME IInv, NEW r \in Requests, OperationResolved(r) PROVE IInv'
<1>. USE DEF OperationResolved, Await, CallAt, Call
<1>1. Moves(r)
  BY StepMoves DEF Proceed
<1>2. RequestInv(r)'
  BY DEF IInv, TypeOK, RequestInv, KeyOf, Before, Executing, Approved, HasSource,
         HasDocument, config, input
<1>3. pc[r] \in HasSource \cup HasDocument
  BY DEF HasDocument
<1>4. document[r] = KeyOf(r) /\ source[r] = KeyOf(r) /\ KeyOf(r) \in Queries
  BY <1>3, KeyType DEF IInv, RequestInv, HasDocument
<1>5. PersistedInv'
  BY <1>4 DEF IInv, PersistedInv, KeyOf
<1>6. accepted' \subseteq Queries /\ persisting' \subseteq Queries \X Queries
  BY <1>4 DEF IInv, TypeOK, KeyOf
<1>. QED
  BY <1>1, <1>2, <1>5, <1>6, HandsOverInv DEF IInv, TypeOK, DocumentsInv

-----------------------------------------------------------------------------
\* The steps of the caches and the gateway touch no request.
LEMMA RequestsUntouched ==
  ASSUME IInv, UNCHANGED <<config, input, pc, source, document, called>>
  PROVE  \A r \in Requests : RequestInv(r)'
<1>. TAKE r \in Requests
<1>. QED
  BY OthersInv DEF IInv, input

LEMMA UpdateSchemaInv == ASSUME IInv, UpdateSchema PROVE IInv'
<1>. USE DEF IInv, UpdateSchema, config, input, caches
<1>1. version + 1 \in Versions
  BY PipelineAssumption DEF TypeOK
<1>2. TypeOK' /\ PersistedInv' /\ DocumentsInv'
  BY <1>1 DEF TypeOK, PersistedInv, DocumentsInv
<1>. QED
  BY <1>2, RequestsUntouched

\* A store with one entry replaced.
LEMMA EntryType ==
  ASSUME NEW f \in [Queries -> Queries \cup {NoQuery}], NEW q \in Queries,
         NEW d \in Queries \cup {NoQuery}
  PROVE  [f EXCEPT ![q] = d] \in [Queries -> Queries \cup {NoQuery}]
  OBVIOUS

LEMMA WriteSettlesInv == ASSUME IInv, WriteSettles PROVE IInv'
<1>. USE DEF IInv, config, input
<1>1. \A r \in Requests : RequestInv(r)'
  BY RequestsUntouched DEF WriteSettles
<1>2. ASSUME NEW w \in persisting, persisting' = persisting \ {w},
             \/ persisted' = [persisted EXCEPT ![w[1]] = w[2]]
             \/ UNCHANGED persisted,
             UNCHANGED <<storing, documents>>
      PROVE  IInv'
  <2>1. w[1] \in Queries /\ w[2] \in Queries /\ w[1] = w[2] /\ w[2] \in accepted
    BY DEF TypeOK, PersistedInv
  <2>2. /\ persisted' \in [Queries -> Queries \cup {NoQuery}]
        /\ \A h \in Queries : persisted'[h] # NoQuery =>
             persisted'[h] = h /\ h \in accepted
    BY <1>2, <2>1 DEF TypeOK, PersistedInv
  <2>3. TypeOK'
    BY <1>2, <2>2 DEF TypeOK, WriteSettles
  <2>4. PersistedInv' /\ DocumentsInv'
    BY <1>2, <2>2 DEF PersistedInv, DocumentsInv, WriteSettles
  <2>. QED
    BY <1>1, <2>3, <2>4
<1>3. ASSUME NEW w \in storing, storing' = storing \ {w},
             \/ documents' = [documents EXCEPT ![w[1]][w[2]] = w[3]]
             \/ UNCHANGED documents,
             UNCHANGED <<persisting, persisted>>
      PROVE  IInv'
  <2>1. /\ w[1] \in Stores /\ w[2] \in Queries /\ w[3] = w[2]
        /\ w[1] \in Versions => w[2] \in Valid[w[1]]
    BY DEF TypeOK, DocumentsInv
  <2>2. /\ documents' \in [Stores -> [Queries -> Queries \cup {NoQuery}]]
        /\ \A s \in Stores, h \in Queries :
             documents'[s][h] = documents[s][h] \/ (s = w[1] /\ h = w[2]
                                                   /\ documents'[s][h] = w[2])
    <3>1. CASE documents' = [documents EXCEPT ![w[1]][w[2]] = w[3]]
      <4>1. \A s \in Stores : documents'[s] =
              IF s = w[1] THEN [documents[s] EXCEPT ![w[2]] = w[2]] ELSE documents[s]
        BY <2>1, <3>1 DEF TypeOK
      <4>2. \A s \in Stores : documents[s] \in [Queries -> Queries \cup {NoQuery}]
        BY DEF TypeOK
      <4>3. \A s \in Stores : documents'[s] \in [Queries -> Queries \cup {NoQuery}]
        <5>. SUFFICES ASSUME NEW s \in Stores
                      PROVE  documents'[s] \in [Queries -> Queries \cup {NoQuery}]
          OBVIOUS
        <5>1. [documents[s] EXCEPT ![w[2]] = w[2]] \in [Queries -> Queries \cup {NoQuery}]
          BY <2>1, <4>2, EntryType
        <5>. QED
          BY <4>1, <4>2, <5>1
      <4>4. documents' \in [Stores -> [Queries -> Queries \cup {NoQuery}]]
        BY <3>1, <4>3 DEF TypeOK
      <4>. QED
        BY <2>1, <4>1, <4>2, <4>4
    <3>. QED
      BY <1>3, <3>1 DEF TypeOK
  <2>3. TypeOK'
    BY <1>3, <2>2 DEF TypeOK, WriteSettles
  <2>4. PersistedInv' /\ DocumentsInv'
    BY <1>3, <2>1, <2>2 DEF PersistedInv, DocumentsInv, WriteSettles
  <2>. QED
    BY <1>1, <2>3, <2>4
<1>. QED
  BY <1>2, <1>3 DEF WriteSettles

LEMMA ForgetInv == ASSUME IInv, Forget PROVE IInv'
<1>. USE DEF IInv, config, input
<1>1. \A r \in Requests : RequestInv(r)'
  BY RequestsUntouched DEF Forget
<1>2. ASSUME NEW q \in Queries, persisted' = [persisted EXCEPT ![q] = NoQuery],
             UNCHANGED documents
      PROVE  IInv'
  <2>1. TypeOK'
    BY <1>2 DEF TypeOK, Forget
  <2>2. PersistedInv' /\ DocumentsInv'
    BY <1>2 DEF TypeOK, PersistedInv, DocumentsInv, Forget
  <2>. QED
    BY <1>1, <2>1, <2>2
<1>3. ASSUME NEW t \in Stores, NEW q \in Queries,
             documents' = [documents EXCEPT ![t][q] = NoQuery], UNCHANGED persisted
      PROVE  IInv'
  <2>1. \A s \in Stores : documents[s] \in [Queries -> Queries \cup {NoQuery}]
    BY DEF TypeOK
  <2>2. \A s \in Stores : documents'[s] =
          IF s = t THEN [documents[s] EXCEPT ![q] = NoQuery] ELSE documents[s]
    BY <1>3 DEF TypeOK
  <2>3. \A s \in Stores : documents'[s] \in [Queries -> Queries \cup {NoQuery}]
    BY <2>1, <2>2
  <2>4. documents' \in [Stores -> [Queries -> Queries \cup {NoQuery}]]
    BY <1>3, <2>3 DEF TypeOK
  <2>5. \A s \in Stores, h \in Queries :
          documents'[s][h] = documents[s][h] \/ documents'[s][h] = NoQuery
    BY <2>1, <2>2
  <2>6. TypeOK'
    BY <1>3, <2>4 DEF TypeOK, Forget
  <2>7. PersistedInv' /\ DocumentsInv'
    BY <1>3, <2>5 DEF PersistedInv, DocumentsInv, Forget
  <2>. QED
    BY <1>1, <2>6, <2>7
<1>. QED
  BY <1>2, <1>3 DEF Forget

LEMMA Invariance == Spec => []IInv
<1>1. IInv /\ [Next]_vars => IInv'
  <2>. SUFFICES ASSUME IInv, [Next]_vars PROVE IInv'
    OBVIOUS
  <2>1. ASSUME NEW r \in Requests, Arrive(r) \/ Proceed(r) PROVE IInv'
    BY <2>1, ArriveInv, UseQueryInv, PersistedFoundInv, DocumentFoundInv, ParseInv,
       ValidatedInv, OperationResolvedInv, OnlyMovesInv
       DEF Proceed, OnlyMoves
  <2>2. CASE UpdateSchema \/ WriteSettles \/ Forget
    BY <2>2, UpdateSchemaInv, WriteSettlesInv, ForgetInv
  <2>3. CASE UNCHANGED vars
    <3>1. TypeOK' /\ PersistedInv' /\ DocumentsInv'
      BY <2>3
         DEF vars, config, input, caches, IInv, TypeOK, PersistedInv, DocumentsInv
    <3>. QED
      BY <2>3, <3>1, RequestsUntouched DEF vars, IInv
  <2>. QED
    BY <2>1, <2>2, <2>3 DEF Next
<1>. QED
  BY <1>1, InitInv, PTL DEF Spec

-----------------------------------------------------------------------------
\* Every variable keeps its type; a request that has come to a point has the
\* fields its type there requires.
THEOREM TypeCorrect == Spec => []TypeOK
<1>1. IInv => TypeOK
  BY DEF IInv
<1>. QED
  BY <1>1, Invariance, PTL

\* With stores of its own for each schema, the server executes only operations
\* that are valid for the schema of the request.
THEOREM ValidOperations ==
  ASSUME "custom" \notin StoreModes PROVE Spec => []ExecutesValidOperations
<1>1. IInv => ExecutesValidOperations
  BY DEF IInv, TypeOK, RequestInv, ExecutesValidOperations, Approved, Executing
<1>. QED
  BY <1>1, Invariance, PTL

\* What is executed for a hash is the query it is the hash of.
THEOREM HashNames == Spec => []HashNamesItsQuery
<1>1. IInv => HashNamesItsQuery
  BY DEF IInv, RequestInv, HashNamesItsQuery, HasDocument
<1>. QED
  BY <1>1, Invariance, PTL

\* Only queries that passed didResolveOperation are registered.
THEOREM Registers == Spec => []RegistersAcceptedQueries
<1>1. IInv => RegistersAcceptedQueries
  BY DEF IInv, PersistedInv, RegistersAcceptedQueries
<1>. QED
  BY <1>1, Invariance, PTL

\* An execution is ended for the plugins before its errors and its response.
THEOREM Ends == Spec => []ExecutionIsEnded
<1>1. IInv => ExecutionIsEnded
  BY DEF IInv, RequestInv, ExecutionIsEnded
<1>. QED
  BY <1>1, Invariance, PTL

\* A request whose errors were reported is answered, unless something rejects that
\* is awaited after the report.
THEOREM Answered == Spec => []ErrorsAreAnswered
<1>1. IInv => ErrorsAreAnswered
  BY DEF IInv, RequestInv, ErrorsAreAnswered
<1>. QED
  BY <1>1, Invariance, PTL

\* Nothing is called after willSendResponse, and it is not called twice.
THEOREM Last == Spec => ResponseIsLast
<1>1. ASSUME IInv, [Next]_vars, NEW r \in Requests, "willSendResponse" \in called[r]
      PROVE  called'[r] = called[r] /\ pc'[r] \in {pc[r]} \cup Ended
  <2>1. pc[r] \in {"willSendResponse", "answered", "threw"}
    BY <1>1 DEF IInv, RequestInv
  <2>2. ASSUME NEW q \in Requests, q # r, Moves(q)
        PROVE  called'[r] = called[r] /\ pc'[r] = pc[r]
    BY <1>1, <2>2, MovesType DEF IInv
  <2>3. CASE Answer(r) \/ Throw(r)
    BY <1>1, <2>3 DEF IInv, TypeOK, Answer, Throw, Await, Ended
  <2>4. CASE UNCHANGED <<pc, called>>
    BY <2>4
  <2>5. Arrive(r) \/ Proceed(r) => Answer(r) \/ Throw(r)
    BY <2>1
       DEF Arrive, Proceed, ListenersReady, RefuseRequest, UseQuery, LookUpPersisted,
           PersistedFound, PersistedNotFound, SourceResolved, DocumentFound,
           DocumentNotFound, Parse, Validate, Validated,
           RefuseDocument, OperationResolved, OperationRejected, ResponseProvided,
           StartExecution, Execute, ExecutionSettles, ResultErrorsReported,
           ExecutionHookRejects, ExecutionErrorReported, ExecutionEnded, SendErrors
  <2>. QED
    BY <1>1, <2>2, <2>3, <2>4, <2>5, StepMoves
       DEF Next, vars, UpdateSchema, WriteSettles, Forget
<1>2. IInv /\ [Next]_vars =>
        [\A r \in Requests : "willSendResponse" \in called[r] =>
           /\ called'[r] = called[r]
           /\ pc'[r] \in {pc[r]} \cup Ended]_vars
  BY <1>1
<1>. QED
  BY <1>2, Invariance, PTL DEF Spec, ResponseIsLast
=============================================================================

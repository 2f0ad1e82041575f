------------------------------ MODULE HttpQuery ------------------------------
(***************************************************************************)
(* HTTP requests: what each framework integration makes of one, and        *)
(* runHttpQuery(), which runs its operation, or the operations of a batch  *)
(* all at once, and puts their responses together.                         *)
(*                                                                         *)
(* Body parsers are the environment: they parse JSON, reject what is not,  *)
(* and (unless noted) leave an empty object for a missing body.  So is the *)
(* request pipeline, by what it does with one operation; plugins that set a *)
(* status themselves are left out.                                         *)
(***************************************************************************)
EXTENDS Naturals, Sequences

CONSTANTS
  Frameworks,  \* the integrations considered
  Batches,     \* the sequences of operations that a batch may have
  Unset        \* no status, or no header

AllFrameworks == {"express", "koa", "fastify", "hapi", "micro", "azure", "cloudflare",
                  "lambda", "cloud_functions", "standalone"}

\* A document is no string ("ast"), or has variables that are no JSON ("badVariables").
Operations == {"query", "mutation", "ast", "badVariables"}

\* Assumed by the modules that instantiate this one.
HttpAssumption ==
  /\ Frameworks \subseteq AllFrameworks
  /\ Batches \subseteq Seq(Operations) \ {<<>>}
  /\ Unset \notin Nat \cup {"max-age", "no-cache"}

Single == {<<op>> : op \in Operations}

\* What comes after the method: for POST, a body; for GET, a query string.
Payloads == [kind : {"none", "invalid"}, operations : {<<>>}]
              \cup [kind : {"one"}, operations : Single]
              \cup [kind : {"batch"}, operations : Batches]

HttpRequests ==
  {q \in [method : {"GET", "POST", "PUT"}, path : {"graphql", "health", "other"},
          html : BOOLEAN, payload : Payloads] :
     q.method # "POST" => q.payload.kind \in {"none", "one"}}

\* The answers of the integrations themselves.
To(where) == [to |-> where, status |-> 200]
Refuse(status) == [to |-> "refused", status |-> status]
Run == [to |-> "run", status |-> Unset]

\* html: the client prefers HTML, and the server has a landing page.
WantsLandingPage(q) == q.method = "GET" /\ q.html

-----------------------------------------------------------------------------
\* express getMiddleware(): the health check is at its path for any method.
\* Standalone server, Lambda and Cloud Functions use it, at the path "/".
Express(q) ==
  IF q.path = "health" THEN To("health")
  ELSE IF q.path = "other" THEN Refuse(404)
  ELSE IF q.payload.kind = "invalid" THEN Refuse(400)
  ELSE IF WantsLandingPage(q) THEN To("landing") ELSE Run

\* Mounted at "/", it has no other path.
ExpressAtRoot(q) == Express(IF q.path = "other" THEN [q EXCEPT !.path = "graphql"] ELSE q)

Koa(q) ==
  IF q.path = "health" THEN To("health")
  ELSE IF q.path = "other" THEN Refuse(404)
  ELSE IF q.payload.kind = "invalid" THEN Refuse(400)
  ELSE IF WantsLandingPage(q) THEN To("landing") ELSE Run

\* fastify routes GET and POST; the not-found handler answers other methods.
Fastify(q) ==
  IF q.path = "health" /\ q.method = "GET" THEN To("health")
  ELSE IF q.path # "graphql" THEN Refuse(404)
  ELSE IF q.method \notin {"GET", "POST"} THEN Refuse(405)
  ELSE IF q.payload.kind = "invalid" THEN Refuse(400)
  ELSE IF WantsLandingPage(q) THEN To("landing") ELSE Run

\* hapi routes GET and POST; it has no route for other methods.
Hapi(q) ==
  IF q.path = "health" THEN To("health")
  ELSE IF q.path = "other" \/ q.method \notin {"GET", "POST"} THEN Refuse(404)
  ELSE IF WantsLandingPage(q) THEN To("landing")
  ELSE IF q.payload.kind = "invalid" THEN Refuse(400) ELSE Run

\* micro parses the body in the handler, not before it.
GraphqlMicro(q) == IF q.payload.kind = "invalid" THEN Refuse(400) ELSE Run

Micro(q) ==
  IF q.path = "health" THEN To("health")
  ELSE IF q.path = "other" THEN Refuse(404)
  ELSE IF WantsLandingPage(q) THEN To("landing") ELSE GraphqlMicro(q)

\* Azure has no body for a POST without one, or with one that is no JSON.
GraphqlAzureFunction(q) ==
  IF q.method = "POST" /\ q.payload.kind \in {"none", "invalid"} THEN Refuse(400) ELSE Run

\* Azure Functions: one function, at whatever path it was deployed.
Azure(q) ==
  IF q.path = "health" THEN To("health")
  ELSE IF WantsLandingPage(q) THEN To("landing") ELSE GraphqlAzureFunction(q)

\* Cloudflare: no health check, no landing page; req.json() rejects what is no
\* JSON, and the platform answers.
Cloudflare(q) ==
  IF q.method = "POST" /\ q.payload.kind \in {"none", "invalid"} THEN Refuse(500) ELSE Run

Route(framework, q) ==
  CASE framework = "express" -> Express(q)
    [] framework \in {"standalone", "lambda", "cloud_functions"} -> ExpressAtRoot(q)
    [] framework = "koa" -> Koa(q)
    [] framework = "fastify" -> Fastify(q)
    [] framework = "hapi" -> Hapi(q)
    [] framework = "micro" -> Micro(q)
    [] framework = "azure" -> Azure(q)
    [] framework = "cloudflare" -> Cloudflare(q)

-----------------------------------------------------------------------------
VARIABLES
  framework, request,
  pc,        \* "arrived", "options", "payload", "running", "answered"
  op,        \* each operation: "waiting", "resolving", "executing", "done"
  outcome,   \* what its response has: "data", "partial", "errors", "miss", "thrown"
  cacheable, \* the operations whose response has Cache-Control: max-age
  header,    \* responseInit's Cache-Control: "max-age", "no-cache" or Unset
  status,    \* responseInit.status, or Unset
  answer,    \* [status, header, outcomes], or Unset
  executed   \* history: the operations whose execution began

vars == <<framework, request, pc, op, outcome, cacheable, header, status, answer, executed>>

Ops == DOMAIN op
Outcomes == {"data", "partial", "errors", "miss", "thrown"}
Headers == {"max-age", "no-cache", Unset}
Statuses == {200, 400, 404, 405, 500, 503}

TypeOK ==
  /\ framework \in Frameworks /\ request \in HttpRequests
  /\ pc \in {"arrived", "options", "payload", "running", "answered"}
  /\ op \in Seq({"waiting", "resolving", "executing", "done"})
  /\ outcome \in [Ops -> Outcomes \cup {Unset}]
  /\ cacheable \subseteq Ops /\ executed \subseteq Ops
  /\ header \in Headers /\ status \in Statuses \cup {Unset}
  /\ answer = Unset \/ answer \in [status : Statuses, header : Headers,
                                   outcomes : Seq(Outcomes)]

Init ==
  /\ framework \in Frameworks /\ request \in HttpRequests
  /\ pc = "arrived"
  /\ op = <<>> /\ outcome = <<>>
  /\ cacheable = {} /\ executed = {}
  /\ header = Unset /\ status = Unset
  /\ answer = Unset

\* throw new HttpQueryError(), or throwHttpGraphQLError(): the integration takes
\* the status, the headers and the message.
Fail(code, head) ==
  /\ pc' = "answered"
  /\ answer' = [status |-> code, header |-> head, outcomes |-> <<>>]

\* The integration's handler; onHealthCheck() may reject.
Handle(healthy) ==
  LET route == Route(framework, request)
  IN  /\ pc = "arrived"
      /\ IF route = Run THEN pc' = "options" /\ UNCHANGED answer
         ELSE Fail(IF route.to = "health" /\ ~healthy THEN 503 ELSE route.status, Unset)
      /\ UNCHANGED <<framework, request, op, outcome, cacheable, header, status, executed>>

\* runHttpQuery() up to processHTTPRequest(): the server has not started, or the
\* context function threw, an error of the client's (400) or another (500).
ResolveOptions(code) ==
  /\ pc = "options"
  /\ IF code = 200 THEN pc' = "payload" /\ UNCHANGED answer ELSE Fail(code, Unset)
  /\ UNCHANGED <<framework, request, op, outcome, cacheable, header, status, executed>>

\* Cloudflare always has an object for a query string.
PayloadIsMissing ==
  request.payload.kind = "none" /\ ~(framework = "cloudflare" /\ request.method = "GET")

Malformed(operation) == operation \in {"ast", "badVariables"}

OperationsOf(q) == IF q.payload.kind = "none" THEN <<"none">> ELSE q.payload.operations

\* All operations are started at once.
StartAll(ops) ==
  /\ pc' = "running"
  /\ op' = [i \in DOMAIN ops |-> "resolving"]
  /\ outcome' = [i \in DOMAIN ops |-> Unset]
  /\ UNCHANGED answer

\* processHTTPRequest() up to the start of the operations: all are parsed first.
\* An object of four nulls is an operation without a query.
ReadPayload ==
  LET ops == OperationsOf(request)
  IN  /\ pc = "payload"
      /\ IF request.method \notin {"GET", "POST"} THEN Fail(405, Unset) /\ UNCHANGED <<op, outcome>>
         ELSE IF PayloadIsMissing \/ \E i \in DOMAIN ops : Malformed(ops[i])
         THEN Fail(400, Unset) /\ UNCHANGED <<op, outcome>>
         ELSE StartAll(ops)
      /\ UNCHANGED <<framework, request, cacheable, header, status, executed>>

IsBatch == request.payload.kind = "batch"

\* The operation's response, with its headers and status, is there.  One that
\* the pipeline throws is a list of errors in a batch, without headers.
Responds(i, what, head, code) ==
  /\ op' = [op EXCEPT ![i] = "done"]
  /\ outcome' = [outcome EXCEPT ![i] = what]
  /\ cacheable' = IF head = "max-age" THEN cacheable \cup {i} ELSE cacheable
  /\ header' = IF head # Unset THEN head ELSE header
  /\ status' = IF code # Unset THEN code ELSE status

\* The pipeline has resolved the operation: it answers without executing it
\* (errors, or a persisted query that is not there), or checkOperationPlugin
\* lets it pass.
Resolved(i) ==
  /\ pc = "running" /\ op[i] = "resolving"
  /\ \/ Responds(i, "errors", Unset, Unset) /\ UNCHANGED executed
     \/ Responds(i, "miss", "no-cache", 200) /\ UNCHANGED executed
     \/ /\ request.payload.kind # "none"
        /\ request.method = "GET" => request.payload.operations[i] = "query"
        /\ op' = [op EXCEPT ![i] = "executing"]
        /\ executed' = executed \cup {i}
        /\ UNCHANGED <<outcome, cacheable, header, status>>
  /\ UNCHANGED <<framework, request, pc, answer>>

\* checkOperationPlugin throws: the response has the error and its status.
Refused(i) ==
  /\ pc = "running" /\ op[i] = "resolving"
  /\ request.payload.kind # "none"
  /\ request.method = "GET" /\ request.payload.operations[i] # "query"
  /\ Responds(i, "errors", Unset, 405)
  /\ UNCHANGED <<framework, request, pc, answer, executed>>

\* An execution ends: with data, cacheable or not, with data and errors, or with
\* errors only, when its variables are not those of the operation, or the executor
\* or a hook rejects.
Executed(i, what, head) ==
  /\ pc = "running" /\ op[i] = "executing"
  /\ what \in {"data", "partial", "errors"}
  /\ head = "max-age" => what = "data"
  /\ Responds(i, what, head, Unset)
  /\ UNCHANGED <<framework, request, pc, answer, executed>>

\* A hook throws, and the pipeline with it.
Throws(i) ==
  /\ pc = "running" /\ op[i] \in {"resolving", "executing"}
  /\ op' = [op EXCEPT ![i] = "done"]
  /\ outcome' = [outcome EXCEPT ![i] = "thrown"]
  /\ IF IsBatch THEN UNCHANGED <<pc, answer>> ELSE Fail(500, Unset)
  /\ UNCHANGED <<framework, request, cacheable, header, status, executed>>

\* Wrong on purpose: a batch is answered with the first response that is there.
AnswerEarly ==
  /\ pc = "running" /\ \E i \in Ops : op[i] = "done"
  /\ pc' = "answered"
  /\ answer' = [status |-> IF status = Unset THEN 200 ELSE status, header |-> header,
                outcomes |-> SelectSeq(outcome, LAMBDA o : o # Unset)]
  /\ UNCHANGED <<framework, request, op, outcome, cacheable, header, status, executed>>

\* The end of processHTTPRequest(), when the responses are all there, and what
\* the integration writes.  Without data, one operation's errors are the body of
\* an HttpQueryError.
Answer ==
  /\ pc = "running" /\ \A i \in Ops : op[i] = "done"
  /\ IF ~IsBatch /\ outcome[1] \in {"errors", "miss"}
     THEN Fail(IF status = Unset THEN 400 ELSE status, header)
     ELSE /\ pc' = "answered"
          /\ answer' = [status |-> IF status = Unset THEN 200 ELSE status,
                        header |-> header, outcomes |-> outcome]
  /\ UNCHANGED <<framework, request, op, outcome, cacheable, header, status, executed>>

Next ==
  \/ \E healthy \in BOOLEAN : Handle(healthy)
  \/ \E code \in {200, 400, 500} : ResolveOptions(code)
  \/ ReadPayload
  \/ \E i \in Ops :
       \/ Resolved(i) \/ Refused(i) \/ Throws(i)
       \/ \E what \in Outcomes, head \in Headers \ {"no-cache"} : Executed(i, what, head)
  \/ Answer

Spec == Init /\ [][Next]_vars
-----------------------------------------------------------------------------
\* A batch is answered as a whole: with a response for each operation, in their
\* order, when all have ended, and whichever of them failed, in parsing, execution
\* or a hook, the batch has not, and its status is 200; or, when one of them cannot
\* be read, with an error, and then none was executed.  An operation by itself that
\* has no data gets an error status, if it is not a persisted query that the client
\* is to send again, which it never is when it was executed.  And no answer is
\* called cacheable unless one of its responses is.
AnswersAreWhole ==
  answer # Unset =>
    /\ (\E i \in DOMAIN request.payload.operations : Malformed(request.payload.operations[i]))
         => answer.outcomes = <<>> /\ executed = {}
    /\ answer.outcomes # <<>> =>
         /\ Len(answer.outcomes) = Len(request.payload.operations)
         /\ \A i \in DOMAIN answer.outcomes : op[i] = "done" /\ answer.outcomes[i] = outcome[i]
         /\ answer.status = 200
    /\ IsBatch /\ op # <<>> => answer.outcomes # <<>>
    /\ Len(op) = 1 /\ ~IsBatch =>
         (answer.status = 200 <=> outcome[1] \in {"data", "partial", "miss"})
    /\ \A i \in executed : outcome[i] # "miss"
    /\ answer.header = "max-age" => IF IsBatch THEN cacheable # {} ELSE cacheable = Ops
=============================================================================

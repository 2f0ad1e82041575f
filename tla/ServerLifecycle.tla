--------------------------- MODULE ServerLifecycle ---------------------------
(***************************************************************************)
(* The life cycle of an ApolloServerBase: _start(), stop(), the            *)
(* termination-signal handlers, and the gate every GraphQL operation       *)
(* passes (_ensureStarted, then the await of the context function).        *)
(*                                                                         *)
(* Node runs one callback at a time, so an action is the code between two  *)
(* awaits.  The hooks of the plugins are external code: a hook that has    *)
(* been called settles -- resolves or rejects -- at any later time.        *)
(***************************************************************************)
CONSTANTS
  Plugins,        \* plugins with a serverWillStart hook
  DrainPlugins,   \* those whose listener has a drainServer hook
  StopPlugins,    \* those whose listener has a serverWillStop hook
  SchemaManager,  \* the disposer that stops the schema manager
  Callers,        \* user code that calls stop()
  SignalHandler,  \* the call of stop() made by the signal handler
  Requests,       \* GraphQL operations
  Signals,        \* the signals handled: SIGINT and SIGTERM
  None,           \* no error, no signal
  StopOnSignals   \* stopOnTerminationSignals

Disposers == StopPlugins \cup {SchemaManager}
Stoppers  == Callers \cup {SignalHandler}
Errors    == DrainPlugins \cup Disposers

ASSUME LifecycleAssumption ==
  /\ DrainPlugins \subseteq Plugins
  /\ StopPlugins \subseteq Plugins
  /\ SignalHandler \notin Callers
  /\ None \notin Errors
  /\ None \notin Signals
  /\ StopOnSignals \in BOOLEAN

VARIABLES
  phase,          \* this.state.phase
  stopError,      \* this.state.stopError
  boot,           \* where _start() is suspended
  startBarrier,   \* the barrier of the starting phase
  stopBarrier,    \* the barrier of the draining and stopping phases
  startHook,      \* the serverWillStart call of each plugin
  drainHook,      \* the drainServer call of each plugin
  disposal,       \* the serverWillStop calls, and schemaManager.stop()
  rejection,      \* the first rejection of the Promise.all being awaited
  stopCall,       \* where each call of stop() is
  thrown,         \* the error each call of stop() threw
  listening,      \* signals with our handler installed
  receivedSignal, \* the signal being handled
  process,        \* the Node process
  request         \* where each GraphQL operation is

bootVars    == <<boot, startBarrier, startHook>>
stopVars    == <<stopError, stopBarrier, drainHook, disposal, rejection>>
callVars    == <<stopCall, thrown>>
signalVars  == <<listening, receivedSignal, process>>
vars == <<phase, bootVars, stopVars, callVars, signalVars, request>>

Phases == {"initialized", "starting", "failedToStart", "started",
           "draining", "stopping", "stopped"}
HookStates == {"idle", "running", "done", "failed"}

TypeOK ==
  /\ phase \in Phases
  /\ stopError \in Errors \cup {None}
  /\ boot \in {"idle", "load", "willStart", "landing", "over"}
  /\ startBarrier \in {"pending", "resolved"}
  /\ stopBarrier \in {"pending", "resolved"}
  /\ startHook \in [Plugins -> HookStates]
  /\ drainHook \in [DrainPlugins -> HookStates]
  /\ disposal \in [Disposers -> HookStates]
  /\ rejection \in Errors \cup {None}
  /\ stopCall \in [Stoppers -> {"idle", "leading", "waiting", "refused",
                                "returned", "threw", "surprised"}]
  /\ thrown \in [Stoppers -> Errors \cup {None}]
  /\ listening \subseteq Signals
  /\ receivedSignal \in Signals \cup {None}
  /\ process \in {"running", "killed", "exited"}
  /\ request \in [Requests -> {"new", "awaiting", "context", "executing",
                               "done", "refused"}]

\* A server that waits for start(), or one of a serverless framework, which calls
\* _start() at the end of its constructor.
Init ==
  /\ \/ phase = "initialized" /\ boot = "idle"
     \/ phase = "starting" /\ boot = "load"
  /\ stopError = None
  /\ startBarrier = "pending"
  /\ stopBarrier = "pending"
  /\ startHook = [p \in Plugins |-> "idle"]
  /\ drainHook = [p \in DrainPlugins |-> "idle"]
  /\ disposal = [d \in Disposers |-> "idle"]
  /\ rejection = None
  /\ stopCall = [c \in Stoppers |-> "idle"]
  /\ thrown = [c \in Stoppers |-> None]
  /\ listening = {}
  /\ receivedSignal = None
  /\ process = "running"
  /\ request = [r \in Requests |-> "new"]

-----------------------------------------------------------------------------
(***************************************************************************)
(* Starting.                                                               *)
(***************************************************************************)
AllDone(hook) == \A x \in DOMAIN hook : hook[x] = "done"

\* The synchronous prefix of _start(): it ends in the await of
\* schemaManager.start().
BeginStart ==
  /\ phase = "initialized"
  /\ phase' = "starting"
  /\ boot' = "load"
  /\ UNCHANGED <<startBarrier, startHook>>

\* The user calls start(), or listen() of the apollo-server package.
Start ==
  /\ BeginStart
  /\ UNCHANGED <<stopVars, callVars, signalVars, request>>

\* The catch and finally clauses of _start().
FailStart ==
  /\ phase' = "failedToStart"
  /\ boot' = "over"
  /\ startBarrier' = "resolved"
  /\ UNCHANGED <<startHook, stopVars, callVars, signalVars, request>>

\* The schema is loaded: every serverWillStart hook is called at once.
LoadSucceeds ==
  /\ boot = "load"
  /\ boot' = "willStart"
  /\ startHook' = [p \in Plugins |-> "running"]
  /\ UNCHANGED <<phase, startBarrier, stopVars, callVars, signalVars, request>>

LoadFails == boot = "load" /\ FailStart

StartHookSettles(p) ==
  /\ startHook[p] = "running"
  /\ \E how \in {"done", "failed"} : startHook' = [startHook EXCEPT ![p] = how]
  /\ UNCHANGED <<phase, boot, startBarrier, stopVars, callVars, signalVars,
                 request>>

\* One rejected hook fails the start; the other hooks are not waited for.
StartHookRejected ==
  /\ boot = "willStart"
  /\ \E p \in Plugins : startHook[p] = "failed"
  /\ FailStart

\* The listeners are registered, and the landing page is awaited.
StartHooksDone ==
  /\ boot = "willStart"
  /\ AllDone(startHook)
  /\ boot' = "landing"
  /\ UNCHANGED <<phase, startBarrier, startHook, stopVars, callVars,
                 signalVars, request>>

\* A gateway too old for a schemaDidLoadOrUpdate hook, such a hook that
\* throws, two landing pages, or a landing page that cannot be rendered.
RegistrationFails ==
  /\ \/ boot = "willStart" /\ AllDone(startHook)
     \/ boot = "landing"
  /\ FailStart

FinishStart ==
  /\ boot = "landing"
  /\ phase' = "started"
  /\ boot' = "over"
  /\ startBarrier' = "resolved"
  /\ listening' = IF StopOnSignals THEN Signals ELSE {}
  /\ UNCHANGED <<startHook, stopVars, callVars, receivedSignal, process,
                 request>>

-----------------------------------------------------------------------------
(***************************************************************************)
(* GraphQL operations: _ensureStarted(), graphQLServerOptions(),           *)
(* executeOperation().                                                     *)
(***************************************************************************)
Advance(r, to) ==
  /\ request' = [request EXCEPT ![r] = to]
  /\ UNCHANGED <<stopVars, callVars, signalVars>>

\* Wrong on purpose: operations are let in while the server starts.
EnsureStartedEarly(r) ==
  /\ \/ phase \in {"starting", "started", "draining"} /\ Advance(r, "context")
     \/ phase \in {"failedToStart", "stopping", "stopped"}
        /\ Advance(r, "refused")
  /\ UNCHANGED <<phase, bootVars>>

\* One turn of the loop of _ensureStarted().
EnsureStarted(r) ==
  /\ \/ phase \in {"started", "draining"} /\ Advance(r, "context")
     \/ phase = "starting" /\ Advance(r, "awaiting")
     \/ phase \in {"initialized", "failedToStart", "stopping", "stopped"}
        /\ Advance(r, "refused")
  /\ UNCHANGED <<phase, bootVars>>

\* executeOperation() starts a server that nobody has started; to an integration
\* such a server answers with an error.
RequestArrives(r) ==
  /\ request[r] = "new"
  /\ EnsureStarted(r) \/ (BeginStart /\ Advance(r, "awaiting"))

RequestResumes(r) ==
  /\ request[r] = "awaiting"
  /\ startBarrier = "resolved"
  /\ EnsureStarted(r)

\* The context function settles: its value lets the operation execute, its
\* error is the operation's answer.
ContextSettles(r) ==
  /\ request[r] = "context"
  /\ Advance(r, "executing") \/ Advance(r, "refused")
  /\ UNCHANGED <<phase, bootVars>>

ExecutionEnds(r) ==
  /\ request[r] = "executing"
  /\ Advance(r, "done")
  /\ UNCHANGED <<phase, bootVars>>

-----------------------------------------------------------------------------
(***************************************************************************)
(* Stopping.                                                               *)
(***************************************************************************)
Answer(c, how, error) ==
  /\ stopCall' = [stopCall EXCEPT ![c] = how]
  /\ thrown' = [thrown EXCEPT ![c] = error]

\* Wrong on purpose: later calls of stop() forget the error.
AnswerStoppedForgetful(c) == Answer(c, "returned", None)

\* What a call of stop() does once the server is stopped.
AnswerStopped(c) ==
  IF stopError = None THEN Answer(c, "returned", None)
                      ELSE Answer(c, "threw", stopError)

\* The call that finds the server started: all drainServer hooks are called.
LeadStop(c) ==
  /\ phase = "started"
  /\ phase' = "draining"
  /\ stopBarrier' = "pending"
  /\ drainHook' = [p \in DrainPlugins |-> "running"]
  /\ Answer(c, "leading", None)
  /\ UNCHANGED <<stopError, disposal, rejection>>

\* A call of stop(), up to its first await.
CallStop(c) ==
  /\ stopCall[c] = "idle"
  /\ \/ /\ phase \in {"initialized", "starting", "failedToStart"}
        /\ Answer(c, "refused", None)
        /\ UNCHANGED <<phase, stopVars>>
     \/ /\ phase = "stopped"
        /\ AnswerStopped(c)
        /\ UNCHANGED <<phase, stopVars>>
     \/ /\ phase \in {"draining", "stopping"}
        /\ Answer(c, "waiting", None)
        /\ UNCHANGED <<phase, stopVars>>
     \/ LeadStop(c)

UserStops(c) ==
  /\ CallStop(c)
  /\ UNCHANGED <<bootVars, signalVars, request>>

\* A concurrent call resumes after the barrier.
StopResumes(c) ==
  /\ stopCall[c] = "waiting"
  /\ stopBarrier = "resolved"
  /\ IF phase = "stopped" THEN AnswerStopped(c)
                          ELSE Answer(c, "surprised", None)
  /\ UNCHANGED <<phase, bootVars, stopVars, signalVars, request>>

\* The hook or disposer x ends as how; Promise.all keeps the first rejection.
Settle(x, how) ==
  rejection' = IF how = "failed" /\ rejection = None THEN x ELSE rejection

DrainHookSettles(p) ==
  /\ drainHook[p] = "running"
  /\ \E how \in {"done", "failed"} :
       /\ drainHook' = [drainHook EXCEPT ![p] = how]
       /\ Settle(p, how)
  /\ UNCHANGED <<phase, bootVars, stopError, stopBarrier, disposal, callVars,
                 signalVars, request>>

\* Wrong on purpose: the listeners are removed along with the other disposers.
DrainedAllAtOnce ==
  /\ phase = "draining"
  /\ AllDone(drainHook)
  /\ phase' = "stopping"
  /\ disposal' = [d \in Disposers |-> "running"]
  /\ listening' = {}
  /\ UNCHANGED <<bootVars, stopError, stopBarrier, drainHook, rejection,
                 callVars, receivedSignal, process, request>>

\* Wrong on purpose: the drainServer hooks are awaited with Promise.allSettled.
DrainedSettled ==
  /\ phase = "draining"
  /\ \A p \in DrainPlugins : drainHook[p] \in {"done", "failed"}
  /\ phase' = "stopping"
  /\ disposal' = [d \in Disposers |-> "running"]
  /\ UNCHANGED <<bootVars, stopError, stopBarrier, drainHook, rejection,
                 callVars, signalVars, request>>

\* Drained: no operation is let in any more; every disposer is called.
Drained ==
  /\ phase = "draining"
  /\ AllDone(drainHook)
  /\ phase' = "stopping"
  /\ disposal' = [d \in Disposers |-> "running"]
  /\ UNCHANGED <<bootVars, stopError, stopBarrier, drainHook, rejection,
                 callVars, signalVars, request>>

DisposerSettles(d) ==
  /\ disposal[d] = "running"
  /\ \E how \in {"done", "failed"} :
       /\ disposal' = [disposal EXCEPT ![d] = how]
       /\ Settle(d, how)
  /\ UNCHANGED <<phase, bootVars, stopError, stopBarrier, drainHook, callVars,
                 signalVars, request>>

\* The call that runs the shutdown is answered with its end.
AnswerLeader(how, error) ==
  /\ stopCall' = [c \in Stoppers |->
                    IF stopCall[c] = "leading" THEN how ELSE stopCall[c]]
  /\ thrown' = [c \in Stoppers |->
                    IF stopCall[c] = "leading" THEN error ELSE thrown[c]]

\* Wrong on purpose: the barrier is forgotten by a shutdown that fails.
StopFailsSilently ==
  /\ phase \in {"draining", "stopping"}
  /\ rejection # None
  /\ phase' = "stopped"
  /\ stopError' = rejection
  /\ AnswerLeader("threw", rejection)
  /\ UNCHANGED <<bootVars, stopBarrier, drainHook, disposal, rejection, signalVars,
                 request>>

\* The catch clause of stop(): whatever has not been called never is.
StopFails ==
  /\ phase \in {"draining", "stopping"}
  /\ rejection # None
  /\ phase' = "stopped"
  /\ stopError' = rejection
  /\ stopBarrier' = "resolved"
  /\ AnswerLeader("threw", rejection)
  /\ UNCHANGED <<bootVars, drainHook, disposal, rejection, signalVars, request>>

\* Wrong on purpose: the disposers are called and not awaited.
StopSucceedsNoAwait ==
  /\ phase = "stopping"
  /\ listening' = {}
  /\ phase' = "stopped"
  /\ stopError' = None
  /\ AnswerLeader("returned", None)
  /\ UNCHANGED <<bootVars, stopBarrier, drainHook, disposal, rejection,
                 receivedSignal, process, request>>

\* Wrong on purpose: the listeners are never removed.
StopSucceedsListening ==
  /\ phase = "stopping"
  /\ AllDone(disposal)
  /\ phase' = "stopped"
  /\ stopError' = None
  /\ AnswerLeader("returned", None)
  /\ UNCHANGED <<bootVars, stopBarrier, drainHook, disposal, rejection,
                 signalVars, request>>

\* All disposers resolved.  toDisposeLast removes the signal listeners without
\* waiting for anything, and stop() returns; it leaves its barrier as it is.
StopSucceeds ==
  /\ phase = "stopping"
  /\ AllDone(disposal)
  /\ listening' = {}
  /\ phase' = "stopped"
  /\ stopError' = None
  /\ AnswerLeader("returned", None)
  /\ UNCHANGED <<bootVars, stopBarrier, drainHook, disposal, rejection,
                 receivedSignal, process, request>>

-----------------------------------------------------------------------------
(***************************************************************************)
(* Termination signals.                                                    *)
(***************************************************************************)

\* Without our listener the signal has its default effect.  (With it, a signal
\* that comes while one is being handled changes nothing.)
SignalKills(s) ==
  /\ s \notin listening
  /\ process' = "killed"
  /\ UNCHANGED <<phase, bootVars, stopVars, callVars, listening,
                 receivedSignal, request>>

SignalHandled(s) ==
  /\ s \in listening
  /\ receivedSignal = None
  /\ receivedSignal' = s
  /\ CallStop(SignalHandler)
  /\ UNCHANGED <<bootVars, listening, process, request>>

\* stop() returned: the handler sends itself the signal.
HandlerRekills ==
  /\ stopCall[SignalHandler] = "returned"
  /\ receivedSignal \notin listening
  /\ process' = "killed"
  /\ UNCHANGED <<phase, bootVars, stopVars, callVars, listening,
                 receivedSignal, request>>

\* stop() threw: process.exit(1).
HandlerExits ==
  /\ stopCall[SignalHandler] \in {"threw", "surprised", "refused"}
  /\ process' = "exited"
  /\ UNCHANGED <<phase, bootVars, stopVars, callVars, listening,
                 receivedSignal, request>>

-----------------------------------------------------------------------------
StartStep ==
  \/ LoadSucceeds \/ LoadFails
  \/ StartHookRejected \/ StartHooksDone \/ RegistrationFails \/ FinishStart

StopStep == Drained \/ StopFails \/ StopSucceeds

Next ==
  /\ process = "running"
  /\ \/ Start \/ StartStep
     \/ \E p \in Plugins : StartHookSettles(p)
     \/ \E r \in Requests : \/ RequestArrives(r) \/ RequestResumes(r)
                            \/ ContextSettles(r) \/ ExecutionEnds(r)
     \/ \E c \in Callers : UserStops(c)
     \/ \E c \in Stoppers : StopResumes(c)
     \/ \E p \in DrainPlugins : DrainHookSettles(p)
     \/ \E d \in Disposers : DisposerSettles(d)
     \/ StopStep
     \/ \E s \in Signals : SignalKills(s) \/ SignalHandled(s)
     \/ HandlerRekills \/ HandlerExits

Spec == Init /\ [][Next]_vars

(***************************************************************************)
(* Node runs a continuation whose promise has settled, and the external    *)
(* code that was called -- hooks, the gateway, the context function, the   *)
(* execution -- settles.  Nobody has to call start() or stop(), to send a  *)
(* request or a signal.                                                    *)
(***************************************************************************)
Run(A) == process = "running" /\ A

Fairness ==
  /\ WF_vars(Run(StartStep))
  /\ WF_vars(Run(StopStep))
  /\ WF_vars(Run(HandlerRekills \/ HandlerExits))
  /\ \A p \in Plugins : WF_vars(Run(StartHookSettles(p)))
  /\ \A p \in DrainPlugins : WF_vars(Run(DrainHookSettles(p)))
  /\ \A d \in Disposers : WF_vars(Run(DisposerSettles(d)))
  /\ \A c \in Stoppers : WF_vars(Run(StopResumes(c)))
  /\ \A r \in Requests : WF_vars(Run(RequestResumes(r) \/ ContextSettles(r)
                                     \/ ExecutionEnds(r)))

FairSpec == Spec /\ Fairness

-----------------------------------------------------------------------------
(***************************************************************************)
(* Safety.                                                                 *)
(***************************************************************************)

\* Every call of stop() that was let in ends the same way, whoever made it and
\* whenever: with the error the shutdown ended with, or without one.  No call
\* is answered before the shutdown is over, none finds the server in a state
\* it calls surprising, and at most one runs the shutdown.
StopCallsAgree ==
  /\ \A c \in Stoppers :
       /\ stopCall[c] = "returned" => phase = "stopped" /\ stopError = None
       /\ stopCall[c] = "threw" => /\ phase = "stopped"
                                  /\ stopError # None
                                  /\ thrown[c] = stopError
       /\ stopCall[c] # "surprised"
       /\ stopCall[c] = "leading" => phase \in {"draining", "stopping"}
  /\ \A c, d \in Stoppers :
       stopCall[c] = "leading" /\ stopCall[d] = "leading" => c = d

\* The stages of a life are kept apart by waiting for every hook of a stage:
\* no drainServer hook is called unless every serverWillStart hook resolved,
\* no serverWillStop hook unless every drainServer hook did too (so that none is
\* called after a drainServer hook that failed).
StagesInOrder ==
  /\ (\E p \in DrainPlugins : drainHook[p] # "idle") => AllDone(startHook)
  /\ (\E d \in Disposers : disposal[d] # "idle") =>
        AllDone(startHook) /\ AllDone(drainHook)

\* stop() that returns has awaited everything: the drain hooks, the
\* serverWillStop hooks and the gateway resolved, the listeners are gone.
CleanStopIsComplete ==
  phase = "stopped" /\ stopError = None =>
    AllDone(drainHook) /\ AllDone(disposal) /\ listening = {}

\* An operation executes only in a server whose start was completed: no hook
\* of a plugin sees an operation before its serverWillStart resolved.
OperationsAfterStart ==
  \A r \in Requests :
    request[r] \in {"context", "executing", "done"} => AllDone(startHook)

\* A hook is called once in the life of the server: once it has settled it is
\* not run again, by no second stop() and no signal.
HooksRunOnce ==
  [][ /\ \A p \in DrainPlugins :
           drainHook[p] \in {"done", "failed"} => drainHook'[p] = drainHook[p]
      /\ \A d \in Disposers :
           disposal[d] \in {"done", "failed"} => disposal'[d] = disposal[d]
    ]_vars

\* From the end of start() to the end of a shutdown without error, a
\* termination signal does not kill the process under the feet of the drain
\* and stop hooks.
NoKillDuringShutdown ==
  [][ process' = "killed" /\ StopOnSignals =>
        phase \notin {"started", "draining", "stopping"} ]_vars

-----------------------------------------------------------------------------
(***************************************************************************)
(* The promise of stop(), see StopContract.                                *)
(***************************************************************************)
AbstractStage ==
  CASE phase \in {"initialized", "starting", "failedToStart"} -> "down"
    [] phase = "started" -> "up"
    [] phase \in {"draining", "stopping"} -> "closing"
    [] OTHER -> "closed"

AbstractReply ==
  [c \in Stoppers |->
     IF stopCall[c] \in {"leading", "waiting"} THEN "pending" ELSE stopCall[c]]

Contract == INSTANCE StopContract WITH
  stage <- AbstractStage, verdict <- stopError,
  reply <- AbstractReply, replyError <- thrown

\* Draining, disposing, the barrier and the signals implement the contract.
ImplementsContract == Contract!Spec

-----------------------------------------------------------------------------
(***************************************************************************)
(* Liveness, under FairSpec.  A dead process owes nothing.                 *)
(***************************************************************************)
Dead == process # "running"

\* Who waits for somebody else's step is answered: an operation that waits for
\* the server to start is let in or refused, however the start ends; the call of
\* stop() that runs the shutdown ends; and when the shutdown fails, so does every
\* other call of stop() that waits for it.
EveryWaitEnds ==
  /\ \A r \in Requests :
       request[r] = "awaiting" ~> (request[r] \in {"done", "refused"} \/ Dead)
  /\ \A c \in Stoppers :
       (stopCall[c] = "leading" \/ (stopCall[c] = "waiting" /\ stopError # None))
         ~> (stopCall[c] \in {"returned", "threw"} \/ Dead)

\* Two parallel calls of stop() both end (ApolloServer.ts:701-702: "just wait
\* for the other one to finish and do whatever it did").
ParallelStopsEnd ==
  \A c \in Callers : stopCall[c] = "waiting" ~> (stopCall[c] # "waiting" \/ Dead)

\* A termination signal that is handled ends the process, however often signals
\* come and whatever fails, unless its call of stop() waits for somebody else's
\* shutdown (see ParallelStopsEnd): one that fails lets it go on.
SignalEndsProcess ==
  receivedSignal # None /\ stopCall[SignalHandler] # "waiting"
    ~> (Dead \/ stopCall[SignalHandler] = "waiting")
=============================================================================

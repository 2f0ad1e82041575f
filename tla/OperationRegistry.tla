-------------------------- MODULE OperationRegistry --------------------------
(***************************************************************************)
(* The operation registry plugin: an agent that polls for the manifest of  *)
(* the registered operations and keeps them in a store, and the hook that  *)
(* refuses the operations that are not there.                              *)
(*                                                                         *)
(* The environment publishes manifests and answers the agent's requests:   *)
(* first for a storage secret, then for the manifest; through an HTTP      *)
(* cache, so that it answers 304 for a manifest that was answered before.  *)
(***************************************************************************)
EXTENDS Naturals, Sequences

CONSTANTS
  Signatures,  \* the operations that clients send
  Malformed,   \* an entry of a manifest that is null
  Manifests,   \* the manifests: sequences of entries
  NoManifest,  \* nothing is published, or known, yet
  MaxChanges,  \* bound: how often a manifest is published
  MaxRequests  \* bound: how many operations are sent

ASSUME RegistryAssumption ==
  /\ Malformed \notin Signatures
  /\ Manifests \subseteq Seq(Signatures \cup {Malformed})
  /\ NoManifest \notin Manifests
  /\ MaxChanges \in Nat /\ MaxRequests \in Nat

Forbid == {"unset", "true", "false", "function"}
\* What the predicate answers; "other" is no boolean.
Answers == {"true", "false", "other", "throws"}
Verdicts == [signature : Signatures, refused : BOOLEAN, answer : Answers,
             registered : SUBSET Signatures]

VARIABLES
  forbid, dryRun, \* options
  published,      \* the manifest at the origin, or NoManifest
  changes,        \* how often it changed
  known,          \* the manifest whose response the HTTP cache has
  spoiled,        \* history: whether the agent refused that response
  phase,          \* of the plugin: "starting", "running", "stopped"
  timer,          \* whether the interval runs
  check,          \* requestInFlight: "none", "secret", "manifest"
  hasSecret,      \* whether storageSecret is set
  last,           \* lastOperationSignatures
  store,          \* the signatures in the store
  requests,       \* how many operations were sent
  verdicts,       \* history: what became of the operations
  offered,        \* history: what was in any manifest that was published
  leftovers       \* history: what updates that failed had stored, and no update
                  \* has taken in since

options == <<forbid, dryRun>>
agent == <<phase, timer, check, hasSecret, last, store, leftovers>>
origin == <<published, changes, known, spoiled, offered>>
vars == <<options, origin, agent, requests, verdicts>>

TypeOK ==
  /\ forbid \in Forbid /\ dryRun \in BOOLEAN
  /\ published \in Manifests \cup {NoManifest} /\ known \in Manifests \cup {NoManifest}
  /\ changes \in Nat /\ requests \in Nat
  /\ phase \in {"starting", "running", "stopped"}
  /\ timer \in BOOLEAN /\ hasSecret \in BOOLEAN /\ spoiled \in BOOLEAN
  /\ check \in {"none", "secret", "manifest"}
  /\ last \subseteq Signatures /\ store \subseteq Signatures /\ leftovers \subseteq Signatures
  /\ verdicts \subseteq Verdicts /\ offered \subseteq Signatures

\* serverWillStart(): agent.start() makes the first check.
Init ==
  /\ forbid \in Forbid /\ dryRun \in BOOLEAN
  /\ published = NoManifest /\ changes = 0 /\ known = NoManifest /\ spoiled = FALSE
  /\ phase = "starting" /\ timer = FALSE
  /\ check = "secret" /\ hasSecret = FALSE
  /\ last = {} /\ store = {} /\ leftovers = {}
  /\ requests = 0 /\ verdicts = {} /\ offered = {}

-----------------------------------------------------------------------------
Publish(m) ==
  /\ changes < MaxChanges
  /\ published' = m
  /\ changes' = changes + 1
  /\ offered' = offered \cup ({m[i] : i \in DOMAIN m} \ {Malformed})
  /\ UNCHANGED <<options, known, spoiled, agent, requests, verdicts>>

\* The first check has ended, well or not: start() sets the timer, and returns.
Started == IF phase = "starting" THEN phase' = "running" /\ timer' = TRUE
           ELSE UNCHANGED <<phase, timer>>

\* Wrong on purpose: the timer fires once.
PulseOnce ==
  /\ timer /\ check = "none"
  /\ check' = "secret" /\ timer' = FALSE
  /\ UNCHANGED <<options, origin, phase, hasSecret, last, store, leftovers, requests,
                 verdicts>>

\* A pulse: checkForUpdate(), which joins the check in flight if there is one.
Pulse ==
  /\ timer /\ check = "none"
  /\ check' = "secret"
  /\ UNCHANGED <<options, origin, phase, timer, hasSecret, last, store, leftovers,
                 requests, verdicts>>

\* fetchAndUpdateStorageSecret() has a secret, new or the same as before.
SecretArrives ==
  /\ check = "secret"
  /\ check' = "manifest" /\ hasSecret' = TRUE
  /\ UNCHANGED <<options, origin, phase, timer, last, store, leftovers, requests, verdicts>>

\* The check ends with an error, which resets requestInFlight: no secret, no
\* manifest, another status, the network.
CheckFails ==
  /\ check # "none"
  /\ check' = "none"
  /\ Started
  /\ UNCHANGED <<options, origin, hasSecret, last, store, leftovers, requests, verdicts>>

\* 200, with another content type than JSON: the HTTP cache has kept the response
\* when the agent refuses it, so that the next one is a 304.
WrongContentType ==
  /\ check = "manifest"
  /\ published # NoManifest /\ known # published
  /\ known' = published /\ spoiled' = TRUE
  /\ check' = "none"
  /\ Started
  /\ UNCHANGED <<options, published, changes, offered, hasSecret, last, store, leftovers,
                 requests, verdicts>>

\* 304: nothing to do.
NotModified ==
  /\ check = "manifest"
  /\ published # NoManifest /\ known = published
  /\ check' = "none"
  /\ Started
  /\ UNCHANGED <<options, origin, hasSecret, last, store, leftovers, requests, verdicts>>

\* What the loop of updateManifest() gets to: the entries before a malformed one.
Read(m) ==
  LET bad == {i \in DOMAIN m : m[i] = Malformed}
  IN  {m[i] : i \in {j \in DOMAIN m : \A b \in bad : j < b}}

WellFormed(m) == \A i \in DOMAIN m : m[i] # Malformed

\* Wrong on purpose: what was removed is kept.
UpdateManifestOnlyAdds(m) ==
  /\ store' = store \cup (Read(m) \ last)
  /\ IF WellFormed(m) THEN last' = Read(m) /\ leftovers' = leftovers \ Read(m)
     ELSE UNCHANGED last /\ leftovers' = leftovers \cup (Read(m) \ last)

\* updateManifest(): what is not in the last list is added; then what is no
\* more is removed, and the list is replaced.  A malformed entry throws when
\* the entries before it have been added.
UpdateManifest(m) ==
  LET added == Read(m) \ last
  IN  IF WellFormed(m)
      THEN /\ store' = (store \cup added) \ (last \ Read(m))
           /\ last' = Read(m)
           /\ leftovers' = leftovers \ Read(m)
      ELSE /\ store' = store \cup added
           /\ leftovers' = leftovers \cup added
           /\ UNCHANGED last

\* 200: the HTTP cache keeps the response, the agent reads it.
Modified ==
  /\ check = "manifest"
  /\ published # NoManifest /\ known # published
  /\ known' = published /\ spoiled' = ~WellFormed(published)
  /\ check' = "none"
  /\ UpdateManifest(published)
  /\ Started
  /\ UNCHANGED <<options, published, changes, offered, hasSecret, requests, verdicts>>

\* serverWillStop(): the interval is cleared; a check in flight goes on.
Stop ==
  /\ phase = "running"
  /\ phase' = "stopped" /\ timer' = FALSE
  /\ UNCHANGED <<options, origin, check, hasSecret, last, store, leftovers, requests, verdicts>>

\* Wrong on purpose: a predicate that throws, or answers nothing, allows.
ShouldForbidOpen(answer) ==
  CASE forbid = "function" -> answer = "true"
    [] forbid = "true" -> TRUE
    [] OTHER -> FALSE

\* Whether to forbid an operation that is not in the store; the predicate
\* decides when it answers with a boolean, and "no" is never assumed.
ShouldForbid(answer) ==
  CASE forbid = "function" -> answer # "false"
    [] forbid = "true" -> TRUE
    [] OTHER -> FALSE

\* didResolveOperation(), of an operation that was let in by the server.
Operation(signature, answer) ==
  /\ phase # "starting" /\ requests < MaxRequests
  /\ requests' = requests + 1
  /\ verdicts' = verdicts \cup
       {[signature |-> signature, answer |-> answer, registered |-> last,
         refused |-> signature \notin store /\ ShouldForbid(answer) /\ ~dryRun]}
  /\ UNCHANGED <<options, origin, agent>>

Next ==
  \/ \E m \in Manifests : Publish(m)
  \/ Pulse \/ SecretArrives \/ CheckFails
  \/ WrongContentType \/ NotModified \/ Modified \/ Stop
  \/ \E signature \in Signatures, answer \in Answers : Operation(signature, answer)

\* Time passes, requests end, and what is tried again and again works some time.
Fairness ==
  /\ WF_vars(Pulse)
  /\ SF_vars(SecretArrives)
  /\ SF_vars(Modified \/ NotModified)

Spec == Init /\ [][Next]_vars /\ Fairness

-----------------------------------------------------------------------------
\* The store has exactly the operations of the last manifest that was read to its
\* end, and what updates that failed left there: no update removes those again.
StoreFollowsManifest ==
  /\ store = last \cup leftovers
  /\ last \cap leftovers = {}

\* No operation that was in the manifest in force is ever refused, whatever
\* updates fail and whenever the manifest changes; and when what is not
\* registered is forbidden, none passes that was in no manifest, though none could
\* be fetched, unless the predicate has said so: it fails safe.
RegisteredAreServed ==
  \A v \in verdicts :
    /\ v.refused => v.signature \notin v.registered
    /\ ~v.refused /\ ~dryRun =>
         \/ v.signature \in offered
         \/ forbid \in {"unset", "false"}
         \/ forbid = "function" /\ v.answer = "false"

\* m was read to its end, and its operations are those that are let in, except for
\* what failed updates have left.
InForce(m) ==
  /\ last = Read(m)
  /\ Read(m) \subseteq store /\ store \subseteq Read(m) \cup leftovers

\* If manifests are no more published, a server that is not stopped comes to serve
\* the last one, whatever failed before: retries go on.  The exception is a
\* manifest whose response the agent refused (one of another content type, or
\* malformed): it is answered with 304 from then on, and never read again.
ManifestArrives ==
  (changes = MaxChanges /\ published # NoManifest)
    ~> (\/ phase = "stopped"
        \/ known = published /\ spoiled
        \/ InForce(published))
=============================================================================

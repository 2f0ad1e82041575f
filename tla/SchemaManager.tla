---------------------------- MODULE SchemaManager ----------------------------
(***************************************************************************)
(* The schema manager, between a gateway that loads and updates the schema *)
(* and the plugins that listen to it, along the part of the server's life  *)
(* that drives it: _start() starts it and later registers the listeners,   *)
(* stop() stops it.                                                        *)
(*                                                                         *)
(* A schema is the number of its version.  The events of the gateway come  *)
(* at any time; what an event does is synchronous, hence one action.       *)
(***************************************************************************)
EXTENDS Integers

CONSTANTS
  Plugins,      \* plugins that may have a schemaDidLoadOrUpdate hook
  Modes,        \* the modes of operation considered:
                \*   "schema"      no gateway
                \*   "gateway"     a gateway with onSchemaLoadOrUpdate
                \*   "oldGateway"  one with onSchemaChange only
                \*   "bareGateway" one with neither
  MaxVersion,   \* bound: how many schemas the gateway publishes
  Broken        \* versions from which generateSchemaDerivedData throws

\* A server without a gateway derives its data in its constructor, which throws
\* for a broken schema: there is no such server.
ASSUME SchemaAssumption ==
  /\ Modes \subseteq {"schema", "gateway", "oldGateway", "bareGateway"}
  /\ MaxVersion \in Nat \ {0}
  /\ "schema" \in Modes => 1 \notin Broken

Versions == 1..MaxVersion
NoSchema == 0

VARIABLES
  mode,         \* modeSpecificState.mode
  listeners,    \* the plugins of this server that have the hook
  pc,           \* where the server is with the schema manager
  published,    \* the last version the gateway published
  subscribed,   \* the gateway calls us
  loaded,       \* the version gateway.load() returned
  current,      \* schemaDerivedData and schemaContext: assigned together
  isStopped,    \* this.isStopped
  registered,   \* onSchemaLoadOrUpdateListeners
  heard,        \* history: the versions each listener was called with
  accepted      \* history: the versions that became current

config == <<mode, listeners>>
vars == <<config, pc, published, subscribed, loaded, current, isStopped,
          registered, heard, accepted>>

TypeOK ==
  /\ mode \in Modes
  /\ listeners \subseteq Plugins
  /\ pc \in {"idle", "loading", "loaded", "hooks", "running", "failed",
             "stopping", "stopped"}
  /\ published \in Versions \cup {NoSchema}
  /\ subscribed \in {"no", "yes"}
  /\ loaded \in Versions \cup {NoSchema}
  /\ current \in Versions \cup {NoSchema}
  /\ isStopped \in {"no", "yes"}
  /\ registered \subseteq listeners
  /\ heard \in [Plugins -> SUBSET Versions]
  /\ accepted \subseteq Versions

Init ==
  /\ mode \in Modes
  /\ listeners \in SUBSET Plugins
  /\ pc = "idle"
  /\ published = IF mode = "schema" THEN 1 ELSE NoSchema
  /\ subscribed = "no"
  /\ loaded = NoSchema
  /\ current = NoSchema
  /\ isStopped = "no"
  /\ registered = {}
  /\ heard = [l \in Plugins |-> {}]
  /\ accepted = {}

-----------------------------------------------------------------------------
\* The listeners in L are called with v.  What one of them throws is logged.
Notify(L, v) ==
  heard' = [l \in Plugins |-> IF l \in L THEN heard[l] \cup {v} ELSE heard[l]]

\* Wrong on purpose: events are processed after stop().
ProcessAfterStop(v) ==
  IF v \in Broken
  THEN UNCHANGED <<current, accepted, heard>>
  ELSE current' = v /\ accepted' = accepted \cup {v} /\ Notify(registered, v)

\* processSchemaLoadOrUpdateEvent(): a broken schema throws before anything is
\* assigned.
Process(v) ==
  IF isStopped = "yes" \/ v \in Broken
  THEN UNCHANGED <<current, accepted, heard>>
  ELSE current' = v /\ accepted' = accepted \cup {v} /\ Notify(registered, v)

\* start() with a gateway, up to the await of gateway.load(); a gateway with no
\* hook to subscribe to makes it throw.
StartGateway ==
  /\ pc = "idle" /\ mode # "schema"
  /\ IF mode = "bareGateway"
     THEN pc' = "failed" /\ UNCHANGED subscribed
     ELSE pc' = "loading" /\ subscribed' = "yes"
  /\ UNCHANGED <<config, published, loaded, current, isStopped,
                 registered, heard, accepted>>

\* start() without a gateway.
StartSchema ==
  /\ pc = "idle" /\ mode = "schema"
  /\ pc' = "hooks"
  /\ Process(1)
  /\ UNCHANGED <<config, published, subscribed, loaded, isStopped, registered>>

\* The gateway has a new schema.  An old gateway may keep quiet about the first
\* one, and may call us although we unsubscribed.
GatewayPublishes ==
  /\ mode \in {"gateway", "oldGateway"}
  /\ pc # "idle"
  /\ published < MaxVersion
  /\ published' = published + 1
  /\ \/ /\ subscribed = "yes" \/ mode = "oldGateway"
        /\ Process(published + 1)
     \/ /\ \/ subscribed = "no"
           \/ mode = "oldGateway" /\ published = NoSchema
        /\ UNCHANGED <<current, accepted, heard>>
  /\ UNCHANGED <<config, pc, subscribed, loaded, isStopped, registered>>

\* gateway.load() settles; start() goes on later.
LoadResolves ==
  /\ pc = "loading"
  /\ published # NoSchema
  /\ loaded' = published
  /\ pc' = "loaded"
  /\ UNCHANGED <<config, published, subscribed, current, isStopped,
                 registered, heard, accepted>>

LoadRejects ==
  /\ pc = "loading"
  /\ pc' = "failed"
  /\ UNCHANGED <<config, published, subscribed, loaded, current, isStopped,
                 registered, heard, accepted>>

\* Wrong on purpose: the loaded schema replaces one that an update brought.
LoadContinuesBlindly ==
  /\ pc = "loaded"
  /\ Process(loaded)
  /\ pc' = IF loaded \in Broken THEN "failed" ELSE "hooks"
  /\ UNCHANGED <<config, published, subscribed, loaded, isStopped, registered>>

\* The rest of start(): the loaded schema counts only if no event came, and the
\* start fails if it is broken.
LoadContinues ==
  /\ pc = "loaded"
  /\ IF current = NoSchema
     THEN /\ Process(loaded)
          /\ pc' = IF loaded \in Broken THEN "failed" ELSE "hooks"
     ELSE pc' = "hooks" /\ UNCHANGED <<current, accepted, heard>>
  /\ UNCHANGED <<config, published, subscribed, loaded, isStopped, registered>>

\* _start() fails while the serverWillStart hooks run.
StartFails ==
  /\ pc = "hooks"
  /\ pc' = "failed"
  /\ UNCHANGED <<config, published, subscribed, loaded, current, isStopped,
                 registered, heard, accepted>>

\* Wrong on purpose: listeners learn of updates only.
RegisterSilently ==
  /\ pc = "hooks" /\ mode # "oldGateway"
  /\ pc' = "running"
  /\ registered' = listeners
  /\ UNCHANGED <<config, published, subscribed, loaded, current, isStopped,
                 heard, accepted>>

\* _start() registers the listeners, each called at once with the current
\* schema.  A gateway too old, or a listener that throws, stops the loop; the
\* one that throws is not registered.
Register ==
  /\ pc = "hooks"
  /\ \E L \in SUBSET listeners :
       /\ registered' = L
       /\ mode = "oldGateway" => L = {}
       /\ IF L = listeners
          THEN pc' = "running" /\ Notify(L, current)
          ELSE /\ pc' = "failed"
               /\ IF mode = "oldGateway" THEN UNCHANGED heard
                  ELSE \E l \in listeners \ L : Notify(L \cup {l}, current)
  /\ UNCHANGED <<config, published, subscribed, loaded, current, isStopped,
                 accepted>>

\* stop(), up to the await of gateway.stop().
Stop ==
  /\ pc = "running"
  /\ isStopped' = "yes"
  /\ subscribed' = "no"
  /\ pc' = IF mode = "schema" THEN "stopped" ELSE "stopping"
  /\ UNCHANGED <<config, published, loaded, current, registered, heard, accepted>>

GatewayStops ==
  /\ pc = "stopping"
  /\ pc' = "stopped"
  /\ UNCHANGED <<config, published, subscribed, loaded, current, isStopped,
                 registered, heard, accepted>>

Next ==
  \/ StartGateway \/ StartSchema
  \/ GatewayPublishes
  \/ LoadResolves \/ LoadRejects \/ LoadContinues
  \/ StartFails \/ Register
  \/ Stop \/ GatewayStops

Spec == Init /\ [][Next]_vars

-----------------------------------------------------------------------------
\* While the server runs, it serves the newest schema that can be served, in
\* every order of the load's answer and the gateway's events.
ServesNewest ==
  pc \in {"hooks", "running"} =>
    /\ current \in Versions \ Broken
    /\ \A v \in 1..published : v > current => v \in Broken

\* Registration buffers the latest event: a listener has heard the schema that
\* was current then and every later one, whenever it came, with no gap.
ListenersMissNothing ==
  pc \in {"running", "stopping", "stopped"} =>
    \A l \in listeners :
      /\ current \in heard[l]
      /\ heard[l] \subseteq accepted
      /\ \A v, w \in accepted : v \in heard[l] /\ w > v => w \in heard[l]

\* The schema never goes back to an older one: not by the answer of load()
\* that comes after an update, and not by an update.
SchemaMovesForward == [][current' # current => current' > current]_vars

\* Once stop() was called the schema stays, and no listener is called, even if
\* the gateway ignores that we unsubscribed.
QuietAfterStop ==
  [][isStopped = "yes" => UNCHANGED <<current, heard>>]_vars
=============================================================================

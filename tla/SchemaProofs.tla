---------------------------- MODULE SchemaProofs ----------------------------
(***************************************************************************)
(* Theorems of SchemaManager, for any listeners, any number of versions    *)
(* and any set of broken ones; then theorems of SchemaReporting, where the *)
(* schema reporting plugin is one of the listeners.                        *)
(***************************************************************************)
EXTENDS SchemaReporting, TLAPS

-----------------------------------------------------------------------------
(* The schema manager.                                                     *)

\* In which states of the server we are subscribed, and stopped.
ModeInv ==
  /\ pc \in {"loading", "loaded"} => mode \in {"gateway", "oldGateway"}
  /\ mode \in {"gateway", "oldGateway"} /\ pc \in {"loading", "loaded", "hooks",
       "running"} => subscribed = "yes"
  /\ mode = "schema" => published = 1
  /\ mode # "schema" /\ pc = "idle" => published = NoSchema
  /\ isStopped = "yes" <=> pc \in {"stopping", "stopped"}

\* Every version newer than the current one is broken; but the first version
\* of an old gateway may not have been heard of before load() answers.
NewestInv ==
  /\ current <= published /\ loaded <= published
  /\ current \notin Broken \/ current = NoSchema
  /\ pc = "idle" => current = NoSchema
  /\ pc = "loaded" => loaded # NoSchema
  /\ pc \in {"hooks", "running"} => current # NoSchema
  /\ pc \in {"loading", "loaded", "hooks", "running"} =>
       \A v \in 1..published :
         v > current => \/ v \in Broken
                        \/ /\ pc \in {"loading", "loaded"}
                           /\ current = NoSchema /\ v = 1

\* What the listeners have heard.
HeardInv ==
  /\ \A v \in accepted : v <= current
  /\ current # NoSchema => current \in accepted
  /\ \A l \in Plugins : heard[l] \subseteq accepted
  /\ pc \in {"idle", "loading", "loaded", "hooks"} =>
       registered = {} /\ \A l \in Plugins : heard[l] = {}
  /\ pc \in {"running", "stopping", "stopped"} => registered = listeners
  /\ \A l \in registered :
       /\ current \in heard[l]
       /\ \A v, w \in accepted : v \in heard[l] /\ w > v => w \in heard[l]

IInv == TypeOK /\ ModeInv /\ NewestInv /\ HeardInv

-----------------------------------------------------------------------------
LEMMA InitInv == Init => IInv
  BY SchemaAssumption
     DEF Init, IInv, TypeOK, ModeInv, NewestInv, HeardInv, Versions, NoSchema

\* An event keeps the types.
LEMMA ProcessType ==
  ASSUME TypeOK, NEW v \in Versions, Process(v)
  PROVE  /\ current' \in Versions \cup {NoSchema}
         /\ accepted' \subseteq Versions
         /\ heard' \in [Plugins -> SUBSET Versions]
<1>1. CASE UNCHANGED <<current, accepted, heard>>
  BY <1>1 DEF TypeOK
<1>2. CASE current' = v /\ accepted' = accepted \cup {v} /\ Notify(registered, v)
  <2>1. \A l \in Plugins : heard[l] \subseteq Versions
    BY DEF TypeOK
  <2>2. heard' \in [Plugins -> SUBSET Versions]
    BY <1>2, <2>1 DEF Notify
  <2>. QED
    BY <1>2, <2>2 DEF TypeOK
<1>. QED
  BY <1>1, <1>2 DEF Process

\* An event with a newer version adds it to what the listeners have heard.
LEMMA ProcessHeard ==
  ASSUME TypeOK, HeardInv, UNCHANGED <<registered, listeners>>,
         NEW v \in Versions, v > current, Process(v)
  PROVE  /\ \A w \in accepted' : w <= current'
         /\ current' # NoSchema => current' \in accepted'
         /\ \A l \in Plugins : heard'[l] \subseteq accepted'
         /\ registered = {} => \A l \in Plugins : heard'[l] = heard[l]
         /\ \A l \in registered :
              /\ current' \in heard'[l]
              /\ \A u, w \in accepted' : u \in heard'[l] /\ w > u => w \in heard'[l]
<1>. USE DEF TypeOK, HeardInv, Versions, NoSchema
<1>1. CASE UNCHANGED <<current, accepted, heard>>
  BY <1>1
<1>2. CASE current' = v /\ accepted' = accepted \cup {v} /\ Notify(registered, v)
  <2>1. \A l \in Plugins :
          heard'[l] = IF l \in registered THEN heard[l] \cup {v} ELSE heard[l]
    BY <1>2 DEF Notify
  <2>2. \A w \in accepted' : w <= current'
    BY <1>2
  <2>3. \A l \in Plugins : heard'[l] \subseteq accepted'
    BY <1>2, <2>1
  <2>4. ASSUME NEW l \in registered, NEW u \in accepted', NEW w \in accepted',
               u \in heard'[l], w > u
        PROVE  w \in heard'[l]
    <3>1. l \in Plugins /\ heard'[l] = heard[l] \cup {v}
      BY <2>1
    <3>2. CASE w = v
      BY <3>1, <3>2
    <3>3. CASE w \in accepted
      <4>1. w <= current /\ w \in Nat /\ u \in Nat /\ v \in Nat /\ current \in Nat
        BY <1>2, <3>3
      <4>2. u \in heard[l]
        BY <2>4, <3>1, <4>1
      <4>3. u \in accepted
        BY <3>1, <4>2
      <4>. QED
        BY <2>4, <3>1, <3>3, <4>2, <4>3
    <3>. QED
      BY <1>2, <3>2, <3>3
  <2>5. \A l \in registered : current' \in heard'[l]
    BY <1>2, <2>1
  <2>6. registered = {} => \A l \in Plugins : heard'[l] = heard[l]
    BY <2>1
  <2>7. current' # NoSchema => current' \in accepted'
    BY <1>2
  <2>. QED
    BY <2>2, <2>3, <2>4, <2>5, <2>6, <2>7
<1>. QED
  BY <1>1, <1>2 DEF Process

LEMMA NextType == IInv /\ [Next]_vars => TypeOK'
<1>. SUFFICES ASSUME IInv, [Next]_vars PROVE TypeOK'
  OBVIOUS
<1>. USE SchemaAssumption
     DEF config, IInv, TypeOK, ModeInv, NewestInv, Versions, NoSchema
<1>1. CASE StartGateway
  BY <1>1 DEF StartGateway
<1>2. CASE StartSchema
  <2>1. 1 \in Versions
    OBVIOUS
  <2>. QED
    BY <1>2, <2>1, ProcessType DEF StartSchema
<1>3. CASE GatewayPublishes
  <2>1. published + 1 \in Versions
    BY <1>3 DEF GatewayPublishes
  <2>. QED
    BY <1>3, <2>1, ProcessType DEF GatewayPublishes
<1>4. CASE LoadResolves
  BY <1>4 DEF LoadResolves
<1>5. CASE LoadRejects
  BY <1>5 DEF LoadRejects
<1>6. CASE LoadContinues
  <2>1. loaded \in Versions
    BY <1>6 DEF LoadContinues
  <2>. QED
    BY <1>6, <2>1, ProcessType DEF LoadContinues
<1>7. CASE StartFails
  BY <1>7 DEF StartFails
<1>8. CASE Register
  BY <1>8 DEF Register, Notify
<1>9. CASE Stop
  BY <1>9 DEF Stop
<1>10. CASE GatewayStops
  BY <1>10 DEF GatewayStops
<1>11. CASE UNCHANGED vars
  BY <1>11 DEF vars
<1>. QED
  BY <1>1, <1>2, <1>3, <1>4, <1>5, <1>6,
     <1>7, <1>8, <1>9, <1>10, <1>11 DEF Next

LEMMA NextMode == IInv /\ [Next]_vars => ModeInv'
<1>. SUFFICES ASSUME IInv, [Next]_vars PROVE ModeInv'
  OBVIOUS
<1>. USE SchemaAssumption DEF config, IInv, TypeOK, ModeInv, Versions, NoSchema
<1>1. CASE StartGateway
  BY <1>1 DEF StartGateway
<1>2. CASE StartSchema
  BY <1>2 DEF StartSchema, Process
<1>3. CASE GatewayPublishes
  BY <1>3 DEF GatewayPublishes, Process
<1>4. CASE LoadResolves
  BY <1>4 DEF LoadResolves
<1>5. CASE LoadRejects
  BY <1>5 DEF LoadRejects
<1>6. CASE LoadContinues
  BY <1>6 DEF LoadContinues, Process
<1>7. CASE StartFails
  BY <1>7 DEF StartFails
<1>8. CASE Register
  BY <1>8 DEF Register, Notify
<1>9. CASE Stop
  BY <1>9 DEF Stop
<1>10. CASE GatewayStops
  BY <1>10 DEF GatewayStops
<1>11. CASE UNCHANGED vars
  BY <1>11 DEF vars
<1>. QED
  BY <1>1, <1>2, <1>3, <1>4, <1>5, <1>6,
     <1>7, <1>8, <1>9, <1>10, <1>11 DEF Next

LEMMA NextNewest == IInv /\ [Next]_vars => NewestInv'
<1>. SUFFICES ASSUME IInv, [Next]_vars PROVE NewestInv'
  OBVIOUS
<1>. USE SchemaAssumption
     DEF config, IInv, TypeOK, ModeInv, NewestInv, Versions, NoSchema
<1>1. CASE StartGateway
  BY <1>1 DEF StartGateway
<1>2. CASE StartSchema
  BY <1>2 DEF StartSchema, Process
<1>3. CASE GatewayPublishes
  BY <1>3 DEF GatewayPublishes, Process
<1>4. CASE LoadResolves
  BY <1>4 DEF LoadResolves
<1>5. CASE LoadRejects
  BY <1>5 DEF LoadRejects
<1>6. CASE LoadContinues
  BY <1>6 DEF LoadContinues, Process
<1>7. CASE StartFails
  BY <1>7 DEF StartFails
<1>8. CASE Register
  BY <1>8 DEF Register, Notify
<1>9. CASE Stop
  BY <1>9 DEF Stop
<1>10. CASE GatewayStops
  BY <1>10 DEF GatewayStops
<1>11. CASE UNCHANGED vars
  BY <1>11 DEF vars
<1>. QED
  BY <1>1, <1>2, <1>3, <1>4, <1>5, <1>6,
     <1>7, <1>8, <1>9, <1>10, <1>11 DEF Next

LEMMA NextHeard == IInv /\ [Next]_vars => HeardInv'
<1>. SUFFICES ASSUME IInv, [Next]_vars PROVE HeardInv'
  OBVIOUS
<1>. USE SchemaAssumption
     DEF config, IInv, TypeOK, ModeInv, NewestInv, HeardInv, Versions, NoSchema
<1>1. CASE StartGateway
  BY <1>1 DEF StartGateway
<1>2. CASE StartSchema
  <2>1. 1 \in Versions /\ 1 > current /\ Process(1) /\ UNCHANGED <<registered, listeners>>
    BY <1>2 DEF StartSchema
  <2>. QED
    BY <1>2, <2>1, ProcessHeard DEF StartSchema
<1>3. CASE GatewayPublishes
  <2>1. published + 1 \in Versions /\ published + 1 > current
    BY <1>3 DEF GatewayPublishes
  <2>2. CASE Process(published + 1)
    BY <1>3, <2>1, <2>2, ProcessHeard DEF GatewayPublishes
  <2>3. CASE UNCHANGED <<current, accepted, heard>>
    BY <1>3, <2>3 DEF GatewayPublishes
  <2>. QED
    BY <1>3, <2>2, <2>3 DEF GatewayPublishes
<1>4. CASE LoadResolves
  BY <1>4 DEF LoadResolves
<1>5. CASE LoadRejects
  BY <1>5 DEF LoadRejects
<1>6. CASE LoadContinues
  <2>1. CASE current = NoSchema
    <3>1. /\ loaded \in Versions /\ loaded > current
          /\ Process(loaded) /\ UNCHANGED <<registered, listeners>>
      BY <1>6, <2>1 DEF LoadContinues
    <3>. QED
      BY <1>6, <3>1, ProcessHeard DEF LoadContinues
  <2>2. CASE current # NoSchema
    <3>1. /\ pc = "loaded" /\ pc' = "hooks"
          /\ UNCHANGED <<current, accepted, heard, registered, listeners>>
      BY <1>6, <2>2 DEF LoadContinues
    <3>. QED
      BY <3>1
  <2>. QED
    BY <2>1, <2>2
<1>7. CASE StartFails
  BY <1>7 DEF StartFails
<1>8. CASE Register
  BY <1>8 DEF Register, Notify
<1>9. CASE Stop
  BY <1>9 DEF Stop
<1>10. CASE GatewayStops
  BY <1>10 DEF GatewayStops
<1>11. CASE UNCHANGED vars
  BY <1>11 DEF vars
<1>. QED
  BY <1>1, <1>2, <1>3, <1>4, <1>5, <1>6,
     <1>7, <1>8, <1>9, <1>10, <1>11 DEF Next

LEMMA Invariance == Spec => []IInv
<1>1. IInv /\ [Next]_vars => IInv'
  BY NextType, NextMode, NextNewest, NextHeard DEF IInv
<1>. QED
  BY <1>1, InitInv, PTL DEF Spec

-----------------------------------------------------------------------------
\* Every variable keeps its type.
THEOREM TypeCorrect == Spec => []TypeOK
<1>1. IInv => TypeOK
  BY DEF IInv
<1>. QED
  BY <1>1, Invariance, PTL

\* A running server serves the newest schema that can be served.
THEOREM Newest == Spec => []ServesNewest
<1>1. IInv => ServesNewest
  BY DEF IInv, TypeOK, NewestInv, ServesNewest, Versions, NoSchema
<1>. QED
  BY <1>1, Invariance, PTL

\* A listener has heard the schema that was current when it was registered and
\* every one after.
THEOREM NothingMissed == Spec => []ListenersMissNothing
<1>1. IInv => ListenersMissNothing
  BY DEF IInv, TypeOK, HeardInv, ListenersMissNothing
<1>. QED
  BY <1>1, Invariance, PTL

\* The schema never goes back.
THEOREM Forward == Spec => SchemaMovesForward
<1>1. ASSUME IInv, [Next]_vars PROVE current' # current => current' > current
  <2>. USE <1>1, SchemaAssumption
       DEF IInv, TypeOK, ModeInv, NewestInv, Versions, NoSchema, Process
  <2>1. CASE UNCHANGED current
    BY <2>1
  <2>2. CASE StartSchema
    BY <2>2 DEF StartSchema
  <2>3. CASE GatewayPublishes
    BY <2>3 DEF GatewayPublishes
  <2>4. CASE LoadContinues
    BY <2>4 DEF LoadContinues
  <2>. QED
    BY <2>1, <2>2, <2>3, <2>4
       DEF Next, vars, config, StartGateway, LoadResolves, LoadRejects, StartFails,
           Register, Stop, GatewayStops
<1>. QED
  BY <1>1, Invariance, PTL DEF Spec, SchemaMovesForward

\* Nothing changes and nobody is called after stop().
THEOREM Quiet == Spec => QuietAfterStop
<1>1. ASSUME IInv, [Next]_vars, isStopped = "yes"
      PROVE  UNCHANGED <<current, heard>>
  <2>1. pc \in {"stopping", "stopped"}
    BY <1>1 DEF IInv, ModeInv
  <2>. QED
    BY <1>1, <2>1
       DEF Next, vars, config, Process, StartGateway, StartSchema, GatewayPublishes,
           LoadResolves, LoadRejects, LoadContinues, StartFails, Register, Stop,
           GatewayStops
<1>. QED
  BY <1>1, Invariance, PTL DEF Spec, QuietAfterStop

-----------------------------------------------------------------------------
(* The schema manager with the schema reporting plugin.                    *)

\* Which reporters there were, and what they are up to.
ReporterInv ==
  /\ \A v \in Versions : timer[v] # "none" => v = currentReporter /\ v \notin stopped
  /\ \A v \in Versions : inFlight[v] # "none" => v = currentReporter \/ v \in stopped
  /\ stopped \subseteq heard[Reporter]
  /\ currentReporter \notin stopped \cup {NoSchema} =>
       (timer[currentReporter] = "none") # (inFlight[currentReporter] = "none")

\* The reporter there is, among what the plugin was told.
CurrentInv ==
  /\ currentReporter # NoSchema => currentReporter \in heard[Reporter]
  /\ heard[Reporter] # {} => currentReporter # NoSchema
  /\ \A v \in heard[Reporter] :
       IF overridden THEN currentReporter <= v
       ELSE v <= currentReporter /\ (v = currentReporter \/ v \in stopped)
  /\ isStopped = "yes" /\ currentReporter # NoSchema => currentReporter \in stopped

AllInv == IInv /\ ReportingTypeOK /\ ReporterInv /\ CurrentInv

-----------------------------------------------------------------------------
\* A step of the composition is a step of the manager, or leaves it alone.
LEMMA ManagerSteps == [ReportingNext]_allVars => [Next]_vars
  BY DEF ReportingNext, allVars, ManagerStep, Send, Answered, ReportFails, Refused

LEMMA ManagerInv == IInv /\ [Next]_vars => IInv'
  BY NextType, NextMode, NextNewest, NextHeard DEF IInv

\* What the plugin is told in a step of the manager: nothing, or one version, and
\* that is newer than all it was told before; and nothing once the manager stops.
LEMMA Hearing ==
  ASSUME IInv, Next
  PROVE  /\ \/ heard'[Reporter] = heard[Reporter]
            \/ \E v \in Versions : /\ heard'[Reporter] = heard[Reporter] \cup {v}
                                   /\ \A w \in heard[Reporter] : w < v
         /\ isStopped' # isStopped => heard'[Reporter] = heard[Reporter] /\ isStopped' = "yes"
         /\ isStopped = "yes" => heard'[Reporter] = heard[Reporter] /\ isStopped' = "yes"
<1>. USE SchemaAssumption, ReportingAssumption
         DEF config, IInv, TypeOK, ModeInv, NewestInv, HeardInv, Versions, NoSchema
<1>1. CASE StartGateway \/ LoadResolves \/ LoadRejects \/ StartFails \/ Stop \/ GatewayStops
  BY <1>1 DEF StartGateway, LoadResolves, LoadRejects, StartFails, Stop, GatewayStops
<1>2. ASSUME NEW v \in Versions, v > current, Process(v), UNCHANGED isStopped
      PROVE  /\ \/ heard'[Reporter] = heard[Reporter]
                \/ /\ heard'[Reporter] = heard[Reporter] \cup {v}
                   /\ \A w \in heard[Reporter] : w < v
             /\ isStopped = "yes" => heard'[Reporter] = heard[Reporter]
  <2>1. \A w \in heard[Reporter] : w \in Versions /\ w <= current
    OBVIOUS
  <2>2. \A w \in heard[Reporter] : w < v
    BY <1>2, <2>1
  <2>. QED
    BY <1>2, <2>2 DEF Process, Notify
<1>3. CASE StartSchema
  <2>1. 1 \in Versions /\ 1 > current /\ Process(1) /\ UNCHANGED isStopped
    BY <1>3 DEF StartSchema
  <2>. QED
    BY <1>2, <2>1
<1>4. CASE GatewayPublishes
  <2>1. published + 1 \in Versions /\ published + 1 > current /\ UNCHANGED isStopped
    BY <1>4 DEF GatewayPublishes
  <2>2. Process(published + 1) \/ UNCHANGED heard
    BY <1>4 DEF GatewayPublishes
  <2>. QED
    BY <1>2, <2>1, <2>2
<1>5. CASE LoadContinues
  <2>1. UNCHANGED isStopped /\ loaded \in Versions
    BY <1>5 DEF LoadContinues
  <2>2. (loaded > current /\ Process(loaded)) \/ UNCHANGED heard
    BY <1>5, <2>1 DEF LoadContinues
  <2>. QED
    BY <1>2, <2>1, <2>2
<1>6. CASE Register
  <2>1. pc = "hooks" /\ UNCHANGED isStopped /\ isStopped # "yes" /\ heard[Reporter] = {}
    BY <1>6 DEF Register
  <2>2. current \in Versions
    BY <2>1
  <2>3. UNCHANGED heard \/ \E L \in SUBSET Plugins : Notify(L, current)
    BY <1>6 DEF Register
  <2>4. heard'[Reporter] = heard[Reporter] \/ heard'[Reporter] = heard[Reporter] \cup {current}
    BY <2>3 DEF Notify
  <2>. QED
    BY <2>1, <2>2, <2>4
<1>. QED
  BY <1>1, <1>3, <1>4, <1>5, <1>6 DEF Next

-----------------------------------------------------------------------------
LEMMA ReportingInitInv == ReportingInit => AllInv
<1>. SUFFICES ASSUME ReportingInit PROVE AllInv
  OBVIOUS
<1>1. IInv
  BY InitInv DEF ReportingInit
<1>2. heard[Reporter] = {} /\ isStopped = "no"
  BY ReportingAssumption DEF ReportingInit, Init
<1>3. ReportingTypeOK
  BY DEF ReportingInit, ReportingTypeOK, Timers
<1>4. ReporterInv /\ CurrentInv
  BY <1>2 DEF ReportingInit, ReporterInv, CurrentInv
<1>. QED
  BY <1>1, <1>3, <1>4 DEF AllInv

\* The plugin replaces its reporter when it hears of a newer version.
LEMMA HearInv ==
  ASSUME AllInv, IInv', NEW v \in Versions, Hear(v), UNCHANGED <<overridden, isStopped>>,
         heard'[Reporter] = heard[Reporter] \cup {v}, \A w \in heard[Reporter] : w < v,
         isStopped # "yes"
  PROVE  AllInv'
<1>. USE DEF AllInv
<1>0. v \notin heard[Reporter] /\ v # NoSchema /\ v \notin stopped /\ v # currentReporter
  BY DEF ReporterInv, CurrentInv, Versions, NoSchema
<1>1. CASE overridden /\ currentReporter # NoSchema
  <2>1. UNCHANGED reporting
    BY <1>1 DEF Hear
  <2>2. ReportingTypeOK' /\ ReporterInv'
    BY <2>1 DEF ReportingTypeOK, ReporterInv, reporting
  <2>3. currentReporter < v
    BY <1>1 DEF CurrentInv
  <2>4. CurrentInv'
    BY <1>1, <2>1, <2>3 DEF CurrentInv, reporting, ReportingTypeOK, Versions, NoSchema
  <2>. QED
    BY <2>2, <2>4
<1>2. CASE ~(overridden /\ currentReporter # NoSchema)
  <2>1. /\ stopped' = stopped \cup ({currentReporter} \ {NoSchema})
        /\ timer' = [w \in Versions |-> IF w = v THEN "hash"
                                        ELSE IF w = currentReporter THEN "none" ELSE timer[w]]
        /\ currentReporter' = v /\ UNCHANGED <<inFlight, reported>>
    BY <1>2 DEF Hear
  <2>2. ReportingTypeOK'
    BY <2>1 DEF ReportingTypeOK, Timers
  <2>3. inFlight[v] = "none" /\ v \notin stopped'
    BY <1>0, <2>1 DEF ReporterInv
  <2>4. ReporterInv'
    <3>1. \A w \in Versions : timer'[w] # "none" => w = v
      BY <2>1 DEF ReporterInv
    <3>2. \A w \in Versions : inFlight'[w] # "none" => w \in stopped'
      BY <2>1 DEF ReporterInv, Versions, NoSchema
    <3>3. stopped' \subseteq heard'[Reporter]
      BY <2>1 DEF ReporterInv, CurrentInv
    <3>4. timer'[v] = "hash" /\ inFlight'[v] = "none"
      BY <2>1, <2>3
    <3>. QED
      BY <2>1, <2>3, <3>1, <3>2, <3>3, <3>4 DEF ReporterInv
  <2>5. CurrentInv'
    <3>1. CASE overridden
      <4>1. heard[Reporter] = {}
        BY <1>2, <3>1 DEF CurrentInv
      <4>. QED
        BY <1>0, <2>1, <3>1, <4>1 DEF CurrentInv, Versions
    <3>2. CASE ~overridden
      <4>1. \A w \in heard[Reporter] : w \in stopped' /\ w <= v
        BY <1>0, <2>1, <3>2 DEF CurrentInv, Versions, NoSchema, IInv, TypeOK
      <4>. QED
        BY <1>0, <2>1, <3>2, <4>1 DEF CurrentInv, Versions
    <3>. QED
      BY <3>1, <3>2 DEF ReportingTypeOK
  <2>. QED
    BY <2>2, <2>4, <2>5
<1>. QED
  BY <1>1, <1>2

LEMMA ManagerStepInv == AllInv /\ ManagerStep => AllInv'
<1>. SUFFICES ASSUME AllInv, ManagerStep PROVE AllInv'
  OBVIOUS
<1>1. Next /\ UNCHANGED overridden
  BY DEF ManagerStep
<1>2. IInv'
  BY <1>1, ManagerInv DEF AllInv
<1>3. /\ \/ heard'[Reporter] = heard[Reporter]
         \/ \E v \in Versions : /\ heard'[Reporter] = heard[Reporter] \cup {v}
                                /\ \A w \in heard[Reporter] : w < v
      /\ isStopped' # isStopped => heard'[Reporter] = heard[Reporter] /\ isStopped' = "yes"
      /\ isStopped = "yes" => heard'[Reporter] = heard[Reporter] /\ isStopped' = "yes"
  BY <1>1, Hearing DEF AllInv
<1>4. CASE isStopped' # isStopped
  <2>1. /\ StopReporter /\ UNCHANGED <<currentReporter, inFlight, reported, overridden>>
        /\ heard'[Reporter] = heard[Reporter]
    BY <1>1, <1>3, <1>4 DEF ManagerStep
  <2>2. ReportingTypeOK'
    BY <2>1 DEF AllInv, ReportingTypeOK, StopReporter, Timers
  <2>3. ReporterInv'
    BY <2>1 DEF AllInv, ReporterInv, CurrentInv, ReportingTypeOK, StopReporter
  <2>4. CurrentInv'
    BY <2>1 DEF AllInv, CurrentInv, StopReporter
  <2>. QED
    BY <1>2, <2>2, <2>3, <2>4 DEF AllInv
<1>5. CASE isStopped' = isStopped /\ heard'[Reporter] = heard[Reporter]
  <2>1. UNCHANGED reporting
    BY <1>5 DEF ManagerStep
  <2>. QED
    BY <1>1, <1>2, <1>5, <2>1
       DEF AllInv, ReportingTypeOK, ReporterInv, CurrentInv, reporting
<1>6. CASE isStopped' = isStopped /\ heard'[Reporter] # heard[Reporter]
  <2>1. PICK v \in Versions : /\ heard'[Reporter] = heard[Reporter] \cup {v}
                              /\ \A w \in heard[Reporter] : w < v
    BY <1>3, <1>6
  <2>2. v \notin heard[Reporter] /\ isStopped # "yes"
    BY <1>3, <1>6, <2>1
  <2>3. Hear(v)
    BY <1>6, <2>1, <2>2 DEF ManagerStep
  <2>. QED
    BY <1>1, <1>2, <1>6, <2>1, <2>2, <2>3, HearInv
<1>. QED
  BY <1>4, <1>5, <1>6

\* What a reporter does by itself.
LEMMA ReporterStepInv ==
  ASSUME AllInv, NEW v \in Versions,
         \/ Send(v)
         \/ \E withCoreSchema \in BOOLEAN : Answered(v, withCoreSchema)
         \/ ReportFails(v) \/ Refused(v)
  PROVE  AllInv'
<1>. USE DEF AllInv
<1>1. UNCHANGED <<vars, overridden, currentReporter>>
  BY DEF Send, Answered, ReportFails, Refused
<1>2. IInv'
  BY <1>1, ManagerInv
<1>3. UNCHANGED <<heard, isStopped>>
  BY <1>1 DEF vars
<1>4. CASE Send(v)
  <2>1. v = currentReporter /\ v \notin stopped /\ timer[v] # "none"
    BY <1>4 DEF Send, ReporterInv
  <2>2. /\ timer' = [timer EXCEPT ![v] = "none"]
        /\ inFlight' = [inFlight EXCEPT ![v] = timer[v]]
        /\ UNCHANGED <<stopped, reported>>
    BY <1>4, <2>1 DEF Send
  <2>3. ReportingTypeOK'
    BY <1>1, <2>2 DEF ReportingTypeOK, Timers
  <2>4. ReporterInv' /\ CurrentInv'
    BY <1>1, <1>3, <2>1, <2>2 DEF ReporterInv, CurrentInv, ReportingTypeOK
  <2>. QED
    BY <1>2, <2>3, <2>4
<1>5. ASSUME inFlight[v] # "none", NEW next \in {"hash", "core"}, Schedule(v, next),
             inFlight' = [inFlight EXCEPT ![v] = "none"], UNCHANGED stopped,
             reported' \subseteq Versions
      PROVE  AllInv'
  <2>1. v = currentReporter \/ v \in stopped
    BY <1>5 DEF ReporterInv
  <2>2. ReportingTypeOK'
    BY <1>1, <1>5 DEF ReportingTypeOK, Timers, Schedule
  <2>3. CASE v \in stopped
    <3>1. UNCHANGED timer
      BY <1>5, <2>3 DEF Schedule
    <3>2. ReporterInv' /\ CurrentInv'
      BY <1>1, <1>3, <1>5, <2>3, <3>1 DEF ReporterInv, CurrentInv, ReportingTypeOK
    <3>. QED
      BY <1>2, <2>2, <3>2
  <2>4. CASE v \notin stopped
    <3>1. timer' = [timer EXCEPT ![v] = next]
      BY <1>5, <2>4 DEF Schedule
    <3>2. ReporterInv' /\ CurrentInv'
      BY <1>1, <1>3, <1>5, <2>1, <2>4, <3>1 DEF ReporterInv, CurrentInv, ReportingTypeOK
    <3>. QED
      BY <1>2, <2>2, <3>2
  <2>. QED
    BY <2>3, <2>4
<1>6. ASSUME NEW withCoreSchema \in BOOLEAN, Answered(v, withCoreSchema) PROVE AllInv'
  BY <1>5, <1>6 DEF Answered, ReportingTypeOK
<1>7. CASE ReportFails(v)
  BY <1>5, <1>7 DEF ReportFails, ReportingTypeOK
<1>8. CASE Refused(v)
  <2>1. /\ inFlight[v] # "none" /\ inFlight' = [inFlight EXCEPT ![v] = "none"]
        /\ stopped' = stopped \cup {v} /\ timer' = [timer EXCEPT ![v] = "none"]
        /\ UNCHANGED reported
    BY <1>8 DEF Refused
  <2>2. v \in heard[Reporter] /\ (v = currentReporter \/ v \in stopped)
    BY <2>1 DEF ReporterInv, CurrentInv, Versions, NoSchema
  <2>3. ReportingTypeOK'
    BY <1>1, <2>1 DEF ReportingTypeOK, Timers
  <2>4. ReporterInv'
    BY <1>1, <1>3, <2>1, <2>2 DEF ReporterInv, ReportingTypeOK
  <2>5. CurrentInv'
    BY <1>1, <1>3, <2>1 DEF CurrentInv
  <2>. QED
    BY <1>2, <2>3, <2>4, <2>5
<1>. QED
  BY <1>4, <1>6, <1>7, <1>8

LEMMA ReportingNextInv == AllInv /\ [ReportingNext]_allVars => AllInv'
<1>. SUFFICES ASSUME AllInv, [ReportingNext]_allVars PROVE AllInv'
  OBVIOUS
<1>1. CASE UNCHANGED allVars
  <2>1. IInv'
    BY <1>1, ManagerInv DEF allVars, AllInv
  <2>. QED
    BY <1>1, <2>1
       DEF allVars, vars, reporting, AllInv, ReportingTypeOK, ReporterInv, CurrentInv
<1>. QED
  BY <1>1, ManagerStepInv, ReporterStepInv DEF ReportingNext

LEMMA ReportingInvariance == ReportingSpec => []AllInv
  BY ReportingInitInv, ReportingNextInv, PTL DEF ReportingSpec

-----------------------------------------------------------------------------
\* The plugin does not disturb the schema manager: what holds of it alone holds
\* of it with the plugin.
THEOREM ManagerUndisturbed == ReportingSpec => Spec
  BY ManagerSteps, PTL DEF ReportingSpec, ReportingInit, Spec

\* The plugin's variables keep their types.
THEOREM ReportingTypeCorrect == ReportingSpec => []ReportingTypeOK
  BY ReportingInvariance, PTL DEF AllInv

\* However the gateway's events, the timers, the registry's answers and stop()
\* interleave, one schema is being reported, and it is the right one.
THEOREM OneSchema == ReportingSpec => []OneSchemaIsReported
<1>1. AllInv => OneSchemaIsReported
  BY DEF AllInv, ReporterInv, CurrentInv, OneSchemaIsReported
<1>. QED
  BY <1>1, ReportingInvariance, PTL
=============================================================================

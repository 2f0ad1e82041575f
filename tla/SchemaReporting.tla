--------------------------- MODULE SchemaReporting ---------------------------
(***************************************************************************)
(* The schema reporting plugin, composed with the schema manager that it   *)
(* listens to.  For each schema that it hears of, the plugin replaces its  *)
(* reporter by one that reports the new schema: after a delay, and then    *)
(* whenever the registry asked for, with the schema's text if it asked.    *)
(*                                                                         *)
(* A reporter is known by the version of its schema.                       *)
(***************************************************************************)
EXTENDS SchemaManager

CONSTANT Reporter   \* the plugin

ASSUME ReportingAssumption == Reporter \in Plugins

VARIABLES
  overridden, \* whether overrideReportedSchema is given
  currentReporter, \* currentSchemaReporter, or NoSchema
  stopped,    \* the reporters with isStopped
  timer,      \* each reporter's pollTimer: "none", "hash", "core"
  inFlight,   \* the report it has sent: "none", "hash", "core"
  reported    \* history: the reporters whose schema the registry knows

reporting == <<currentReporter, stopped, timer, inFlight, reported>>
allVars == <<vars, overridden, reporting>>

Timers == {"none", "hash", "core"}

ReportingTypeOK ==
  /\ overridden \in BOOLEAN
  /\ currentReporter \in Versions \cup {NoSchema}
  /\ stopped \subseteq Versions
  /\ timer \in [Versions -> Timers] /\ inFlight \in [Versions -> Timers]
  /\ reported \subseteq Versions

ReportingInit ==
  /\ Init
  /\ overridden \in BOOLEAN
  /\ currentReporter = NoSchema
  /\ stopped = {}
  /\ timer = [v \in Versions |-> "none"] /\ inFlight = [v \in Versions |-> "none"]
  /\ reported = {}

-----------------------------------------------------------------------------
\* currentSchemaReporter?.stop()
StopReporter ==
  /\ stopped' = stopped \cup ({currentReporter} \ {NoSchema})
  /\ timer' = [v \in Versions |-> IF v = currentReporter THEN "none" ELSE timer[v]]

\* schemaDidLoadOrUpdate() of the plugin, for version v.
Hear(v) ==
  IF overridden /\ currentReporter # NoSchema THEN UNCHANGED reporting
  ELSE /\ stopped' = stopped \cup ({currentReporter} \ {NoSchema})
       /\ timer' = [w \in Versions |-> IF w = v THEN "hash"
                                       ELSE IF w = currentReporter THEN "none" ELSE timer[w]]
       /\ currentReporter' = v
       /\ UNCHANGED <<inFlight, reported>>

\* A step of the schema manager, with what the plugin does in it: it listens,
\* and its serverWillStop() is called when the manager is stopped.
ManagerStep ==
  /\ Next
  /\ IF isStopped' # isStopped
     THEN StopReporter /\ UNCHANGED <<currentReporter, inFlight, reported>>
     ELSE IF \E v \in Versions : v \in heard'[Reporter] \ heard[Reporter]
     THEN \E v \in heard'[Reporter] \ heard[Reporter] : Hear(v)
     ELSE UNCHANGED reporting
  /\ UNCHANGED overridden

\* The timer fires: sendOneReportAndScheduleNext() sends a report.
Send(v) ==
  /\ timer[v] # "none"
  /\ timer' = [timer EXCEPT ![v] = "none"]
  /\ inFlight' = IF v \in stopped THEN inFlight ELSE [inFlight EXCEPT ![v] = timer[v]]
  /\ UNCHANGED <<vars, overridden, currentReporter, stopped, reported>>

\* Wrong on purpose: the next report is scheduled though the reporter was
\* stopped while this one was in flight.
ScheduleAlways(v, next) == timer' = [timer EXCEPT ![v] = next]

Schedule(v, next) ==
  timer' = IF v \in stopped THEN timer ELSE [timer EXCEPT ![v] = next]

\* reportSchema() has the registry's answer: when to report again, and whether
\* with the schema.  It knows the schema when it does not ask for it.
Answered(v, withCoreSchema) ==
  /\ inFlight[v] # "none"
  /\ inFlight[v] = "core" => ~withCoreSchema
  /\ inFlight' = [inFlight EXCEPT ![v] = "none"]
  /\ Schedule(v, IF withCoreSchema THEN "core" ELSE "hash")
  /\ reported' = IF withCoreSchema THEN reported ELSE reported \cup {v}
  /\ UNCHANGED <<vars, overridden, currentReporter, stopped>>

\* Wrong on purpose: an error ends the reports.
ReportFailsForGood(v) ==
  /\ inFlight[v] # "none"
  /\ inFlight' = [inFlight EXCEPT ![v] = "none"]
  /\ UNCHANGED <<vars, overridden, currentReporter, stopped, timer, reported>>

\* The report fails: another after the fallback delay, without the schema.
ReportFails(v) ==
  /\ inFlight[v] # "none"
  /\ inFlight' = [inFlight EXCEPT ![v] = "none"]
  /\ Schedule(v, "hash")
  /\ UNCHANGED <<vars, overridden, currentReporter, stopped, reported>>

\* ReportSchemaError: the reporter stops itself.
Refused(v) ==
  /\ inFlight[v] # "none"
  /\ inFlight' = [inFlight EXCEPT ![v] = "none"]
  /\ stopped' = stopped \cup {v}
  /\ timer' = [timer EXCEPT ![v] = "none"]
  /\ UNCHANGED <<vars, overridden, currentReporter, reported>>

ReportingNext ==
  \/ ManagerStep
  \/ \E v \in Versions :
       \/ Send(v)
       \/ \E withCoreSchema \in BOOLEAN : Answered(v, withCoreSchema)
       \/ ReportFails(v) \/ Refused(v)

\* Timers fire; the registry does not fail for ever.
ReportingFairness ==
  \A v \in Versions : /\ WF_allVars(Send(v))
                      /\ SF_allVars(Answered(v, FALSE))
                      /\ WF_allVars(\/ Answered(v, FALSE) \/ Answered(v, TRUE)
                                    \/ ReportFails(v) \/ Refused(v))

ReportingSpec == ReportingInit /\ [][ReportingNext]_allVars /\ ReportingFairness

-----------------------------------------------------------------------------
\* At any time one schema is being reported: the one that the plugin was told of
\* last (the first, if the schema is overridden).  A reporter that was replaced
\* has no timer, even if its report was in flight then; none reports once the
\* server was stopped, whatever the gateway still sends; and a reporter that
\* goes on has always just one report or timer.
OneSchemaIsReported ==
  /\ \A v \in Versions : timer[v] # "none" => v = currentReporter /\ v \notin stopped
  /\ \A v \in heard[Reporter] : v = currentReporter \/ v \in stopped \/ overridden
  /\ heard[Reporter] # {} =>
       \A v \in heard[Reporter] : IF overridden THEN currentReporter <= v
                                  ELSE v <= currentReporter
  /\ isStopped = "yes" /\ currentReporter # NoSchema => currentReporter \in stopped
  /\ currentReporter \notin stopped \cup {NoSchema} =>
       (timer[currentReporter] = "none") # (inFlight[currentReporter] = "none")

\* The registry gets to know the schema of every reporter that is not stopped,
\* though reports fail; the reports do not end with an error.
SchemaIsReported ==
  \A v \in Versions : currentReporter = v ~> (v \in reported \/ v \in stopped)
=============================================================================

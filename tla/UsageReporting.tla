---------------------------- MODULE UsageReporting ----------------------------
(***************************************************************************)
(* The usage reporting plugin: traces of answered requests are gathered in *)
(* one report per schema, and a report leaves when a timer fires, when it  *)
(* is big, at once, or when the server stops.                              *)
(*                                                                         *)
(* A job is a call of sendReport() that has taken a report; it compresses  *)
(* it and posts it to the ingress, several times if it must.               *)
(***************************************************************************)
EXTENDS Integers, FiniteSets

CONSTANTS
  Traces,       \* the requests whose trace is captured
  Schemas,      \* schemas, known by the id computed from their text
  MaxSize,      \* maxUncompressedReportSize, in traces
  MaxAttempts,  \* maxAttempts
  Immediately,  \* sendReportsImmediately: the values considered, "no", "yes"
  Overrides,    \* overrideReportedSchema: the values considered
  NoSchema      \* the value of an option that is not set, an empty cache

ASSUME ReportingAssumption ==
  /\ MaxSize \in Nat \ {0}
  /\ MaxAttempts \in Nat \ {0}
  /\ Immediately \subseteq {"no", "yes"}
  /\ Overrides \subseteq Schemas \cup {NoSchema}
  /\ NoSchema \notin Schemas

VARIABLES
  immediately,
  overridden,   \* overriddenExecutableSchemaId
  phase,        \* each trace: "none", "scheduled" (waits for setImmediate),
                \* "added", "ignored", "dropped"
  schema,       \* the schema its request was processed with
  lastSeen,     \* lastSeenExecutableSchemaToId
  reports,      \* reportDataByExecutableSchemaId: the report under each id
  jobs,
  settled,      \* the traces of jobs that ended well
  failed,       \* the traces of jobs that ended with an error
  received,     \* how often the ingress received each trace
  stopPc,       \* serverWillStop: "running", "flushing", "stopped"
  atStop        \* history: the traces in reports when serverWillStop came

vars == <<immediately, overridden, phase, schema, lastSeen, reports, jobs, settled,
          failed, received, stopPc, atStop>>

Jobs == [id : Schemas, traces : SUBSET Traces, step : {"gzip", "post"},
         tries : 0..MaxAttempts, by : {"trace", "timer", "stop"}]

TypeOK ==
  /\ immediately \in Immediately /\ overridden \in Overrides
  /\ phase \in [Traces -> {"none", "scheduled", "added", "ignored", "dropped"}]
  /\ schema \in [Traces -> Schemas]
  /\ lastSeen \in [schema : Schemas \cup {NoSchema}, id : Schemas \cup {NoSchema}]
  /\ reports \in [Schemas -> SUBSET Traces]
  /\ jobs \subseteq Jobs
  /\ \A j \in jobs : j.traces # {}
  /\ settled \subseteq Traces /\ failed \subseteq Traces
  /\ received \in [Traces -> 0..MaxAttempts]
  /\ stopPc \in {"running", "flushing", "stopped"}
  /\ atStop \subseteq Traces

Init ==
  /\ immediately \in Immediately /\ overridden \in Overrides
  /\ phase = [t \in Traces |-> "none"]
  /\ schema \in [Traces -> Schemas]
  /\ lastSeen = [schema |-> NoSchema, id |-> NoSchema]
  /\ reports = [s \in Schemas |-> {}]
  /\ jobs = {}
  /\ settled = {} /\ failed = {}
  /\ received = [t \in Traces |-> 0]
  /\ stopPc = "running"
  /\ atStop = {}

-----------------------------------------------------------------------------
\* Wrong on purpose: the report is not reset.
TakeOnly(content, ids, why) ==
  /\ reports' = content
  /\ jobs' = jobs \cup
       {[id |-> i, traces |-> content[i], step |-> "gzip", tries |-> 0, by |-> why] :
          i \in {i \in ids : content[i] # {}}}

\* sendReport() of the reports in ids, up to its first await: it takes the
\* report and starts a new one; an empty report is not sent.
Take(content, ids, why) ==
  /\ reports' = [i \in Schemas |-> IF i \in ids THEN {} ELSE content[i]]
  /\ jobs' = jobs \cup
       {[id |-> i, traces |-> content[i], step |-> "gzip", tries |-> 0, by |-> why] :
          i \in {i \in ids : content[i] # {}}}

\* willSendResponse, up to the setImmediate of addTrace().
WillSendResponse(t) ==
  /\ phase[t] = "none"
  /\ phase' = [phase EXCEPT ![t] =
                 IF stopPc = "running" THEN "scheduled" ELSE "ignored"]
  /\ UNCHANGED <<immediately, overridden, schema, lastSeen, reports, jobs,
                 settled, failed, received, stopPc, atStop>>

\* executableSchemaIdForSchema(): one id is cached.
ExecutableSchemaId(s) == IF lastSeen.schema = s THEN lastSeen.id ELSE s

\* Unless an id overrides it: then nothing is computed.
See(s) ==
  lastSeen' = IF overridden = NoSchema THEN [schema |-> s, id |-> ExecutableSchemaId(s)]
              ELSE lastSeen

IdFor(s) == IF overridden = NoSchema THEN ExecutableSchemaId(s) ELSE overridden

\* Wrong on purpose: the report that a trace made big stays.
AddTraceKeep(t) ==
  /\ phase[t] = "scheduled"
  /\ See(schema[t])
  /\ reports' = [reports EXCEPT ![IdFor(schema[t])] = @ \cup {t}]
  /\ UNCHANGED jobs
  /\ phase' = [phase EXCEPT ![t] = "added"]
  /\ UNCHANGED <<immediately, overridden, schema, settled, failed, received,
                 stopPc, atStop>>

\* The rest of addTrace(): the report is sent when it has become big.
AddTrace(t) ==
  /\ phase[t] = "scheduled"
  /\ See(schema[t])
  /\ LET id == IdFor(schema[t])
         content == [reports EXCEPT ![id] = @ \cup {t}]
         full == immediately = "yes" \/ Cardinality(content[id]) >= MaxSize
     IN  Take(content, IF full THEN {id} ELSE {}, "trace")
  /\ phase' = [phase EXCEPT ![t] = "added"]
  /\ UNCHANGED <<immediately, overridden, schema, settled, failed, received,
                 stopPc, atStop>>

\* calculateSignature, or the check of the trace, throws, which is logged.
AddTraceThrows(t) ==
  /\ phase[t] = "scheduled"
  /\ See(schema[t])
  /\ phase' = [phase EXCEPT ![t] = "dropped"]
  /\ UNCHANGED <<immediately, overridden, schema, reports, jobs, settled,
                 failed, received, stopPc, atStop>>

\* The report timer, which serverWillStop clears.
TimerFires ==
  /\ immediately = "no" /\ stopPc = "running"
  /\ Take(reports, Schemas, "timer")
  /\ UNCHANGED <<immediately, overridden, phase, schema, lastSeen, settled,
                 failed, received, stopPc, atStop>>

-----------------------------------------------------------------------------
EndWell(j) ==
  /\ jobs' = jobs \ {j} /\ settled' = settled \cup j.traces /\ UNCHANGED failed

\* sendReportAndReportErrors() catches the error.
EndBadly(j) ==
  /\ jobs' = jobs \ {j} /\ failed' = failed \cup j.traces /\ UNCHANGED settled

Compress(j) ==
  /\ j \in jobs /\ j.step = "gzip"
  /\ \/ /\ jobs' = (jobs \ {j}) \cup {[j EXCEPT !.step = "post"]}
        /\ UNCHANGED <<settled, failed>>
     \/ EndBadly(j)
  /\ UNCHANGED <<immediately, overridden, phase, schema, lastSeen, reports,
                 received, stopPc, atStop>>

Receive(j) ==
  received' = [t \in Traces |-> IF t \in j.traces THEN received[t] + 1
                                ELSE received[t]]

\* A network error, perhaps after the ingress received the report, or a status
\* of the 5xx: the report is posted again, up to MaxAttempts times in all.
RetryOrGiveUp(j) ==
  /\ j \in jobs /\ j.step = "post"
  /\ Receive(j) \/ UNCHANGED received
  /\ IF j.tries + 1 < MaxAttempts
     THEN /\ jobs' = (jobs \ {j}) \cup {[j EXCEPT !.tries = @ + 1]}
          /\ UNCHANGED <<settled, failed>>
     ELSE EndBadly(j)
  /\ UNCHANGED <<immediately, overridden, phase, schema, lastSeen, reports,
                 stopPc, atStop>>

\* Another status: the report was received, or refused, or the body of the
\* answer does not parse.
Answered(j) ==
  /\ j \in jobs /\ j.step = "post"
  /\ \/ Receive(j) /\ EndWell(j)
     \/ (Receive(j) \/ UNCHANGED received) /\ EndBadly(j)
  /\ UNCHANGED <<immediately, overridden, phase, schema, lastSeen, reports,
                 stopPc, atStop>>

-----------------------------------------------------------------------------
\* Wrong on purpose: the last reports are not waited for.
ServerWillStopQuickly ==
  /\ stopPc = "running"
  /\ stopPc' = "stopped"
  /\ atStop' = UNION {reports[s] : s \in Schemas}
  /\ Take(reports, Schemas, "stop")
  /\ UNCHANGED <<immediately, overridden, phase, schema, lastSeen, settled,
                 failed, received>>

\* serverWillStop, up to the await of the last reports.
ServerWillStop ==
  /\ stopPc = "running"
  /\ stopPc' = "flushing"
  /\ atStop' = UNION {reports[s] : s \in Schemas}
  /\ Take(reports, Schemas, "stop")
  /\ UNCHANGED <<immediately, overridden, phase, schema, lastSeen, settled,
                 failed, received>>

ServerStopped ==
  /\ stopPc = "flushing"
  /\ \A j \in jobs : j.by # "stop"
  /\ stopPc' = "stopped"
  /\ UNCHANGED <<immediately, overridden, phase, schema, lastSeen, reports,
                 jobs, settled, failed, received, atStop>>

JobSteps == \E j \in jobs : Compress(j) \/ RetryOrGiveUp(j) \/ Answered(j)

Next ==
  \/ \E t \in Traces : WillSendResponse(t) \/ AddTrace(t) \/ AddTraceThrows(t)
  \/ TimerFires
  \/ JobSteps
  \/ ServerWillStop \/ ServerStopped

Spec == Init /\ [][Next]_vars

\* The timer fires as long as it is set, and compressing and posting end.
FairSpec == Spec /\ WF_vars(TimerFires) /\ WF_vars(JobSteps) /\ WF_vars(ServerStopped)

-----------------------------------------------------------------------------
\* The report a trace belongs to: of the schema its request was processed with,
\* or of the one that overrides all.
ReportOf(t) == IF overridden = NoSchema THEN schema[t] ELSE overridden

\* A trace is reported under the schema its request was processed with, even
\* when requests of an older schema end after those of a newer one.
TracesUnderTheirSchema ==
  /\ \A s \in Schemas : \A t \in reports[s] : ReportOf(t) = s
  /\ \A j \in jobs : \A t \in j.traces : ReportOf(t) = j.id

\* A trace that was added is in exactly one place: still gathered in the report
\* it belongs to, in one report on its way, sent, or given up.  The timer, a big
\* report and serverWillStop never take the same trace, and none loses it.
EveryTraceInOneReport ==
  /\ TracesUnderTheirSchema
  /\ \A t \in Traces :
       LET holders == {j \in jobs : t \in j.traces}
           places == {p \in {"report", "job", "settled", "failed"} :
                        \/ p = "report" /\ t \in reports[ReportOf(t)]
                        \/ p = "job" /\ holders # {}
                        \/ p = "settled" /\ t \in settled
                        \/ p = "failed" /\ t \in failed}
       IN  /\ \A i, j \in holders : i = j
           /\ (phase[t] = "added") = (places # {})
           /\ \A p, q \in places : p = q

\* When serverWillStop ends, every trace that was in a report when it was called
\* has been received by the ingress, or the failure to send it was logged.
FinalReportsAreSent ==
  stopPc = "stopped" =>
    \A t \in atStop : t \in failed \/ (t \in settled /\ received[t] > 0)

\* A trace added before the stop leaves the process, or its loss is logged.
AddedTracesLeave ==
  \A t \in Traces :
    phase[t] = "added" /\ stopPc = "running" ~> t \in settled \cup failed
=============================================================================

------------------------- MODULE UsageReportingProofs -------------------------
(***************************************************************************)
(* Theorems of UsageReporting, for any traces, schemas, sizes of a report, *)
(* and numbers of attempts; and of UsageStats, for any traces.             *)
(***************************************************************************)
EXTENDS UsageReporting, UsageStats, FiniteSetTheorems, SequenceTheorems, TLAPS

InReport(t) == t \in reports[ReportOf(t)]
InJob(t) == \E j \in jobs : t \in j.traces

\* Who holds a trace, and how often it can have been received by then.
PlaceInv ==
  /\ \A t \in Traces : InReport(t) =>
       phase[t] = "added" /\ t \notin settled \cup failed /\ received[t] = 0
  /\ \A j \in jobs : \A t \in j.traces :
       /\ phase[t] = "added" /\ t \notin settled \cup failed
       /\ ~InReport(t) /\ received[t] <= j.tries
  /\ \A i, j \in jobs : \A t \in i.traces : t \in j.traces => i = j
  /\ \A t \in settled : phase[t] = "added" /\ t \notin failed /\ received[t] > 0
  /\ \A t \in failed : phase[t] = "added"
  /\ \A t \in Traces :
       IF phase[t] = "added" THEN InReport(t) \/ InJob(t) \/ t \in settled \/ t \in failed
       ELSE received[t] = 0

\* There is an attempt left for a job.
JobInv == \A j \in jobs : j.tries < MaxAttempts

\* What was in a report when the server was stopped is in a job of the stop,
\* until it ended; and such jobs have ended when the stop has.
StopInv ==
  /\ stopPc = "running" => atStop = {}
  /\ stopPc = "stopped" => \A j \in jobs : j.by # "stop"
  /\ \A t \in atStop :
       /\ phase[t] = "added" /\ ~InReport(t)
       /\ \A j \in jobs : t \in j.traces => j.by = "stop"

LastSeenInv == lastSeen.schema = lastSeen.id

IInv ==
  /\ TypeOK /\ TracesUnderTheirSchema /\ PlaceInv /\ JobInv /\ StopInv /\ LastSeenInv

LEMMA ReportExists ==
  ASSUME TypeOK, NEW t \in Traces
  PROVE  ReportOf(t) \in Schemas
BY ReportingAssumption DEF TypeOK, ReportOf

LEMMA InitInv == Init => IInv
<1>. SUFFICES ASSUME Init PROVE IInv
  OBVIOUS
<1>1. TypeOK
  BY ReportingAssumption DEF Init, TypeOK
<1>2. TracesUnderTheirSchema
  BY DEF Init, TracesUnderTheirSchema, ReportOf
<1>3. PlaceInv
  <2>1. \A t \in Traces : ~InReport(t)
    BY <1>1, ReportExists DEF Init, InReport
  <2>. QED
    BY <2>1 DEF Init, PlaceInv
<1>4. JobInv /\ StopInv /\ LastSeenInv
  BY DEF Init, JobInv, StopInv, LastSeenInv
<1>. QED
  BY <1>1, <1>2, <1>3, <1>4 DEF IInv

-----------------------------------------------------------------------------
\* What sendReport() takes, out of what is in the reports: new jobs, each with
\* the whole report of its schema, and nothing is left of those reports.
LEMMA TakeMoves ==
  ASSUME TypeOK, NEW content \in [Schemas -> SUBSET Traces], NEW ids \in SUBSET Schemas,
         NEW why \in {"trace", "timer", "stop"}, Take(content, ids, why)
  PROVE  /\ reports' \in [Schemas -> SUBSET Traces]
         /\ \A s \in Schemas : reports'[s] = IF s \in ids THEN {} ELSE content[s]
         /\ jobs \subseteq jobs'
         /\ \A j \in jobs' \ jobs :
              /\ j \in Jobs /\ j.id \in ids /\ j.traces = content[j.id] /\ j.traces # {}
              /\ j.tries = 0 /\ j.by = why
         /\ \A i, j \in jobs' \ jobs : i.id = j.id => i = j
         /\ \A s \in ids : \A t \in content[s] : \E j \in jobs' : t \in j.traces
<1>. DEFINE job(i) == [id |-> i, traces |-> content[i], step |-> "gzip", tries |-> 0,
                       by |-> why]
<1>1. /\ reports' = [i \in Schemas |-> IF i \in ids THEN {} ELSE content[i]]
      /\ jobs' = jobs \cup {job(i) : i \in {i \in ids : content[i] # {}}}
  BY DEF Take
<1>2. \A i \in ids : job(i) \in Jobs
  BY ReportingAssumption DEF Jobs
<1>3. \A j \in jobs' \ jobs : \E i \in ids : content[i] # {} /\ j = job(i)
  BY <1>1
<1>4. \A s \in ids : content[s] # {} => job(s) \in jobs'
  BY <1>1
<1>5. reports' \in [Schemas -> SUBSET Traces]
  BY <1>1
<1>6. \A s \in Schemas : reports'[s] = IF s \in ids THEN {} ELSE content[s]
  BY <1>1
<1>7. \A j \in jobs' \ jobs :
        /\ j \in Jobs /\ j.id \in ids /\ j.traces = content[j.id] /\ j.traces # {}
        /\ j.tries = 0 /\ j.by = why
  BY <1>2, <1>3
<1>8. \A i, j \in jobs' \ jobs : i.id = j.id => i = j
  BY <1>3
<1>9. \A s \in ids : \A t \in content[s] : \E j \in jobs' : t \in j.traces
  BY <1>4
<1>. QED
  BY <1>1, <1>5, <1>6, <1>7, <1>8, <1>9

\* The invariant survives sendReport(), whatever traces it finds gathered: those
\* of the reports, and traces that are added now.
LEMMA TakeInv ==
  ASSUME IInv, NEW content \in [Schemas -> SUBSET Traces], NEW ids \in SUBSET Schemas,
         NEW why \in {"trace", "timer", "stop"}, Take(content, ids, why),
         UNCHANGED <<overridden, schema, settled, failed, received>>,
         \A s \in Schemas : reports[s] \subseteq content[s],
         \A s \in Schemas : \A t \in content[s] : ReportOf(t) = s,
         \A s \in Schemas : \A t \in content[s] \ reports[s] : phase[t] # "added",
         phase' \in [Traces -> {"none", "scheduled", "added", "ignored", "dropped"}],
         \A t \in Traces : phase'[t] = "added" <=>
                             phase[t] = "added" \/ t \in content[ReportOf(t)]
  PROVE  /\ reports' \in [Schemas -> SUBSET Traces]
         /\ jobs' \subseteq Jobs /\ \A j \in jobs' : j.traces # {}
         /\ TracesUnderTheirSchema' /\ PlaceInv' /\ JobInv'
<1>. USE DEF IInv
<1>1. /\ reports' \in [Schemas -> SUBSET Traces]
      /\ \A s \in Schemas : reports'[s] = IF s \in ids THEN {} ELSE content[s]
      /\ jobs \subseteq jobs'
      /\ \A j \in jobs' \ jobs :
           /\ j \in Jobs /\ j.id \in ids /\ j.traces = content[j.id] /\ j.traces # {}
           /\ j.tries = 0 /\ j.by = why
      /\ \A i, j \in jobs' \ jobs : i.id = j.id => i = j
      /\ \A s \in ids : \A t \in content[s] : \E j \in jobs' : t \in j.traces
  BY TakeMoves
<1>2. jobs' \subseteq Jobs /\ \A j \in jobs' : j.traces # {}
  BY <1>1 DEF TypeOK
<1>3. TracesUnderTheirSchema'
  BY <1>1 DEF TracesUnderTheirSchema, ReportOf
<1>4. JobInv'
  BY <1>1, ReportingAssumption DEF JobInv
<1>5. \A t \in Traces : ReportOf(t) \in Schemas /\ received[t] \in Int
  BY ReportExists, ReportingAssumption DEF TypeOK
<1>6. \A j \in jobs' : j.traces \subseteq Traces
  BY <1>2 DEF Jobs
<1>7. \A t \in Traces : InReport(t)' =>
        phase'[t] = "added" /\ t \notin settled' \cup failed' /\ received'[t] = 0
  BY <1>1, <1>5 DEF PlaceInv, InReport, ReportOf
<1>8. \A j \in jobs' : \A t \in j.traces :
        /\ phase'[t] = "added" /\ t \notin settled' \cup failed'
        /\ ~InReport(t)' /\ received'[t] <= j.tries
  <2>. SUFFICES ASSUME NEW j \in jobs', NEW t \in j.traces
                PROVE  /\ phase'[t] = "added" /\ t \notin settled' \cup failed'
                       /\ ~InReport(t)' /\ received'[t] <= j.tries
    OBVIOUS
  <2>1. t \in Traces
    BY <1>6
  <2>2. CASE j \in jobs
    <3>1. phase[t] = "added" /\ ~InReport(t) /\ t \notin settled \cup failed
          /\ received[t] <= j.tries
      BY <2>2 DEF PlaceInv
    <3>2. t \notin content[ReportOf(t)]
      BY <1>5, <2>1, <3>1 DEF InReport, ReportOf
    <3>3. ~InReport(t)'
      BY <1>1, <1>5, <2>1, <3>2 DEF InReport, ReportOf
    <3>. QED
      BY <2>1, <3>1, <3>3
  <2>3. CASE j \notin jobs
    <3>1. j.id \in ids /\ t \in content[j.id] /\ j.tries = 0
      BY <1>1, <2>3
    <3>2. ReportOf(t) = j.id
      BY <3>1
    <3>3. ~InReport(t)'
      BY <1>1, <3>1, <3>2 DEF InReport, ReportOf
    <3>4. received[t] = 0 /\ t \notin settled \cup failed
      BY <2>1, <3>1, <3>2, <1>5 DEF PlaceInv, InReport, ReportOf
    <3>. QED
      BY <2>1, <3>1, <3>2, <3>3, <3>4
  <2>. QED
    BY <2>2, <2>3
<1>9. \A i, j \in jobs' : \A t \in i.traces : t \in j.traces => i = j
  <2>. SUFFICES ASSUME NEW i \in jobs', NEW j \in jobs', NEW t \in i.traces, t \in j.traces
                PROVE  i = j
    OBVIOUS
  <2>1. t \in Traces
    BY <1>6
  <2>2. \A k \in jobs' : k \in jobs /\ t \in k.traces =>
          t \notin content[ReportOf(t)]
    BY <1>5, <2>1 DEF PlaceInv, InReport, ReportOf
  <2>3. \A k \in jobs' : k \notin jobs /\ t \in k.traces =>
          k.id = ReportOf(t) /\ t \in content[ReportOf(t)]
    BY <1>1
  <2>4. CASE i \in jobs /\ j \in jobs
    BY <2>4 DEF PlaceInv
  <2>5. CASE i \notin jobs /\ j \notin jobs
    BY <1>1, <2>3, <2>5
  <2>. QED
    BY <2>2, <2>3, <2>4, <2>5
<1>10. \A t \in settled' : phase'[t] = "added" /\ t \notin failed' /\ received'[t] > 0
  BY DEF PlaceInv, TypeOK
<1>11. \A t \in failed' : phase'[t] = "added"
  BY DEF PlaceInv, TypeOK
<1>12. ASSUME NEW t \in Traces
       PROVE  IF phase'[t] = "added"
              THEN InReport(t)' \/ InJob(t)' \/ t \in settled' \/ t \in failed'
              ELSE received'[t] = 0
  <2>1. CASE phase'[t] # "added"
    BY <2>1 DEF PlaceInv
  <2>2. CASE t \in content[ReportOf(t)]
    BY <1>1, <1>5, <2>2 DEF InReport, InJob, ReportOf
  <2>3. CASE phase'[t] = "added" /\ t \notin content[ReportOf(t)]
    BY <1>1, <1>5, <2>3 DEF PlaceInv, InReport, InJob, ReportOf
  <2>. QED
    BY <2>1, <2>2, <2>3
<1>. QED
  BY <1>1, <1>2, <1>3, <1>4, <1>7, <1>8, <1>9, <1>10, <1>11, <1>12 DEF PlaceInv

\* What a step of a job does: it goes on, as k, or it ends.
GoesOn(j, k) ==
  /\ k.tries < MaxAttempts /\ k.tries >= j.tries
  /\ k.traces = j.traces /\ k.id = j.id /\ k.by = j.by
  /\ jobs' = (jobs \ {j}) \cup {k} /\ UNCHANGED <<settled, failed>>
  /\ UNCHANGED received \/ (Receive(j) /\ k.tries = j.tries + 1)

Ends(j) ==
  \/ EndBadly(j) /\ (UNCHANGED received \/ Receive(j))
  \/ EndWell(j) /\ Receive(j)

\* The same for a job whose post ended, or is tried again.
LEMMA JobStepInv ==
  ASSUME IInv, NEW j \in jobs, Compress(j) \/ RetryOrGiveUp(j) \/ Answered(j)
  PROVE  IInv'
<1>. USE DEF IInv
<1>1. /\ j \in Jobs /\ j.traces # {} /\ j.traces \subseteq Traces
      /\ j.tries \in Nat /\ j.tries < MaxAttempts
  BY DEF TypeOK, Jobs, JobInv
<1>2. UNCHANGED <<immediately, overridden, phase, schema, lastSeen, reports, stopPc, atStop>>
  BY DEF Compress, RetryOrGiveUp, Answered
<1>3. (\E k \in Jobs : GoesOn(j, k)) \/ Ends(j)
  <2>1. CASE Compress(j)
    <3>. DEFINE k == [j EXCEPT !.step = "post"]
    <3>1. /\ k \in Jobs /\ k.tries = j.tries /\ k.traces = j.traces
          /\ k.id = j.id /\ k.by = j.by
      BY <1>1 DEF Jobs
    <3>2. k.tries \in Nat
      BY <1>1, <3>1
    <3>. HIDE DEF k
    <3>3. UNCHANGED received
      BY <2>1 DEF Compress
    <3>4. \/ jobs' = (jobs \ {j}) \cup {k} /\ UNCHANGED <<settled, failed>>
          \/ EndBadly(j)
      BY <2>1 DEF Compress, k
    <3>. QED
      BY <1>1, <3>1, <3>2, <3>3, <3>4, ReportingAssumption DEF GoesOn, Ends
  <2>2. CASE RetryOrGiveUp(j)
    <3>. DEFINE k == [j EXCEPT !.tries = @ + 1]
    <3>1. j.tries + 1 < MaxAttempts =>
            /\ k \in Jobs /\ k.tries = j.tries + 1 /\ k.traces = j.traces
            /\ k.id = j.id /\ k.by = j.by
      BY <1>1, ReportingAssumption DEF Jobs
    <3>. HIDE DEF k
    <3>2. Receive(j) \/ UNCHANGED received
      BY <2>2 DEF RetryOrGiveUp
    <3>3. IF j.tries + 1 < MaxAttempts
          THEN jobs' = (jobs \ {j}) \cup {k} /\ UNCHANGED <<settled, failed>>
          ELSE EndBadly(j)
      BY <2>2 DEF RetryOrGiveUp, k
    <3>. QED
      BY <1>1, <3>1, <3>2, <3>3, ReportingAssumption DEF GoesOn, Ends
  <2>3. CASE Answered(j)
    BY <2>3 DEF Answered, Ends
  <2>. QED
    BY <2>1, <2>2, <2>3
<1>4. \A t \in Traces : ReportOf(t) \in Schemas /\ received[t] \in 0..MaxAttempts
  BY ReportExists DEF TypeOK
<1>5. \A t \in Traces : \/ received'[t] = received[t]
                        \/ t \in j.traces /\ received'[t] = received[t] + 1
  BY <1>1, <1>3, <1>4 DEF GoesOn, Ends, Receive
<1>6. received' \in [Traces -> 0..MaxAttempts]
  <2>1. \A t \in j.traces : received[t] <= j.tries
    BY DEF PlaceInv
  <2>2. \A t \in Traces : t \in j.traces => received[t] + 1 \in 0..MaxAttempts
    BY <1>1, <1>4, <2>1, ReportingAssumption
  <2>3. UNCHANGED received \/ Receive(j)
    BY <1>3 DEF GoesOn, Ends
  <2>. QED
    BY <2>2, <2>3 DEF Receive, TypeOK
<1>7. /\ \A t \in j.traces : phase[t] = "added" /\ ~InReport(t) /\ t \notin settled \cup failed
      /\ \A i \in jobs : \A t \in i.traces : t \in j.traces => i = j
  BY DEF PlaceInv
<1>8. ASSUME NEW k \in Jobs, GoesOn(j, k) PROVE IInv'
  <2>1. TypeOK'
    BY <1>1, <1>2, <1>6, <1>8 DEF GoesOn, TypeOK
  <2>2. TracesUnderTheirSchema' /\ JobInv' /\ LastSeenInv'
    BY <1>2, <1>8 DEF GoesOn, TracesUnderTheirSchema, JobInv, LastSeenInv, ReportOf
  <2>3. StopInv'
    BY <1>2, <1>8 DEF GoesOn, StopInv, InReport, ReportOf
  <2>4. \A t \in Traces : InReport(t)' =>
          phase'[t] = "added" /\ t \notin settled' \cup failed' /\ received'[t] = 0
    BY <1>2, <1>5, <1>7, <1>8 DEF GoesOn, PlaceInv, InReport, ReportOf
  <2>5. \A i \in jobs' : \A t \in i.traces :
          /\ phase'[t] = "added" /\ t \notin settled' \cup failed'
          /\ ~InReport(t)' /\ received'[t] <= i.tries
    <3>1. ASSUME NEW i \in jobs, i # j, NEW t \in i.traces
          PROVE  received'[t] <= i.tries
      <4>1. t \in Traces /\ t \notin j.traces /\ received[t] <= i.tries
        BY <1>7, <3>1 DEF PlaceInv, TypeOK, Jobs
      <4>. QED
        BY <1>5, <4>1
    <3>2. ASSUME NEW t \in k.traces
          PROVE  received'[t] <= k.tries
      <4>1. t \in Traces /\ received[t] <= j.tries
        BY <1>1, <1>8, <3>2 DEF GoesOn, PlaceInv
      <4>2. received[t] \in Int /\ k.tries \in Int
        BY <1>4, <1>8, <4>1, ReportingAssumption DEF Jobs
      <4>. QED
        BY <1>1, <1>8, <4>1, <4>2, <3>2 DEF GoesOn, Receive
    <3>. QED
      BY <1>2, <1>7, <1>8, <3>1, <3>2 DEF GoesOn, PlaceInv, InReport, ReportOf
  <2>6. \A i, l \in jobs' : \A t \in i.traces : t \in l.traces => i = l
    BY <1>7, <1>8 DEF GoesOn, PlaceInv
  <2>7. /\ \A t \in settled' : phase'[t] = "added" /\ t \notin failed' /\ received'[t] > 0
        /\ \A t \in failed' : phase'[t] = "added"
    BY <1>2, <1>4, <1>5, <1>8 DEF GoesOn, PlaceInv, TypeOK
  <2>8. \A t \in Traces :
          IF phase'[t] = "added"
          THEN InReport(t)' \/ InJob(t)' \/ t \in settled' \/ t \in failed'
          ELSE received'[t] = 0
    BY <1>2, <1>5, <1>7, <1>8 DEF GoesOn, PlaceInv, InReport, InJob, ReportOf
  <2>. QED
    BY <2>1, <2>2, <2>3, <2>4, <2>5, <2>6, <2>7, <2>8 DEF PlaceInv
<1>9. CASE Ends(j)
  <2>1. /\ jobs' = jobs \ {j}
        /\ \/ failed' = failed \cup j.traces /\ UNCHANGED settled
           \/ settled' = settled \cup j.traces /\ UNCHANGED failed /\ Receive(j)
    BY <1>9 DEF Ends, EndBadly, EndWell
  <2>2. TypeOK'
    BY <1>1, <1>2, <1>6, <2>1 DEF TypeOK
  <2>3. TracesUnderTheirSchema' /\ JobInv' /\ LastSeenInv' /\ StopInv'
    BY <1>2, <2>1 DEF TracesUnderTheirSchema, JobInv, LastSeenInv, StopInv, InReport, ReportOf
  <2>4. \A t \in Traces : InReport(t)' =>
          phase'[t] = "added" /\ t \notin settled' \cup failed' /\ received'[t] = 0
    BY <1>2, <1>5, <1>7, <2>1 DEF PlaceInv, InReport, ReportOf
  <2>5. \A i \in jobs' : \A t \in i.traces :
          /\ phase'[t] = "added" /\ t \notin settled' \cup failed'
          /\ ~InReport(t)' /\ received'[t] <= i.tries
    <3>. SUFFICES ASSUME NEW i \in jobs, i # j, NEW t \in i.traces
                  PROVE  /\ phase'[t] = "added" /\ t \notin settled' \cup failed'
                         /\ ~InReport(t)' /\ received'[t] <= i.tries
      BY <2>1
    <3>1. t \in Traces /\ t \notin j.traces
      BY <1>7 DEF TypeOK, Jobs
    <3>. QED
      BY <1>2, <1>5, <2>1, <3>1 DEF PlaceInv, InReport, ReportOf
  <2>6. \A i, l \in jobs' : \A t \in i.traces : t \in l.traces => i = l
    BY <2>1 DEF PlaceInv
  <2>7. ASSUME NEW t \in settled'
        PROVE  phase'[t] = "added" /\ t \notin failed' /\ received'[t] > 0
    <3>1. CASE t \in settled
      <4>1. t \in Traces /\ phase[t] = "added" /\ t \notin failed /\ received[t] > 0
            /\ t \notin j.traces
        BY <1>7, <3>1 DEF PlaceInv, TypeOK
      <4>. QED
        BY <1>2, <1>5, <2>1, <4>1
    <3>2. CASE t \notin settled
      <4>1. t \in j.traces /\ Receive(j) /\ UNCHANGED failed
        BY <2>1, <3>2
      <4>2. received'[t] = received[t] + 1
        BY <1>1, <4>1 DEF Receive
      <4>. QED
        BY <1>1, <1>2, <1>4, <1>7, <4>1, <4>2
    <3>. QED
      BY <3>1, <3>2
  <2>8. \A t \in failed' : phase'[t] = "added"
    BY <1>2, <1>7, <2>1 DEF PlaceInv
  <2>9. \A t \in Traces :
          IF phase'[t] = "added"
          THEN InReport(t)' \/ InJob(t)' \/ t \in settled' \/ t \in failed'
          ELSE received'[t] = 0
    BY <1>2, <1>5, <1>7, <2>1 DEF PlaceInv, InReport, InJob, ReportOf
  <2>. QED
    BY <2>2, <2>3, <2>4, <2>5, <2>6, <2>7, <2>8, <2>9 DEF PlaceInv
<1>. QED
  BY <1>3, <1>8, <1>9

-----------------------------------------------------------------------------
\* The cached id is the right one, so a trace goes into the report it belongs to.
LEMMA SeenId ==
  ASSUME IInv, NEW t \in Traces
  PROVE  /\ IdFor(schema[t]) = ReportOf(t)
         /\ See(schema[t]) => LastSeenInv'
         /\ See(schema[t]) =>
              lastSeen' \in [schema : Schemas \cup {NoSchema}, id : Schemas \cup {NoSchema}]
<1>. USE DEF IInv
<1>1. schema[t] \in Schemas /\ ExecutableSchemaId(schema[t]) = schema[t]
  BY DEF TypeOK, LastSeenInv, ExecutableSchemaId
<1>. QED
  BY <1>1 DEF See, IdFor, ReportOf, TypeOK, LastSeenInv

LEMMA AddTraceInv ==
  ASSUME IInv, NEW t \in Traces, AddTrace(t)
  PROVE  IInv'
<1>. USE DEF IInv
<1>. DEFINE s == ReportOf(t)
            content == [reports EXCEPT ![s] = @ \cup {t}]
<1>1. s \in Schemas /\ IdFor(schema[t]) = s
  BY SeenId, ReportExists
<1>2. PICK ids \in {{s}, {}} : Take(content, ids, "trace")
  BY <1>1 DEF AddTrace
<1>3. /\ phase[t] = "scheduled" /\ phase' = [phase EXCEPT ![t] = "added"]
      /\ See(schema[t])
      /\ UNCHANGED <<immediately, overridden, schema, settled, failed, received, stopPc, atStop>>
  BY <1>1 DEF AddTrace
<1>4. content \in [Schemas -> SUBSET Traces]
  BY <1>1 DEF TypeOK
<1>5. \A i \in Schemas : content[i] = IF i = s THEN reports[i] \cup {t} ELSE reports[i]
  BY <1>1 DEF TypeOK
<1>6. ids \in SUBSET Schemas
  BY <1>1
<1>7. phase' \in [Traces -> {"none", "scheduled", "added", "ignored", "dropped"}]
  BY <1>3 DEF TypeOK
<1>8. \A i \in Schemas : \A u \in content[i] : ReportOf(u) = i
  BY <1>5 DEF TracesUnderTheirSchema, ReportOf
<1>9. \A u \in Traces : phase'[u] = "added" <=> phase[u] = "added" \/ u \in content[ReportOf(u)]
  <2>1. \A u \in Traces : u \in content[ReportOf(u)] <=> InReport(u) \/ u = t
    BY <1>1, <1>5 DEF InReport, TypeOK, ReportOf
  <2>. QED
    BY <1>3, <2>1 DEF PlaceInv, TypeOK
<1>10. /\ \A i \in Schemas : reports[i] \subseteq content[i]
       /\ \A i \in Schemas : \A u \in content[i] \ reports[i] : phase[u] # "added"
  BY <1>3, <1>5
<1>11. /\ reports' \in [Schemas -> SUBSET Traces]
       /\ jobs' \subseteq Jobs /\ \A j \in jobs' : j.traces # {}
       /\ TracesUnderTheirSchema' /\ PlaceInv' /\ JobInv'
  <2>. HIDE DEF content
  <2>. QED
    BY <1>2, <1>3, <1>4, <1>6, <1>7, <1>8, <1>9, <1>10, TakeInv
<1>12. TypeOK'
  BY <1>3, <1>7, <1>11, SeenId DEF TypeOK
<1>13. LastSeenInv'
  BY <1>3, SeenId
<1>14. StopInv'
  <2>1. /\ \A j \in jobs' \ jobs : j.by = "trace" /\ j.id \in ids /\ j.traces = content[j.id]
        /\ \A i \in Schemas : reports'[i] = IF i \in ids THEN {} ELSE content[i]
    <3>. HIDE DEF content
    <3>. QED
      BY <1>2, <1>4, <1>6, TakeMoves
  <2>2. \A u \in atStop : u \in Traces /\ phase[u] = "added" /\ u # t /\ u \notin reports[ReportOf(u)]
                          /\ ReportOf(u) \in Schemas
    BY <1>3, ReportExists DEF StopInv, InReport, TypeOK
  <2>3. \A u \in atStop : \A j \in jobs' \ jobs : u \notin j.traces
    BY <1>5, <1>6, <1>8, <2>1, <2>2
  <2>4. \A u \in atStop : ~InReport(u)' /\ phase'[u] = "added"
    BY <1>3, <1>5, <2>1, <2>2 DEF InReport, TypeOK, ReportOf
  <2>. QED
    BY <1>3, <2>1, <2>3, <2>4 DEF StopInv
<1>. QED
  BY <1>11, <1>12, <1>13, <1>14

\* The timer and serverWillStop take what all reports have.
LEMMA TakeAllInv ==
  ASSUME IInv, NEW why \in {"timer", "stop"}, Take(reports, Schemas, why),
         UNCHANGED <<immediately, overridden, phase, schema, lastSeen, settled, failed, received>>,
         stopPc' \in {"running", "flushing", "stopped"}, atStop' \subseteq Traces
  PROVE  /\ TypeOK' /\ TracesUnderTheirSchema' /\ PlaceInv' /\ JobInv' /\ LastSeenInv'
         /\ \A t \in Traces : ~InReport(t)'
         /\ \A j \in jobs' \ jobs : j.by = why /\ j.id \in Schemas /\ j.traces = reports[j.id]
<1>. USE DEF IInv
<1>1. reports \in [Schemas -> SUBSET Traces]
  BY DEF TypeOK
<1>2. phase' \in [Traces -> {"none", "scheduled", "added", "ignored", "dropped"}]
  BY DEF TypeOK
<1>3. \A u \in Traces : phase'[u] = "added" <=> phase[u] = "added" \/ u \in reports[ReportOf(u)]
  BY DEF PlaceInv, InReport, ReportOf
<1>4. \A s \in Schemas : \A u \in reports[s] : ReportOf(u) = s
  BY DEF TracesUnderTheirSchema, ReportOf
<1>5. /\ reports' \in [Schemas -> SUBSET Traces]
      /\ jobs' \subseteq Jobs /\ \A j \in jobs' : j.traces # {}
      /\ TracesUnderTheirSchema' /\ PlaceInv' /\ JobInv'
  BY <1>1, <1>2, <1>3, <1>4, TakeInv
<1>6. /\ \A s \in Schemas : reports'[s] = {}
      /\ \A j \in jobs' \ jobs : j.by = why /\ j.id \in Schemas /\ j.traces = reports[j.id]
  BY <1>1, TakeMoves
<1>7. \A t \in Traces : ~InReport(t)'
  BY <1>6, ReportExists DEF InReport, ReportOf
<1>8. TypeOK'
  BY <1>2, <1>5 DEF TypeOK
<1>. QED
  BY <1>5, <1>6, <1>7, <1>8 DEF LastSeenInv

LEMMA NextInv == IInv /\ [Next]_vars => IInv'
<1>. SUFFICES ASSUME IInv, [Next]_vars PROVE IInv'
  OBVIOUS
<1>1. ASSUME NEW t \in Traces, WillSendResponse(t) \/ AddTraceThrows(t) PROVE IInv'
  <2>. USE DEF IInv
  <2>1. /\ phase[t] # "added" /\ phase' \in [Traces -> {"none", "scheduled", "added", "ignored", "dropped"}]
        /\ \A u \in Traces : phase'[u] = "added" <=> phase[u] = "added"
        /\ UNCHANGED <<immediately, overridden, schema, reports, jobs, settled, failed, received, stopPc, atStop>>
    BY <1>1 DEF WillSendResponse, AddTraceThrows, TypeOK
  <2>2. /\ lastSeen' \in [schema : Schemas \cup {NoSchema}, id : Schemas \cup {NoSchema}]
        /\ LastSeenInv'
    BY <1>1, SeenId DEF WillSendResponse, AddTraceThrows, TypeOK, LastSeenInv
  <2>3. TypeOK'
    BY <2>1, <2>2 DEF TypeOK
  <2>4. /\ TracesUnderTheirSchema' /\ JobInv'
        /\ \A u \in Traces : InReport(u)' = InReport(u) /\ InJob(u)' = InJob(u)
    BY <2>1 DEF TracesUnderTheirSchema, JobInv, InReport, InJob, ReportOf
  <2>5. /\ \A j \in jobs : j.traces \subseteq Traces
        /\ settled \subseteq Traces /\ failed \subseteq Traces /\ atStop \subseteq Traces
    BY DEF TypeOK, Jobs
  <2>6. PlaceInv'
    BY <2>1, <2>4, <2>5 DEF PlaceInv
  <2>7. StopInv'
    BY <2>1, <2>4, <2>5 DEF StopInv
  <2>. QED
    BY <2>2, <2>3, <2>4, <2>6, <2>7
<1>2. ASSUME NEW t \in Traces, AddTrace(t) PROVE IInv'
  BY <1>2, AddTraceInv
<1>3. CASE TimerFires
  <2>1. /\ stopPc = "running" /\ UNCHANGED <<stopPc, atStop>> /\ atStop = {}
    BY <1>3 DEF TimerFires, IInv, StopInv
  <2>2. /\ TypeOK' /\ TracesUnderTheirSchema' /\ PlaceInv' /\ JobInv' /\ LastSeenInv'
    BY <1>3, <2>1, TakeAllInv DEF TimerFires, IInv, TypeOK
  <2>3. StopInv'
    BY <2>1 DEF StopInv
  <2>. QED
    BY <2>2, <2>3 DEF IInv
<1>4. CASE JobSteps
  BY <1>4, JobStepInv DEF JobSteps
<1>5. CASE ServerWillStop
  <2>1. /\ stopPc' = "flushing" /\ atStop' = UNION {reports[s] : s \in Schemas}
        /\ Take(reports, Schemas, "stop")
        /\ UNCHANGED <<immediately, overridden, phase, schema, lastSeen, settled, failed, received>>
    BY <1>5 DEF ServerWillStop
  <2>2. atStop' \subseteq Traces
    BY <2>1 DEF IInv, TypeOK
  <2>3. /\ TypeOK' /\ TracesUnderTheirSchema' /\ PlaceInv' /\ JobInv' /\ LastSeenInv'
        /\ \A t \in Traces : ~InReport(t)'
        /\ \A j \in jobs' \ jobs : j.by = "stop"
    BY <2>1, <2>2, TakeAllInv
  <2>4. \A t \in atStop' : t \in Traces /\ InReport(t)
    BY <2>1, <2>2 DEF IInv, TracesUnderTheirSchema, InReport, ReportOf
  <2>5. \A t \in atStop' : phase'[t] = "added" /\ \A j \in jobs : t \notin j.traces
    BY <2>1, <2>4 DEF IInv, PlaceInv
  <2>6. StopInv'
    BY <2>1, <2>3, <2>4, <2>5 DEF StopInv
  <2>. QED
    BY <2>3, <2>6 DEF IInv
<1>6. CASE ServerStopped
  BY <1>6 DEF ServerStopped, IInv, TypeOK, TracesUnderTheirSchema, PlaceInv, JobInv, StopInv,
              LastSeenInv, InReport, InJob, ReportOf
<1>7. CASE UNCHANGED vars
  BY <1>7 DEF vars, IInv, TypeOK, TracesUnderTheirSchema, PlaceInv, JobInv, StopInv,
              LastSeenInv, InReport, InJob, ReportOf
<1>. QED
  BY <1>1, <1>2, <1>3, <1>4, <1>5, <1>6, <1>7 DEF Next

LEMMA Invariance == Spec => []IInv
  BY InitInv, NextInv, PTL DEF Spec

-----------------------------------------------------------------------------
\* Every variable keeps its type; in particular no report is received more often
\* than maxAttempts allows.
THEOREM TypeCorrect == Spec => []TypeOK
  BY Invariance, PTL DEF IInv

\* Whatever traces, schemas and sizes there are, a trace is gathered and sent
\* under the schema that its request was processed with.
THEOREM UnderTheirSchema == Spec => []TracesUnderTheirSchema
  BY Invariance, PTL DEF IInv

\* addTrace(), the timer, big reports and serverWillStop() neither lose a trace
\* nor report it twice.
THEOREM InOneReport == Spec => []EveryTraceInOneReport
<1>1. IInv => EveryTraceInOneReport
  <2>. SUFFICES ASSUME IInv PROVE EveryTraceInOneReport
    OBVIOUS
  <2>. USE DEF IInv
  <2>1. ASSUME NEW t \in Traces
        PROVE  /\ \A i, j \in {j \in jobs : t \in j.traces} : i = j
               /\ (phase[t] = "added") <=> InReport(t) \/ InJob(t) \/ t \in settled \/ t \in failed
               /\ ~(InReport(t) /\ (InJob(t) \/ t \in settled \/ t \in failed))
               /\ ~(InJob(t) /\ (t \in settled \/ t \in failed))
               /\ ~(t \in settled /\ t \in failed)
    BY DEF PlaceInv, InJob
  <2>2. ASSUME NEW t \in Traces
        PROVE  LET holders == {j \in jobs : t \in j.traces}
                   places == {p \in {"report", "job", "settled", "failed"} :
                                \/ p = "report" /\ t \in reports[ReportOf(t)]
                                \/ p = "job" /\ holders # {}
                                \/ p = "settled" /\ t \in settled
                                \/ p = "failed" /\ t \in failed}
               IN  /\ \A i, j \in holders : i = j
                   /\ (phase[t] = "added") = (places # {})
                   /\ \A p, q \in places : p = q
    <3>. DEFINE holders == {j \in jobs : t \in j.traces}
                places == {p \in {"report", "job", "settled", "failed"} :
                             \/ p = "report" /\ t \in reports[ReportOf(t)]
                             \/ p = "job" /\ holders # {}
                             \/ p = "settled" /\ t \in settled
                             \/ p = "failed" /\ t \in failed}
    <3>1. (holders # {}) <=> InJob(t)
      BY DEF InJob
    <3>2. (places # {}) <=> InReport(t) \/ InJob(t) \/ t \in settled \/ t \in failed
      <4>. HIDE DEF holders
      <4>. QED
        BY <3>1 DEF InReport, ReportOf
    <3>3. \A p, q \in places : p = q
      <4>. HIDE DEF holders
      <4>. QED
        BY <2>1, <3>1 DEF InReport, ReportOf
    <3>. QED
      BY <2>1, <3>2, <3>3
  <2>. QED
    BY <2>2 DEF EveryTraceInOneReport
<1>. QED
  BY <1>1, Invariance, PTL

\* serverWillStop() waits for the last reports, whatever is added meanwhile.
THEOREM FinalReports == Spec => []FinalReportsAreSent
<1>1. IInv => FinalReportsAreSent
  <2>. SUFFICES ASSUME IInv, stopPc = "stopped", NEW t \in atStop
                PROVE  t \in failed \/ (t \in settled /\ received[t] > 0)
    BY DEF FinalReportsAreSent
  <2>1. t \in Traces /\ phase[t] = "added" /\ ~InReport(t) /\ ~InJob(t)
    BY DEF IInv, TypeOK, StopInv, InJob
  <2>2. t \in settled \/ t \in failed
    BY <2>1 DEF IInv, PlaceInv
  <2>. QED
    BY <2>2 DEF IInv, PlaceInv
<1>. QED
  BY <1>1, Invariance, PTL

-----------------------------------------------------------------------------
(* The contents of a report.                                               *)

\* What is remembered as reported was reported.
SeenInv ==
  /\ addedAs \in [Recorded -> {"none", "trace", "stats"}]
  /\ inReport \subseteq Recorded
  /\ \A k \in seen : \E u \in Recorded : addedAs[u] = "trace" /\ Kind(u) = k

\* Every key has its traces and its statistics.
EntryInv ==
  \A key \in DOMAIN report :
    /\ DOMAIN report[key] = {"trace", "stats", "contributing"}
    /\ report[key].trace \in Seq(Recorded)

StatsInv == SeenInv /\ EntryInv /\ TracesAreFiled

LEMMA StatsInitInv == StatsInit => StatsInv
<1>. SUFFICES ASSUME StatsInit PROVE StatsInv
  OBVIOUS
<1>. USE DEF StatsInit
<1>1. SeenInv
  BY DEF SeenInv
<1>2. EntryInv
  BY DEF EntryInv
<1>3. TracesAreFiled
  BY DEF TracesAreFiled
<1>. QED
  BY <1>1, <1>2, <1>3 DEF StatsInv

\* Another trace at the end of a sequence that does not have it.
LEMMA AppendOnce ==
  ASSUME NEW s \in Seq(Recorded), NEW t \in Recorded, t \notin ToSet(s),
         IsInjective(s)
  PROVE  /\ Append(s, t) \in Seq(Recorded)
         /\ ToSet(Append(s, t)) = ToSet(s) \cup {t}
         /\ IsInjective(Append(s, t))
<1>1. /\ DOMAIN s = 1 .. Len(s) /\ Len(s) \in Nat
      /\ DOMAIN Append(s, t) = 1 .. Len(s) + 1
      /\ \A i \in 1 .. Len(s) : Append(s, t)[i] = s[i]
      /\ Append(s, t)[Len(s) + 1] = t
  OBVIOUS
<1>2. \A i \in DOMAIN Append(s, t) : i \in DOMAIN s \/ i = Len(s) + 1
  BY <1>1
<1>3. ToSet(Append(s, t)) = ToSet(s) \cup {t}
  <2>1. ToSet(Append(s, t)) \subseteq ToSet(s) \cup {t}
    BY <1>1, <1>2 DEF ToSet
  <2>2. ToSet(s) \cup {t} \subseteq ToSet(Append(s, t))
    BY <1>1 DEF ToSet
  <2>. QED
    BY <2>1, <2>2
<1>4. IsInjective(Append(s, t))
  BY <1>1, <1>2 DEF IsInjective, ToSet
<1>. QED
  BY <1>3, <1>4

\* The kind of a trace does not depend on the state.
LEMMA KindStays == \A u \in Recorded : Kind(u)' = Kind(u)
  OBVIOUS

\* addTrace() changes what is under the key of the trace: its traces, or the
\* statistics of its client.
LEMMA StatsAddInv == ASSUME StatsInv, NEW t \in Recorded, FileTrace(t) PROVE StatsInv'
<1>. DEFINE key == Trace[t].key
            client == Trace[t].client
            entry == IF key \notin DOMAIN report THEN EmptyTracesAndStats
                     ELSE report[key]
            asTrace == supported /\ Kind(t) \notin seen
            Filed(k) == {u \in inReport : addedAs[u] = "trace" /\ Trace[u].key = k}
<1>1. /\ addedAs[t] = "none"
      /\ seen' = IF supported THEN seen \cup {Kind(t)} ELSE seen
      /\ addedAs' = [addedAs EXCEPT ![t] = IF asTrace THEN "trace" ELSE "stats"]
      /\ inReport' = inReport \cup {t}
  BY DEF FileTrace
<1>2. /\ DOMAIN report' = DOMAIN report \cup {key}
      /\ \A k \in DOMAIN report : k # key => report'[k] = report[k]
  BY DEF FileTrace
<1>3. /\ t \notin inReport
      /\ inReport \subseteq Recorded
      /\ \A u \in inReport : addedAs'[u] = addedAs[u]
  BY <1>1 DEF StatsInv, SeenInv, TracesAreFiled
<1>4. SeenInv'
  <2>1. addedAs' \in [Recorded -> {"none", "trace", "stats"}] /\ inReport' \subseteq Recorded
    BY <1>1 DEF StatsInv, SeenInv
  <2>2. ASSUME NEW k \in seen' PROVE \E u \in Recorded : addedAs'[u] = "trace" /\ Kind(u)' = k
    <3>1. \A u \in Recorded : Kind(u)' = Kind(u)
      BY KindStays
    <3>2. CASE k \in seen
      BY <1>1, <3>1, <3>2 DEF StatsInv, SeenInv
    <3>3. CASE k \notin seen
      <4>1. asTrace /\ k = Kind(t)
        BY <1>1, <2>2, <3>3
      <4>. QED
        BY <1>1, <3>1, <4>1 DEF StatsInv, SeenInv
    <3>. QED
      BY <3>2, <3>3
  <2>. QED
    BY <2>1, <2>2 DEF SeenInv
<1>5. /\ DOMAIN entry = {"trace", "stats", "contributing"}
      /\ entry.trace \in Seq(Recorded)
      /\ ToSet(entry.trace) = Filed(key)
      /\ IsInjective(entry.trace)
  <2>1. CASE key \in DOMAIN report
    BY <2>1 DEF StatsInv, EntryInv, TracesAreFiled
  <2>2. CASE key \notin DOMAIN report
    <3>1. entry = [trace |-> << >>, stats |-> << >>, contributing |-> << >>]
      BY <2>2 DEF EmptyTracesAndStats
    <3>2. Filed(key) = {}
      BY <2>2 DEF StatsInv, TracesAreFiled
    <3>3. DOMAIN entry = {"trace", "stats", "contributing"} /\ entry.trace = << >>
      BY <3>1
    <3>4. ToSet(<< >>) = {} /\ IsInjective(<< >>) /\ << >> \in Seq(Recorded)
      BY DEF ToSet, IsInjective
    <3>. HIDE DEF entry
    <3>. QED
      BY <3>2, <3>3, <3>4
  <2>. QED
    BY <2>1, <2>2
<1>6. \A k \in DOMAIN report : k # key =>
        {u \in inReport' : addedAs'[u] = "trace" /\ Trace[u].key = k} = Filed(k)
  BY <1>1, <1>3
<1>7. CASE asTrace
  <2>1. report'[key] = [entry EXCEPT !.trace = Append(@, t)]
    BY <1>7 DEF FileTrace
  <2>2. /\ DOMAIN report'[key] = {"trace", "stats", "contributing"}
        /\ report'[key].trace = Append(entry.trace, t)
        /\ report'[key].stats = entry.stats
    <3>. HIDE DEF entry
    <3>. QED
      BY <1>5, <2>1
  <2>3. addedAs'[t] = "trace"
    BY <1>1, <1>7 DEF StatsInv, SeenInv
  <2>4. /\ report'[key].trace \in Seq(Recorded)
        /\ ToSet(report'[key].trace) = Filed(key) \cup {t}
        /\ IsInjective(report'[key].trace)
    <3>. HIDE DEF entry
    <3>1. t \notin ToSet(entry.trace)
      BY <1>3, <1>5
    <3>. QED
      BY <1>5, <2>2, <3>1, AppendOnce
  <2>5. {u \in inReport' : addedAs'[u] = "trace" /\ Trace[u].key = key} = Filed(key) \cup {t}
    BY <1>1, <1>3, <2>3
  <2>6. EntryInv'
    BY <1>2, <2>2, <2>4 DEF StatsInv, EntryInv
  <2>7. ASSUME NEW k \in DOMAIN report'
        PROVE  /\ ToSet(report'[k].trace)
                    = {u \in inReport' : addedAs'[u] = "trace" /\ Trace[u].key = k}
               /\ IsInjective(report'[k].trace)
    <3>1. CASE k = key
      BY <2>4, <2>5, <3>1
    <3>2. CASE k # key
      BY <1>2, <1>6, <2>7, <3>2 DEF StatsInv, TracesAreFiled
    <3>. QED
      BY <3>1, <3>2
  <2>8. ASSUME NEW u \in inReport'
        PROVE  /\ Trace[u].key \in DOMAIN report'
               /\ addedAs'[u] \in {"trace", "stats"}
               /\ addedAs'[u] = "stats" => Trace[u].client \in DOMAIN report'[Trace[u].key].stats
    <3>1. CASE u = t
      BY <1>2, <2>3, <3>1
    <3>2. CASE u # t
      BY <1>1, <1>2, <1>3, <2>2, <2>8, <3>2 DEF StatsInv, TracesAreFiled
    <3>. QED
      BY <3>1, <3>2
  <2>. QED
    BY <1>4, <2>6, <2>7, <2>8 DEF StatsInv, TracesAreFiled, ToSet, IsInjective
<1>8. CASE ~asTrace
  <2>. DEFINE start == [stats |-> IF client \notin DOMAIN entry.stats THEN EmptyStats
                                 ELSE entry.stats[client],
                       bytes |-> bytes + (IF key \notin DOMAIN report THEN StringBytes ELSE 0)
                                 + (IF client \notin DOMAIN entry.stats
                                    THEN 20 + 3 * StringBytes ELSE 0)]
              counted == AddToStats(start, t)
              contributing == IF include THEN Append(entry.contributing, t)
                              ELSE entry.contributing
  <2>1. report'[key] =
          [entry EXCEPT
             !.stats = [c \in DOMAIN @ \cup {client} |->
                          IF c = client THEN counted.stats ELSE @[c]],
             !.contributing = contributing]
    BY <1>8 DEF FileTrace
  <2>2. /\ DOMAIN report'[key] = {"trace", "stats", "contributing"}
        /\ report'[key].trace = entry.trace
        /\ DOMAIN report'[key].stats = DOMAIN entry.stats \cup {client}
    <3>. HIDE DEF entry, counted, contributing
    <3>. QED
      BY <1>5, <2>1
  <2>3. addedAs'[t] = "stats"
    BY <1>1, <1>8 DEF StatsInv, SeenInv
  <2>4. {u \in inReport' : addedAs'[u] = "trace" /\ Trace[u].key = key} = Filed(key)
    BY <1>1, <1>3, <2>3
  <2>5. EntryInv'
    BY <1>2, <1>5, <2>2 DEF StatsInv, EntryInv
  <2>6. ASSUME NEW k \in DOMAIN report'
        PROVE  /\ ToSet(report'[k].trace)
                    = {u \in inReport' : addedAs'[u] = "trace" /\ Trace[u].key = k}
               /\ IsInjective(report'[k].trace)
    <3>1. CASE k = key
      BY <1>5, <2>2, <2>4, <3>1
    <3>2. CASE k # key
      BY <1>2, <1>6, <2>6, <3>2 DEF StatsInv, TracesAreFiled
    <3>. QED
      BY <3>1, <3>2
  <2>7. ASSUME NEW u \in inReport'
        PROVE  /\ Trace[u].key \in DOMAIN report'
               /\ addedAs'[u] \in {"trace", "stats"}
               /\ addedAs'[u] = "stats" => Trace[u].client \in DOMAIN report'[Trace[u].key].stats
    <3>1. CASE u = t
      BY <1>2, <2>2, <2>3, <3>1
    <3>2. CASE u # t
      BY <1>1, <1>2, <1>3, <2>2, <2>7, <3>2 DEF StatsInv, TracesAreFiled
    <3>. QED
      BY <3>1, <3>2
  <2>. QED
    BY <1>4, <2>5, <2>6, <2>7 DEF StatsInv, TracesAreFiled, ToSet, IsInjective
<1>. QED
  BY <1>7, <1>8

LEMMA StatsNextInv == StatsInv /\ [StatsNext]_(statsVars) => StatsInv'
<1>. SUFFICES ASSUME StatsInv, [StatsNext]_(statsVars) PROVE StatsInv'
  OBVIOUS
<1>1. ASSUME NEW t \in Recorded, FileTrace(t) PROVE StatsInv'
  BY <1>1, StatsAddInv
<1>2. ASSUME NEW kind \in seen, Evict(kind) PROVE StatsInv'
  BY <1>2, KindStays DEF Evict, StatsInv, SeenInv, EntryInv, TracesAreFiled,
     ToSet, IsInjective
<1>3. CASE Reset
  BY <1>3, KindStays DEF Reset, StatsInv, SeenInv, EntryInv, TracesAreFiled
<1>4. CASE TracesIgnored \/ UNCHANGED statsVars
  BY <1>4, KindStays DEF TracesIgnored, statsVars, StatsInv, SeenInv, EntryInv,
     TracesAreFiled, ToSet, IsInjective
<1>. QED
  BY <1>1, <1>2, <1>3, <1>4 DEF StatsNext

\* So they hold in every state.
LEMMA StatsInvariance == StatsSpec => []StatsInv
  BY StatsInitInv, StatsNextInv, PTL DEF StatsSpec

\* OurReport.addTrace() keeps every trace of a report once, whatever order they
\* come in: as a trace under its key, or in the statistics of its key and client.
THEOREM FiledOnce == StatsSpec => []TracesAreFiled
  BY StatsInvariance, PTL DEF StatsInv

\* defaultSendOperationsAsTrace() reduces a trace to statistics only when one like
\* it was reported, whatever the cache of what it has seen lost meanwhile.
THEOREM FirstOfItsKind == StatsSpec => FirstOfItsKindIsATrace
<1>1. ASSUME NEW t \in Recorded, NEW u \in Recorded, Kind(u) = Kind(t)
      PROVE  Alike(t, u)
  <2>1. /\ Trace[t].key = Trace[u].key
        /\ DurationToBucket(Trace[t].duration) = DurationToBucket(Trace[u].duration)
        /\ Trace[t].endTime \div 60 = Trace[u].endTime \div 60
        /\ (IF HasErrors[t] THEN Trace[t].endTime \div 5 ELSE -1)
             = (IF HasErrors[u] THEN Trace[u].endTime \div 5 ELSE -1)
    BY <1>1 DEF Kind
  <2>2. Trace[t].endTime \div 5 # -1 /\ Trace[u].endTime \div 5 # -1
    BY StatsAssumption DEF StatsAssumption
  <2>3. HasErrors[t] \in BOOLEAN /\ HasErrors[u] \in BOOLEAN
    BY DEF HasErrors
  <2>. QED
    BY <2>1, <2>2, <2>3 DEF Alike
<1>2. ASSUME StatsInv, [StatsNext]_(statsVars), NEW t \in Recorded,
             addedAs[t] = "none", addedAs'[t] = "stats", supported
      PROVE  \E u \in Recorded : addedAs[u] = "trace" /\ Alike(t, u)
  <2>1. FileTrace(t)
    <3>1. addedAs' # addedAs
      BY <1>2
    <3>2. PICK u \in Recorded : FileTrace(u)
      BY <1>2, <3>1 DEF StatsNext, Evict, Reset, TracesIgnored,
         statsVars
    <3>3. \E how \in {"trace", "stats"} : addedAs' = [addedAs EXCEPT ![u] = how]
      BY <3>2 DEF FileTrace
    <3>4. u = t
      BY <1>2, <3>3
    <3>. QED
      BY <3>2, <3>4
  <2>2. Kind(t) \in seen
    BY <1>2, <2>1 DEF FileTrace, StatsInv, SeenInv
  <2>3. PICK u \in Recorded : addedAs[u] = "trace" /\ Kind(u) = Kind(t)
    BY <1>2, <2>2 DEF StatsInv, SeenInv
  <2>. QED
    BY <1>1, <2>3
<1>3. StatsInv /\ [StatsNext]_(statsVars) =>
        [\A t \in Recorded :
           addedAs[t] = "none" /\ addedAs'[t] = "stats" /\ supported =>
             \E u \in Recorded : addedAs[u] = "trace" /\ Alike(t, u)]_(statsVars)
  BY <1>2
<1>. QED
  BY <1>3, StatsInvariance, PTL
     DEF StatsSpec, FirstOfItsKindIsATrace

-----------------------------------------------------------------------------
(* Induction and recursion, up to a number.                                *)

\* Induction up to a number, for a set of numbers: the library's theorems on
\* induction take an operator.
LEMMA UpTo ==
  ASSUME NEW n \in Nat, NEW T, 0 \in T,
         \A i \in 0 .. n - 1 : i \in T => i + 1 \in T
  PROVE  n \in T
<1>. DEFINE Less == {ss \in Nat \X Nat : ss[1] < ss[2]}
            Out == {i \in 0 .. n : i \notin T}
<1>1. IsWellFoundedOn(Less, Nat)
  BY NatLessThanWellFounded DEF OpToRel
<1>2. SUFFICES ASSUME Out # {} PROVE FALSE
  OBVIOUS
<1>3. PICK i \in Out : \A j \in Out : ~ (<<j, i>> \in Less)
  <2>1. Out \subseteq Nat
    OBVIOUS
  <2>. HIDE DEF Less, Out
  <2>. QED
    BY <1>1, <1>2, <2>1, WFMin
<1>4. i \in 0 .. n /\ i # 0 /\ i - 1 \in 0 .. n - 1
  BY <1>3
<1>5. i - 1 \in T
  <2>1. <<i - 1, i>> \in Less /\ i - 1 \in 0 .. n
    BY <1>4
  <2>. HIDE DEF Less
  <2>. QED
    BY <1>3, <2>1
<1>6. (i - 1) + 1 \in T /\ (i - 1) + 1 = i
  BY <1>4, <1>5
<1>. QED
  BY <1>3, <1>6

\* A walk adds its nodes one after the other.
LEMMA WalkedStep ==
  ASSUME NEW acc, NEW visits, Len(visits) \in Nat
  PROVE  /\ Walked(acc, visits)[0] = acc
         /\ \A i \in 0 .. Len(visits) - 1 :
              Walked(acc, visits)[i + 1] = AddNode(Walked(acc, visits)[i], visits[i + 1])
<1>. DEFINE n == Len(visits)
            Is(f, m) == f = [i \in 0 .. m |-> IF i = 0 THEN acc
                                              ELSE AddNode(f[i - 1], visits[i])]
            Done == {m \in Nat : \E f : Is(f, m)}
<1>1. 0 \in Done
  <2>. DEFINE f == [i \in 0 .. 0 |-> acc]
  <2>1. Is(f, 0)
    OBVIOUS
  <2>. QED
    BY <2>1
<1>2. ASSUME NEW m \in 0 .. n - 1, m \in Done PROVE m + 1 \in Done
  <2>1. PICK f : Is(f, m)
    BY <1>2
  <2>. DEFINE g == [i \in 0 .. m + 1 |-> IF i = m + 1 THEN AddNode(f[m], visits[i]) ELSE f[i]]
  <2>2. \A i \in 0 .. m : g[i] = f[i]
    OBVIOUS
  <2>3. ASSUME NEW i \in 0 .. m + 1
        PROVE  g[i] = IF i = 0 THEN acc ELSE AddNode(g[i - 1], visits[i])
    <3>1. CASE i = m + 1
      BY <2>2, <3>1
    <3>2. CASE i # m + 1
      <4>1. i \in 0 .. m /\ (i = 0 \/ i - 1 \in 0 .. m)
        BY <3>2
      <4>2. f[i] = IF i = 0 THEN acc ELSE AddNode(f[i - 1], visits[i])
        BY <2>1, <4>1
      <4>. QED
        BY <2>2, <4>1, <4>2
    <3>. QED
      BY <3>1, <3>2
  <2>4. Is(g, m + 1)
    BY <2>3
  <2>. QED
    <3>. HIDE DEF Is
    <3>. QED
      BY <1>2, <2>4
<1>3. n \in Done
  <2>. HIDE DEF Done
  <2>. QED
    BY <1>1, <1>2, UpTo
<1>4. Is(Walked(acc, visits), n)
  BY <1>3 DEF Walked
<1>. QED
  BY <1>4

\* toArray() goes over the values one after the other.
LEMMA WrittenStep ==
  ASSUME NEW h, Len(h) \in Nat
  PROVE  /\ Written(h)[0] = [zeroes |-> 0, out |-> << >>]
         /\ \A i \in 0 .. Len(h) - 1 :
              Written(h)[i + 1] = WriteValue(Written(h)[i], h[i + 1])
<1>. DEFINE n == Len(h)
            Is(f, m) == f = [i \in 0 .. m |-> IF i = 0 THEN [zeroes |-> 0, out |-> << >>]
                                              ELSE WriteValue(f[i - 1], h[i])]
            Done == {m \in Nat : \E f : Is(f, m)}
<1>1. 0 \in Done
  <2>. DEFINE f == [i \in 0 .. 0 |-> [zeroes |-> 0, out |-> << >>]]
  <2>1. Is(f, 0)
    OBVIOUS
  <2>. QED
    BY <2>1
<1>2. ASSUME NEW m \in 0 .. n - 1, m \in Done PROVE m + 1 \in Done
  <2>1. PICK f : Is(f, m)
    BY <1>2
  <2>. DEFINE g == [i \in 0 .. m + 1 |-> IF i = m + 1 THEN WriteValue(f[m], h[i]) ELSE f[i]]
  <2>2. \A i \in 0 .. m : g[i] = f[i]
    OBVIOUS
  <2>3. ASSUME NEW i \in 0 .. m + 1
        PROVE  g[i] = IF i = 0 THEN [zeroes |-> 0, out |-> << >>] ELSE WriteValue(g[i - 1], h[i])
    <3>1. CASE i = m + 1
      BY <2>2, <3>1
    <3>2. CASE i # m + 1
      <4>1. i \in 0 .. m /\ (i = 0 \/ i - 1 \in 0 .. m)
        BY <3>2
      <4>2. f[i] = IF i = 0 THEN [zeroes |-> 0, out |-> << >>] ELSE WriteValue(f[i - 1], h[i])
        BY <2>1, <4>1
      <4>. QED
        BY <2>2, <4>1, <4>2
    <3>. QED
      BY <3>1, <3>2
  <2>4. Is(g, m + 1)
    BY <2>3
  <2>. QED
    <3>. HIDE DEF Is
    <3>. QED
      BY <1>2, <2>4
<1>3. n \in Done
  <2>. HIDE DEF Done
  <2>. QED
    BY <1>1, <1>2, UpTo
<1>4. Is(Written(h), n)
  BY <1>3 DEF Written
<1>. QED
  BY <1>4

\* A reader goes over the numbers one after the other.
LEMMA ExpandedStep ==
  ASSUME NEW array, Len(array) \in Nat
  PROVE  /\ Expanded(array)[0] = << >>
         /\ \A i \in 0 .. Len(array) - 1 :
              Expanded(array)[i + 1] = Expanded(array)[i] \o Run(array[i + 1])
<1>. DEFINE n == Len(array)
            Is(f, m) == f = [i \in 0 .. m |-> IF i = 0 THEN << >>
                                              ELSE f[i - 1] \o Run(array[i])]
            Done == {m \in Nat : \E f : Is(f, m)}
<1>1. 0 \in Done
  <2>. DEFINE f == [i \in 0 .. 0 |-> << >>]
  <2>1. Is(f, 0)
    OBVIOUS
  <2>. QED
    BY <2>1
<1>2. ASSUME NEW m \in 0 .. n - 1, m \in Done PROVE m + 1 \in Done
  <2>1. PICK f : Is(f, m)
    BY <1>2
  <2>. DEFINE g == [i \in 0 .. m + 1 |-> IF i = m + 1 THEN f[m] \o Run(array[i]) ELSE f[i]]
  <2>2. \A i \in 0 .. m : g[i] = f[i]
    OBVIOUS
  <2>3. ASSUME NEW i \in 0 .. m + 1
        PROVE  g[i] = IF i = 0 THEN << >> ELSE g[i - 1] \o Run(array[i])
    <3>1. CASE i = m + 1
      BY <2>2, <3>1
    <3>2. CASE i # m + 1
      <4>1. i \in 0 .. m /\ (i = 0 \/ i - 1 \in 0 .. m)
        BY <3>2
      <4>2. f[i] = IF i = 0 THEN << >> ELSE f[i - 1] \o Run(array[i])
        BY <2>1, <4>1
      <4>. QED
        BY <2>2, <4>1, <4>2
    <3>. QED
      BY <3>1, <3>2
  <2>4. Is(g, m + 1)
    BY <2>3
  <2>. QED
    <3>. HIDE DEF Is
    <3>. QED
      BY <1>2, <2>4
<1>3. n \in Done
  <2>. HIDE DEF Done
  <2>. QED
    BY <1>1, <1>2, UpTo
<1>4. Is(Expanded(array), n)
  BY <1>3 DEF Expanded
<1>5. ASSUME NEW i \in 0 .. n - 1
      PROVE  Expanded(array)[i + 1] = Expanded(array)[i] \o Run(array[i + 1])
  <2>1. i + 1 \in 0 .. n /\ i + 1 # 0 /\ (i + 1) - 1 = i
    OBVIOUS
  <2>2. Expanded(array)[i + 1] = Expanded(array)[(i + 1) - 1] \o Run(array[i + 1])
    BY <1>4, <2>1
  <2>. QED
    BY <2>1, <2>2
<1>6. Expanded(array)[0] = << >>
  BY <1>4
<1>. QED
  BY <1>5, <1>6

\* A function whose value for a number depends on its values for lower numbers
\* exists: the library's theorem on such functions takes an operator.
LooksDown(B, D, V) ==
  /\ \A n \in D, f \in [D -> V] : B[<<f, n>>] \in V
  /\ \A n \in D, f, g \in [D -> V] :
       (\A m \in D : m < n => f[m] = g[m]) => B[<<f, n>>] = B[<<g, n>>]
IsFixed(f, B, D, V) == f \in [D -> V] /\ \A n \in D : f[n] = B[<<f, n>>]

\* There is such a function.
LEMMA RecursiveFunction ==
  ASSUME NEW D \in SUBSET Nat, NEW V, V # {}, NEW B, LooksDown(B, D, V)
  PROVE  \E f : IsFixed(f, B, D, V)
<1>. PICK v \in V : TRUE
  OBVIOUS
<1>. DEFINE Is(f, m) == \A n \in D : n < m => f[n] = B[<<f, n>>]
            Done == {m \in Nat : \E f \in [D -> V] : Is(f, m)}
<1>1. \A n \in D : n \in Nat /\ n + 1 \in Nat /\ ~(n < 0)
  OBVIOUS
<1>2. \A n \in D, f \in [D -> V] : B[<<f, n>>] \in V
  BY DEF LooksDown
<1>3. ASSUME NEW n \in D, NEW f \in [D -> V], NEW g \in [D -> V],
             \A m \in D : m < n => f[m] = g[m]
      PROVE  B[<<f, n>>] = B[<<g, n>>]
  BY <1>3 DEF LooksDown
<1>4. 0 \in Done
  <2>. DEFINE f == [n \in D |-> v]
  <2>1. f \in [D -> V] /\ Is(f, 0)
    OBVIOUS
  <2>. HIDE DEF Is, f
  <2>. QED
    BY <2>1
<1>5. ASSUME NEW m \in Nat, m \in Done PROVE m + 1 \in Done
  <2>1. PICK f \in [D -> V] : Is(f, m)
    BY <1>5
  <2>. DEFINE g == [n \in D |-> IF n = m THEN B[<<f, n>>] ELSE f[n]]
  <2>2. g \in [D -> V]
    BY <1>2
  <2>3. \A n \in D : n # m => g[n] = f[n]
    OBVIOUS
  <2>4. m \in D => g[m] = B[<<f, m>>]
    OBVIOUS
  <2>. HIDE DEF g
  <2>5. ASSUME NEW n \in D, n < m + 1 PROVE g[n] = B[<<g, n>>]
    <3>1. \A k \in D : k < n => f[k] = g[k]
      BY <1>1, <2>3, <2>5
    <3>2. B[<<f, n>>] = B[<<g, n>>]
      BY <1>3, <2>2, <3>1
    <3>3. n = m \/ n < m
      BY <1>1, <2>5
    <3>. QED
      BY <2>1, <2>3, <2>4, <3>2, <3>3
  <2>6. Is(g, m + 1)
    BY <2>5
  <2>. HIDE DEF Is
  <2>. QED
    BY <2>2, <2>6
<1>6. ASSUME NEW m \in Nat PROVE m \in Done
  <2>. HIDE DEF Done
  <2>. QED
    BY <1>4, <1>5, UpTo
<1>7. ASSUME NEW f \in [D -> V], NEW g \in [D -> V], NEW m \in Nat, NEW k \in Nat, m <= k,
             Is(f, m), Is(g, k), NEW n \in D, n < m
      PROVE  f[n] = g[n]
  <2>. DEFINE T == {i \in 0 .. m : \A j \in D : j < i => f[j] = g[j]}
  <2>1. 0 \in T
    BY <1>1, <1>7
  <2>2. ASSUME NEW i \in 0 .. m - 1, i \in T PROVE i + 1 \in T
    <3>1. ASSUME NEW j \in D, j < i + 1 PROVE f[j] = g[j]
      <4>1. j < m /\ j < k /\ \A l \in D : l < j => l < i
        BY <1>7, <3>1
      <4>2. \A l \in D : l < j => f[l] = g[l]
        BY <2>2, <4>1
      <4>3. f[j] = B[<<f, j>>] /\ g[j] = B[<<g, j>>]
        BY <1>7, <4>1
      <4>4. B[<<f, j>>] = B[<<g, j>>]
        BY <1>3, <4>2
      <4>. QED
        BY <4>3, <4>4
    <3>. QED
      BY <2>2, <3>1
  <2>3. m \in T
    <3>. HIDE DEF T
    <3>. QED
      BY <2>1, <2>2, UpTo
  <2>. QED
    BY <1>7, <2>3
<1>. DEFINE Upto(n) == CHOOSE f \in [D -> V] : Is(f, n + 1)
            F == [n \in D |-> Upto(n)[n]]
<1>8. ASSUME NEW n \in D PROVE Upto(n) \in [D -> V] /\ Is(Upto(n), n + 1)
  <2>1. n + 1 \in Nat
    BY <1>1
  <2>2. \E f \in [D -> V] : Is(f, n + 1)
    BY <1>6, <2>1
  <2>. HIDE DEF Is
  <2>. QED
    BY <2>2
<1>. HIDE DEF Upto
<1>9. F \in [D -> V]
  BY <1>8
<1>10. ASSUME NEW n \in D PROVE F[n] = B[<<F, n>>]
  <2>1. ASSUME NEW m \in D, m < n PROVE F[m] = Upto(n)[m]
    <3>1. /\ m + 1 \in Nat /\ n + 1 \in Nat /\ m + 1 <= n + 1 /\ m < m + 1
      BY <1>1, <2>1
    <3>2. Upto(m)[m] = Upto(n)[m]
      <4>. HIDE DEF Is
      <4>. QED
        BY <1>7, <1>8, <3>1
    <3>. QED
      BY <3>2
  <2>2. Upto(n)[n] = B[<<Upto(n), n>>]
    BY <1>8
  <2>. HIDE DEF F
  <2>3. B[<<Upto(n), n>>] = B[<<F, n>>]
    BY <1>8, <1>9, <1>3, <2>1
  <2>. QED
    BY <2>2, <2>3 DEF F
<1>. HIDE DEF F
<1>. QED
  BY <1>9, <1>10 DEF IsFixed

-----------------------------------------------------------------------------
(* The walk over a trace is defined, and comes to nodes with their paths.  *)

\* Sequences one after the other.
LEMMA FlattenType ==
  ASSUME NEW S, NEW seqs \in Seq(Seq(S))
  PROVE  FlattenSeq(seqs) \in Seq(S)
<1>. DEFINE n == Len(seqs)
            D == 1 .. n
            V == Seq(S)
            Body(f, i) == IF i = 1 THEN seqs[i] ELSE f[i - 1] \o seqs[i]
            B == [p \in [D -> V] \X D |-> Body(p[1], p[2])]
<1>1. n \in Nat /\ D \in SUBSET Nat /\ << >> \in V /\ \A i \in D : seqs[i] \in V
  OBVIOUS
<1>2. CASE n = 0
  <2>1. seqs = << >>
    BY <1>2
  <2>. QED
    BY <1>2, <2>1 DEF FlattenSeq
<1>3. CASE n # 0
  <2>1. ASSUME NEW f \in [D -> V], NEW i \in D PROVE Body(f, i) \in V
    <3>1. i = 1 \/ i - 1 \in D
      BY <1>1
    <3>2. \A x, y \in V : x \o y \in V
      OBVIOUS
    <3>. HIDE DEF V
    <3>. QED
      BY <1>1, <3>1, <3>2
  <2>2. /\ B \in [[D -> V] \X D -> V]
        /\ \A f \in [D -> V], i \in D : B[<<f, i>>] = Body(f, i)
    <3>. HIDE DEF D, V, Body
    <3>. QED
      BY <2>1
  <2>3. ASSUME NEW i \in D, NEW f \in [D -> V], NEW g \in [D -> V],
               \A m \in D : m < i => f[m] = g[m]
        PROVE  B[<<f, i>>] = B[<<g, i>>]
    <3>1. i = 1 \/ (i - 1 \in D /\ i - 1 < i)
      BY <1>1
    <3>2. Body(f, i) = Body(g, i)
      BY <2>3, <3>1
    <3>. HIDE DEF B, Body
    <3>. QED
      BY <2>2, <3>2
  <2>4. PICK f : IsFixed(f, B, D, V)
    <3>1. LooksDown(B, D, V)
      <4>. HIDE DEF D, V, B, Body
      <4>. QED
        BY <2>1, <2>2, <2>3 DEF LooksDown
    <3>2. D \in SUBSET Nat /\ V # {}
      BY <1>1
    <3>. HIDE DEF D, V, B
    <3>. QED
      BY <3>1, <3>2, RecursiveFunction
  <2>. DEFINE flatten == CHOOSE h :
                h = [i \in 1 .. n |-> IF i = 1 THEN seqs[i] ELSE h[i - 1] \o seqs[i]]
  <2>5. f = [i \in D |-> Body(f, i)]
    <3>. HIDE DEF B, Body, D
    <3>. QED
      BY <2>2, <2>4 DEF IsFixed
  <2>6. flatten = [i \in D |-> Body(flatten, i)]
    BY <2>5
  <2>7. FlattenSeq(seqs) = flatten[n]
    BY <1>3 DEF FlattenSeq
  <2>. HIDE DEF flatten
  <2>. DEFINE T == {i \in Nat : i = 0 \/ i \notin D \/ flatten[i] \in V}
  <2>8. 0 \in T
    OBVIOUS
  <2>9. ASSUME NEW i \in 0 .. n - 1, i \in T PROVE i + 1 \in T
    <3>1. i + 1 \in D /\ (i + 1) - 1 = i
      BY <1>1
    <3>2. flatten[i + 1] = Body(flatten, i + 1)
      BY <2>6, <3>1
    <3>3. i # 0 => i \in D /\ flatten[i] \in V
      BY <1>1, <2>9
    <3>4. Body(flatten, i + 1) \in V
      <4>1. \A x, y \in V : x \o y \in V
        OBVIOUS
      <4>2. seqs[i + 1] \in V
        BY <1>1, <3>1
      <4>3. Body(flatten, i + 1) = IF i = 0 THEN seqs[i + 1] ELSE flatten[i] \o seqs[i + 1]
        BY <3>1
      <4>. HIDE DEF V, Body
      <4>. QED
        BY <3>3, <4>1, <4>2, <4>3
    <3>5. flatten[i + 1] \in V
      BY <3>2, <3>4
    <3>. HIDE DEF V, D
    <3>. QED
      BY <3>5
  <2>10. n \in T
    <3>. HIDE DEF T, n
    <3>. QED
      BY <1>1, <2>8, <2>9, UpTo
  <2>. QED
    BY <1>1, <1>3, <2>7, <2>10
<1>. QED
  BY <1>2, <1>3

\* A node of a walk, with its path.
Visit == [node : Nodes, path : Seq(STRING)]

\* Visits under one more name.
LEMMA UnderType ==
  ASSUME NEW name \in STRING, NEW visits \in Seq(Visit)
  PROVE  Under(name, visits) \in Seq(Visit)
<1>1. DOMAIN visits = 1 .. Len(visits) /\ Len(visits) \in Nat
  OBVIOUS
<1>2. ASSUME NEW i \in 1 .. Len(visits)
      PROVE  [visits[i] EXCEPT !.path = << name >> \o @] \in Visit
  <2>1. visits[i] \in Visit
    OBVIOUS
  <2>2. << name >> \o visits[i].path \in Seq(STRING)
    BY <2>1 DEF Visit
  <2>. QED
    BY <2>1, <2>2 DEF Visit
<1>3. Under(name, visits) \in [1 .. Len(visits) -> Visit]
  BY <1>1, <1>2 DEF Under
<1>. DEFINE under == Under(name, visits)
            n == Len(visits)
<1>4. n \in Nat /\ under \in [1 .. n -> Visit]
  BY <1>1, <1>3
<1>. HIDE DEF under, n
<1>5. under \in Seq(Visit)
  BY <1>4
<1>. QED
  BY <1>5 DEF under

\* What NodeVisits is for a node, given what it is for the nodes below it.
NodeBody(f, n) ==
  LET Child(i) ==
        LET child == Node[n].children[i] IN
        IF Node[child].responseName = "" THEN f[child]
        ELSE Under(Node[child].responseName, f[child])
  IN  << [node |-> n, path |-> << >>] >>
      \o FlattenSeq([i \in DOMAIN Node[n].children |-> Child(i)])

\* What a node gives are visits.
LEMMA NodeBodyType ==
  ASSUME NEW n \in Nodes, NEW f,
         \A m \in Nodes : m < n => f[m] \in Seq(Visit)
  PROVE  NodeBody(f, n) \in Seq(Visit)
<1>. DEFINE children == Node[n].children
            Child(i) == LET child == children[i] IN
                        IF Node[child].responseName = "" THEN f[child]
                        ELSE Under(Node[child].responseName, f[child])
            parts == [i \in DOMAIN children |-> Child(i)]
            self == [node |-> n, path |-> << >>]
<1>1. /\ children \in Seq({m \in Nodes : m < n})
      /\ \A m \in Nodes : Node[m].responseName \in STRING
  BY TreeAssumption DEF TreeAssumption
<1>. HIDE DEF children
<1>2. DOMAIN children = 1 .. Len(children) /\ Len(children) \in Nat
  BY <1>1
<1>3. ASSUME NEW i \in DOMAIN children PROVE Child(i) \in Seq(Visit)
  <2>1. children[i] \in Nodes /\ children[i] < n
    BY <1>1
  <2>2. f[children[i]] \in Seq(Visit) /\ Node[children[i]].responseName \in STRING
    BY <1>1, <2>1
  <2>. QED
    BY <2>2, UnderType
<1>. HIDE DEF Child
<1>4. parts \in [1 .. Len(children) -> Seq(Visit)]
  BY <1>2, <1>3
<1>5. parts \in Seq(Seq(Visit))
  <2>. HIDE DEF parts
  <2>. QED
    BY <1>2, <1>4
<1>6. FlattenSeq(parts) \in Seq(Visit)
  <2>. HIDE DEF parts
  <2>. QED
    BY <1>5, FlattenType
<1>7. << self >> \in Seq(Visit)
  BY DEF Visit
<1>8. NodeBody(f, n) = << self >> \o FlattenSeq(parts)
  BY DEF NodeBody, Child, parts, children
<1>. HIDE DEF self, parts
<1>9. \A x, y \in Seq(Visit) : x \o y \in Seq(Visit)
  OBVIOUS
<1>. QED
  BY <1>6, <1>7, <1>8, <1>9

\* It depends on its children only, which have lower numbers.
LEMMA NodeBodyLooksDown ==
  ASSUME NEW n \in Nodes, NEW f, NEW g, \A m \in Nodes : m < n => f[m] = g[m]
  PROVE  NodeBody(f, n) = NodeBody(g, n)
<1>. DEFINE children == Node[n].children
            Child(h, i) == LET child == children[i] IN
                           IF Node[child].responseName = "" THEN h[child]
                           ELSE Under(Node[child].responseName, h[child])
<1>1. children \in Seq({m \in Nodes : m < n})
  BY TreeAssumption DEF TreeAssumption
<1>2. \A i \in DOMAIN children : f[children[i]] = g[children[i]]
  <2>. HIDE DEF children
  <2>. QED
    BY <1>1
<1>3. \A i \in DOMAIN children : Child(f, i) = Child(g, i)
  BY <1>2
<1>4. [i \in DOMAIN children |-> Child(f, i)] = [i \in DOMAIN children |-> Child(g, i)]
  <2>. HIDE DEF Child
  <2>. QED
    BY <1>3
<1>. QED
  BY <1>4 DEF NodeBody

\* So the visits of a tree are defined.
LEMMA NodeVisitsStep ==
  NodeVisits = [n \in Nodes |-> NodeBody(NodeVisits, n)]
<1>. DEFINE V == Seq(Visit)
            B == [p \in [Nodes -> V] \X Nodes |-> NodeBody(p[1], p[2])]
<1>1. \A n \in Nodes, f \in [Nodes -> V] : B[<<f, n>>] = NodeBody(f, n) /\ B[<<f, n>>] \in V
  <2>1. \A n \in Nodes, f \in [Nodes -> V] : B[<<f, n>>] = NodeBody(f, n)
    <3>. HIDE DEF V
    <3>. QED
      OBVIOUS
  <2>2. ASSUME NEW n \in Nodes, NEW f \in [Nodes -> V] PROVE NodeBody(f, n) \in V
    BY NodeBodyType
  <2>. HIDE DEF V, B
  <2>. QED
    BY <2>1, <2>2
<1>. HIDE DEF B
<1>2. LooksDown(B, Nodes, V)
  <2>1. ASSUME NEW n \in Nodes, NEW f \in [Nodes -> V], NEW g \in [Nodes -> V],
               \A m \in Nodes : m < n => f[m] = g[m]
        PROVE  B[<<f, n>>] = B[<<g, n>>]
    <3>1. NodeBody(f, n) = NodeBody(g, n)
      BY <2>1, NodeBodyLooksDown
    <3>. HIDE DEF V
    <3>2. B[<<f, n>>] = NodeBody(f, n) /\ B[<<g, n>>] = NodeBody(g, n)
      BY <1>1
    <3>. QED
      BY <3>1, <3>2
  <2>. HIDE DEF V
  <2>. QED
    BY <1>1, <2>1 DEF LooksDown
<1>3. Nodes \in SUBSET Nat /\ V # {}
  <2>1. << >> \in V
    OBVIOUS
  <2>. QED
    BY <2>1, TreeAssumption DEF TreeAssumption
<1>. HIDE DEF V
<1>4. PICK f : IsFixed(f, B, Nodes, V)
  BY <1>2, <1>3, RecursiveFunction
<1>5. f = [n \in Nodes |-> NodeBody(f, n)]
  BY <1>1, <1>4 DEF IsFixed
<1>. QED
  BY <1>5 DEF NodeVisits, NodeBody

\* They are nodes with their paths.
LEMMA NodeVisitsType == \A n \in Nodes : NodeVisits[n] \in Seq(Visit)
<1>. DEFINE T == {i \in Nat : \A n \in Nodes : n < i => NodeVisits[n] \in Seq(Visit)}
<1>1. \A n \in Nodes : n \in Nat /\ n + 1 \in Nat /\ ~(n < 0)
  <2>1. Nodes \subseteq Nat
    BY TreeAssumption DEF TreeAssumption
  <2>. QED
    BY <2>1
<1>2. 0 \in T
  BY <1>1
<1>3. ASSUME NEW i \in Nat, i \in T PROVE i + 1 \in T
  <2>1. ASSUME NEW n \in Nodes, n < i + 1 PROVE NodeVisits[n] \in Seq(Visit)
    <3>1. \A m \in Nodes : m < n => m < i
      BY <1>1, <2>1
    <3>2. \A m \in Nodes : m < n => NodeVisits[m] \in Seq(Visit)
      BY <1>3, <3>1
    <3>3. NodeVisits[n] = NodeBody(NodeVisits, n)
      <4>. DEFINE F == NodeVisits
      <4>1. F = [m \in Nodes |-> NodeBody(F, m)]
        BY NodeVisitsStep
      <4>. HIDE DEF F
      <4>2. F[n] = NodeBody(F, n)
        BY <4>1
      <4>. QED
        BY <4>2 DEF F
    <3>. QED
      BY <3>2, <3>3, NodeBodyType
  <2>. QED
    BY <1>3, <2>1
<1>4. ASSUME NEW n \in Nodes PROVE NodeVisits[n] \in Seq(Visit)
  <2>1. n + 1 \in Nat /\ n < n + 1
    BY <1>1
  <2>2. n + 1 \in T
    <3>. HIDE DEF T
    <3>. QED
      BY <1>2, <1>3, <2>1, UpTo
  <2>. QED
    BY <2>1, <2>2
<1>. QED
  BY <1>4

\* What PlanVisits is for a node, given what it is for the nodes below it.
PlanBody(f, p) ==
  IF Plan[p].kind # "fetch" THEN FlattenSeq([i \in DOMAIN Steps(p) |-> f[Steps(p)[i]]])
  ELSE IF Plan[p].root = None \/ Plan[p].service = "" THEN << >>
  ELSE Under(Plan[p].service, NodeVisits[Plan[p].root])

\* The nodes below one of a plan have lower numbers.
LEMMA StepsType ==
  ASSUME NEW p \in Plans
  PROVE  /\ DOMAIN Steps(p) = 1 .. Len(Steps(p)) /\ Len(Steps(p)) \in Nat
         /\ \A i \in DOMAIN Steps(p) : Steps(p)[i] \in Plans /\ Steps(p)[i] < p
<1>. DEFINE Below == {q \in Plans : q < p}
            steps == Steps(p)
<1>1. Plan[p].node \in Below \cup {None} /\ Plan[p].nodes \in Seq(Below)
  BY TreeAssumption DEF TreeAssumption
<1>2. steps \in Seq(Below)
  <2>. HIDE DEF Below
  <2>. QED
    BY <1>1 DEF Steps
<1>. HIDE DEF steps
<1>. QED
  BY <1>2 DEF steps

\* What a node of a plan gives are visits.
LEMMA PlanBodyType ==
  ASSUME NEW p \in Plans, NEW f, \A q \in Plans : q < p => f[q] \in Seq(Visit)
  PROVE  PlanBody(f, p) \in Seq(Visit)
<1>. DEFINE steps == Steps(p)
            n == Len(steps)
            parts == [i \in DOMAIN steps |-> f[steps[i]]]
            V == Seq(Visit)
<1>1. CASE Plan[p].kind = "fetch"
  <2>1. PlanBody(f, p) = IF Plan[p].root = None \/ Plan[p].service = "" THEN << >>
                         ELSE Under(Plan[p].service, NodeVisits[Plan[p].root])
    BY <1>1 DEF PlanBody
  <2>2. Plan[p].root \in Nodes \cup {None} /\ Plan[p].service \in STRING
    BY TreeAssumption DEF TreeAssumption
  <2>3. Plan[p].root # None => Under(Plan[p].service, NodeVisits[Plan[p].root]) \in V
    BY <2>2, NodeVisitsType, UnderType
  <2>4. << >> \in V
    OBVIOUS
  <2>. HIDE DEF V
  <2>5. PlanBody(f, p) \in V
    BY <2>1, <2>3, <2>4
  <2>. QED
    BY <2>5 DEF V
<1>2. CASE Plan[p].kind # "fetch"
  <2>1. PlanBody(f, p) = FlattenSeq(parts)
    BY <1>2 DEF PlanBody
  <2>2. /\ DOMAIN steps = 1 .. n /\ n \in Nat
        /\ \A i \in DOMAIN steps : f[steps[i]] \in V
    BY StepsType
  <2>. HIDE DEF steps, n, V
  <2>3. parts \in [1 .. n -> V]
    BY <2>2
  <2>. HIDE DEF parts
  <2>4. parts \in Seq(V)
    BY <2>2, <2>3
  <2>5. parts \in Seq(Seq(Visit))
    BY <2>4 DEF V
  <2>. QED
    BY <2>1, <2>5, FlattenType
<1>. QED
  BY <1>1, <1>2

\* It depends on the nodes below it only, which have lower numbers.
LEMMA PlanBodyLooksDown ==
  ASSUME NEW p \in Plans, NEW f, NEW g, \A q \in Plans : q < p => f[q] = g[q]
  PROVE  PlanBody(f, p) = PlanBody(g, p)
<1>. DEFINE steps == Steps(p)
<1>1. \A i \in DOMAIN steps : f[steps[i]] = g[steps[i]]
  BY StepsType
<1>. HIDE DEF steps
<1>2. [i \in DOMAIN steps |-> f[steps[i]]] = [i \in DOMAIN steps |-> g[steps[i]]]
  BY <1>1
<1>. QED
  BY <1>2 DEF PlanBody, steps

\* So the visits of a plan are defined.
LEMMA PlanVisitsStep ==
  PlanVisits = [p \in Plans |-> PlanBody(PlanVisits, p)]
<1>. DEFINE V == Seq(Visit)
            B == [x \in [Plans -> V] \X Plans |-> PlanBody(x[1], x[2])]
<1>1. \A p \in Plans, f \in [Plans -> V] : B[<<f, p>>] = PlanBody(f, p) /\ B[<<f, p>>] \in V
  <2>1. \A p \in Plans, f \in [Plans -> V] : B[<<f, p>>] = PlanBody(f, p)
    <3>. HIDE DEF V
    <3>. QED
      OBVIOUS
  <2>2. ASSUME NEW p \in Plans, NEW f \in [Plans -> V] PROVE PlanBody(f, p) \in V
    BY PlanBodyType
  <2>. HIDE DEF V, B
  <2>. QED
    BY <2>1, <2>2
<1>. HIDE DEF B
<1>2. LooksDown(B, Plans, V)
  <2>1. ASSUME NEW p \in Plans, NEW f \in [Plans -> V], NEW g \in [Plans -> V],
               \A q \in Plans : q < p => f[q] = g[q]
        PROVE  B[<<f, p>>] = B[<<g, p>>]
    <3>1. PlanBody(f, p) = PlanBody(g, p)
      BY <2>1, PlanBodyLooksDown
    <3>. HIDE DEF V
    <3>2. B[<<f, p>>] = PlanBody(f, p) /\ B[<<g, p>>] = PlanBody(g, p)
      BY <1>1
    <3>. QED
      BY <3>1, <3>2
  <2>. HIDE DEF V
  <2>. QED
    BY <1>1, <2>1 DEF LooksDown
<1>3. Plans \in SUBSET Nat /\ V # {}
  <2>1. << >> \in V
    OBVIOUS
  <2>. QED
    BY <2>1, TreeAssumption DEF TreeAssumption
<1>. HIDE DEF V
<1>4. PICK f : IsFixed(f, B, Plans, V)
  BY <1>2, <1>3, RecursiveFunction
<1>5. f = [p \in Plans |-> PlanBody(f, p)]
  BY <1>1, <1>4 DEF IsFixed
<1>. QED
  BY <1>5 DEF PlanVisits, PlanBody

\* They are nodes with their paths.
LEMMA PlanVisitsType == \A p \in Plans : PlanVisits[p] \in Seq(Visit)
<1>. DEFINE T == {i \in Nat : \A p \in Plans : p < i => PlanVisits[p] \in Seq(Visit)}
<1>1. \A p \in Plans : p \in Nat /\ p + 1 \in Nat /\ ~(p < 0)
  <2>1. Plans \subseteq Nat
    BY TreeAssumption DEF TreeAssumption
  <2>. QED
    BY <2>1
<1>2. 0 \in T
  BY <1>1
<1>3. ASSUME NEW i \in Nat, i \in T PROVE i + 1 \in T
  <2>1. ASSUME NEW p \in Plans, p < i + 1 PROVE PlanVisits[p] \in Seq(Visit)
    <3>1. \A q \in Plans : q < p => q < i
      BY <1>1, <2>1
    <3>2. \A q \in Plans : q < p => PlanVisits[q] \in Seq(Visit)
      BY <1>3, <3>1
    <3>3. PlanVisits[p] = PlanBody(PlanVisits, p)
      <4>. DEFINE F == PlanVisits
      <4>1. F = [q \in Plans |-> PlanBody(F, q)]
        BY PlanVisitsStep
      <4>. HIDE DEF F
      <4>2. F[p] = PlanBody(F, p)
        BY <4>1
      <4>. QED
        BY <4>2 DEF F
    <3>. QED
      BY <3>2, <3>3, PlanBodyType
  <2>. QED
    BY <1>3, <2>1
<1>4. ASSUME NEW p \in Plans PROVE PlanVisits[p] \in Seq(Visit)
  <2>1. p + 1 \in Nat /\ p < p + 1
    BY <1>1
  <2>2. p + 1 \in T
    <3>. HIDE DEF T
    <3>. QED
      BY <1>2, <1>3, <2>1, UpTo
  <2>. QED
    BY <2>1, <2>2
<1>. QED
  BY <1>4

\* A walk over a trace and its query plan comes to nodes, each with its path.
LEMMA VisitsType == \A t \in Recorded : Visits[t] \in Seq(Visit)
<1>. SUFFICES ASSUME NEW t \in Recorded PROVE Visits[t] \in Seq(Visit)
  OBVIOUS
<1>. DEFINE V == Seq(Visit)
            ofRoot == IF Trace[t].root = None THEN << >> ELSE NodeVisits[Trace[t].root]
            ofPlan == IF Trace[t].queryPlan = None THEN << >> ELSE PlanVisits[Trace[t].queryPlan]
<1>1. Trace[t].root \in Nodes \cup {None} /\ Trace[t].queryPlan \in Plans \cup {None}
  BY StatsAssumption DEF StatsAssumption
<1>2. << >> \in V /\ \A x, y \in V : x \o y \in V
  OBVIOUS
<1>. HIDE DEF V
<1>3. ofRoot \in V /\ ofPlan \in V
  BY <1>1, <1>2, NodeVisitsType, PlanVisitsType DEF V
<1>4. Visits[t] = ofRoot \o ofPlan
  BY DEF Visits
<1>. HIDE DEF ofRoot, ofPlan
<1>5. Visits[t] \in V
  BY <1>2, <1>3, <1>4
<1>. QED
  BY <1>5 DEF V

-----------------------------------------------------------------------------
(* Histograms, and what is read of them.                                   *)

\* What was read of the numbers so far does not depend on those that follow.
LEMMA ExpandedPrefix ==
  ASSUME NEW a \in Seq(Int), NEW b \in Seq(Int), Len(a) <= Len(b),
         \A i \in 1 .. Len(a) : a[i] = b[i],
         NEW n \in 0 .. Len(a)
  PROVE  Expanded(a)[n] = Expanded(b)[n]
<1>. DEFINE T == {i \in 0 .. n : Expanded(a)[i] = Expanded(b)[i]}
<1>1. Len(a) \in Nat /\ Len(b) \in Nat
  OBVIOUS
<1>2. 0 \in T
  <2>1. Expanded(a)[0] = << >>
    BY <1>1, ExpandedStep
  <2>2. Expanded(b)[0] = << >>
    BY <1>1, ExpandedStep
  <2>. QED
    BY <1>1, <2>1, <2>2
<1>3. ASSUME NEW i \in 0 .. n - 1, i \in T PROVE i + 1 \in T
  <2>1. /\ i \in 0 .. Len(a) - 1 /\ i \in 0 .. Len(b) - 1
        /\ i + 1 \in 1 .. Len(a) /\ i + 1 \in 0 .. n
    BY <1>1
  <2>2. Expanded(a)[i + 1] = Expanded(a)[i] \o Run(a[i + 1])
    BY <1>1, <2>1, ExpandedStep
  <2>3. Expanded(b)[i + 1] = Expanded(b)[i] \o Run(b[i + 1])
    BY <1>1, <2>1, ExpandedStep
  <2>. QED
    BY <1>3, <2>1, <2>2, <2>3
<1>4. n \in T
  <2>. HIDE DEF T
  <2>. QED
    BY <1>2, <1>3, UpTo
<1>. QED
  BY <1>4

\* Another number is read after all others.
LEMMA ExpandAppend ==
  ASSUME NEW a \in Seq(Int), NEW v \in Int
  PROVE  Expand(a \o << v >>) = Expand(a) \o Run(v)
<1>. DEFINE b == a \o << v >>
            n == Len(a)
<1>1. b \in Seq(Int) /\ n \in Nat /\ Len(b) = n + 1 /\ b[n + 1] = v
  OBVIOUS
<1>2. \A i \in 1 .. n : a[i] = b[i]
  OBVIOUS
<1>. HIDE DEF b, n
<1>3. Expanded(a)[n] = Expanded(b)[n]
  BY <1>1, <1>2, ExpandedPrefix DEF n
<1>4. Expanded(b)[n + 1] = Expanded(b)[n] \o Run(b[n + 1])
  <2>1. Len(b) \in Nat /\ n \in 0 .. Len(b) - 1
    BY <1>1
  <2>. QED
    BY <2>1, ExpandedStep
<1>. QED
  BY <1>1, <1>3, <1>4 DEF Expand, b, n

\* A run of zeros is read as it was.
LEMMA ExpandZeroes ==
  ASSUME NEW a \in Seq(Int), NEW z \in Nat, Expand(a) \in Seq(Nat)
  PROVE  LET before == Expand(a)
             after == Expand(a \o Zeroes(z))
         IN  /\ a \o Zeroes(z) \in Seq(Int)
             /\ after \in Seq(Nat) /\ Len(after) = Len(before) + z
             /\ \A j \in 1 .. Len(after) :
                  after[j] = IF j <= Len(before) THEN before[j] ELSE 0
<1>. DEFINE before == Expand(a)
            run == [j \in 1 .. z |-> 0]
<1>1. run \in Seq(Nat) /\ Len(run) = z /\ \A j \in 1 .. z : run[j] = 0
  <2>1. run \in [1 .. z -> Nat]
    OBVIOUS
  <2>2. \A j \in 1 .. z : run[j] = 0
    OBVIOUS
  <2>. HIDE DEF run
  <2>. QED
    BY <2>1, <2>2
<1>2. a \o Zeroes(z) \in Seq(Int)
  BY DEF Zeroes
<1>3. Expand(a \o Zeroes(z)) = before \o run
  <2>1. CASE z = 0
    <3>1. a \o Zeroes(z) = a
      BY <2>1 DEF Zeroes
    <3>2. run = << >> /\ before \o << >> = before
      BY <1>1, <2>1
    <3>. QED
      BY <3>1, <3>2
  <2>2. CASE z = 1
    <3>1. Run(0) = << 0 >> /\ run = << 0 >>
      BY <2>2 DEF Run
    <3>2. Zeroes(z) = << 0 >>
      BY <2>2 DEF Zeroes
    <3>3. Expand(a \o << 0 >>) = before \o Run(0)
      BY ExpandAppend
    <3>. QED
      BY <3>1, <3>2, <3>3
  <2>3. CASE z # 0 /\ z # 1
    <3>1. Zeroes(z) = << -z >>
      BY <2>3 DEF Zeroes
    <3>2. Run(-z) = run
      <4>1. -z < 0 /\ -(-z) = z /\ -z \in Int
        BY <2>3
      <4>. QED
        BY <4>1 DEF Run
    <3>3. Expand(a \o << -z >>) = before \o Run(-z)
      BY ExpandAppend
    <3>. QED
      BY <3>1, <3>2, <3>3
  <2>. QED
    BY <2>1, <2>2, <2>3
<1>. HIDE DEF run
<1>4. before \in Seq(Nat)
  OBVIOUS
<1>. HIDE DEF before
<1>5. /\ before \o run \in Seq(Nat) /\ Len(before \o run) = Len(before) + z
      /\ \A j \in 1 .. Len(before \o run) :
           (before \o run)[j] = IF j <= Len(before) THEN before[j] ELSE 0
  <2>1. before \o run \in Seq(Nat) /\ Len(before \o run) = Len(before) + z
    BY <1>1, <1>4, ConcatProperties
  <2>2. ASSUME NEW j \in 1 .. Len(before) + z
        PROVE  (before \o run)[j] = IF j <= Len(before) THEN before[j] ELSE 0
    <3>1. Len(before) \in Nat
      BY <1>4
    <3>2. (before \o run)[j] = IF j <= Len(before) THEN before[j] ELSE run[j - Len(before)]
      BY <1>1, <1>4, ConcatProperties
    <3>3. j > Len(before) => j - Len(before) \in 1 .. z
      BY <3>1
    <3>. QED
      BY <1>1, <3>1, <3>2, <3>3
  <2>. QED
    BY <2>1, <2>2
<1>. QED
  BY <1>2, <1>3, <1>5 DEF before

\* What is read after some values are written is those values, but for the zeros
\* that wait.
ReadSoFar(h, i) ==
  LET done == Written(h)[i]
      read == Expand(done.out)
  IN  /\ done.zeroes \in Nat /\ done.out \in Seq(Int) /\ read \in Seq(Nat)
      /\ Len(read) + done.zeroes = i
      /\ \A j \in 1 .. i : h[j] = IF j <= Len(read) THEN read[j] ELSE 0

\* One more value written, one more read, be it a zero that waits.
LEMMA ReadStep ==
  ASSUME NEW h \in Seq(Nat), NEW i \in 0 .. Len(h) - 1, ReadSoFar(h, i)
  PROVE  ReadSoFar(h, i + 1)
<1>. DEFINE done == Written(h)[i]
            read == Expand(done.out)
            zeroes == Expand(done.out \o Zeroes(done.zeroes))
            next == Written(h)[i + 1]
<1>1. /\ done.zeroes \in Nat /\ done.out \in Seq(Int) /\ read \in Seq(Nat)
      /\ Len(read) + done.zeroes = i
      /\ \A j \in 1 .. i : h[j] = IF j <= Len(read) THEN read[j] ELSE 0
  BY DEF ReadSoFar
<1>2. Len(h) \in Nat /\ i \in Nat /\ i + 1 \in 1 .. Len(h) /\ h[i + 1] \in Nat
  OBVIOUS
<1>3. next = WriteValue(done, h[i + 1])
  BY <1>2, WrittenStep
<1>4. CASE h[i + 1] = 0
  <2>1. next.zeroes = done.zeroes + 1 /\ next.out = done.out
    BY <1>3, <1>4 DEF WriteValue
  <2>. HIDE DEF done, next, read
  <2>2. Len(read) \in Nat /\ Len(read) <= i /\ Len(read) + next.zeroes = i + 1
    <3>1. Len(read) \in Nat
      BY <1>1
    <3>2. done.zeroes \in Nat /\ Len(read) + done.zeroes = i
      BY <1>1
    <3>3. next.zeroes = done.zeroes + 1
      BY <2>1
    <3>4. \A l, z \in Nat : l + z = i => l <= i /\ l + (z + 1) = i + 1
      OBVIOUS
    <3>. QED
      BY <3>1, <3>2, <3>3, <3>4
  <2>3. \A j \in 1 .. i + 1 : h[j] = IF j <= Len(read) THEN read[j] ELSE 0
    <3>1. \A j \in 1 .. i + 1 : j \in 1 .. i \/ j = i + 1
      BY <1>2
    <3>2. ~(i + 1 <= Len(read))
      BY <1>2, <2>2
    <3>3. \A j \in 1 .. i : h[j] = IF j <= Len(read) THEN read[j] ELSE 0
      BY <1>1
    <3>. QED
      BY <1>4, <3>1, <3>2, <3>3
  <2>4. Expand(next.out) = read
    BY <2>1 DEF read
  <2>5. /\ next.zeroes \in Nat /\ next.out \in Seq(Int) /\ read \in Seq(Nat)
        /\ Len(read) + next.zeroes = i + 1
    BY <1>1, <2>1, <2>2
  <2>. QED
    BY <2>3, <2>4, <2>5 DEF ReadSoFar, next
<1>5. CASE h[i + 1] # 0
  <2>1. /\ done.out \o Zeroes(done.zeroes) \in Seq(Int)
        /\ zeroes \in Seq(Nat) /\ Len(zeroes) = i
        /\ \A j \in 1 .. i : zeroes[j] = h[j]
    <3>. HIDE DEF done
    <3>. QED
      BY <1>1, ExpandZeroes
  <2>2. /\ next.zeroes = 0
        /\ next.out = done.out \o Zeroes(done.zeroes) \o << h[i + 1] >>
    <3>. DEFINE out == done.out \o Zeroes(done.zeroes) \o << h[i + 1] >>
    <3>1. next = [zeroes |-> 0, out |-> out]
      BY <1>3, <1>5 DEF WriteValue
    <3>. HIDE DEF out, next, done
    <3>2. next.zeroes = 0 /\ next.out = out
      BY <3>1
    <3>. QED
      BY <3>2 DEF out
  <2>. HIDE DEF done, next
  <2>3. next.out \in Seq(Int)
    BY <1>2, <2>1, <2>2
  <2>4. Expand(next.out) = zeroes \o << h[i + 1] >>
    <3>1. Run(h[i + 1]) = << h[i + 1] >>
      BY <1>2 DEF Run
    <3>2. h[i + 1] \in Int
      BY <1>2
    <3>3. Expand(done.out \o Zeroes(done.zeroes) \o << h[i + 1] >>) = zeroes \o Run(h[i + 1])
      BY <2>1, <3>2, ExpandAppend
    <3>. QED
      BY <2>2, <3>1, <3>3
  <2>. HIDE DEF zeroes
  <2>5. /\ Expand(next.out) \in Seq(Nat) /\ Len(Expand(next.out)) = i + 1
        /\ \A j \in 1 .. i + 1 : h[j] = Expand(next.out)[j]
    <3>. DEFINE longer == zeroes \o << h[i + 1] >>
    <3>1. h[i + 1] \in Nat /\ i \in Nat
      BY <1>2
    <3>2. longer \in Seq(Nat) /\ Len(longer) = i + 1
      BY <2>1, <3>1
    <3>3. (\A j \in 1 .. i : longer[j] = zeroes[j]) /\ longer[i + 1] = h[i + 1]
      <4>1. ASSUME NEW s \in Seq(Nat), NEW value \in Nat
            PROVE  /\ \A j \in 1 .. Len(s) : (s \o << value >>)[j] = s[j]
                   /\ (s \o << value >>)[Len(s) + 1] = value
        OBVIOUS
      <4>2. zeroes \in Seq(Nat) /\ Len(zeroes) = i
        BY <2>1
      <4>. QED
        BY <3>1, <4>1, <4>2
    <3>. HIDE DEF longer
    <3>4. \A j \in 1 .. i + 1 : j \in 1 .. i \/ j = i + 1
      BY <3>1
    <3>5. \A j \in 1 .. i + 1 : h[j] = longer[j]
      BY <2>1, <3>3, <3>4
    <3>6. Expand(next.out) = longer
      BY <2>4 DEF longer
    <3>. QED
      BY <3>2, <3>5, <3>6
  <2>6. \A j \in 1 .. i + 1 :
          h[j] = IF j <= Len(Expand(next.out)) THEN Expand(next.out)[j] ELSE 0
    BY <1>2, <2>5
  <2>7. Len(Expand(next.out)) + next.zeroes = i + 1 /\ next.zeroes \in Nat
    BY <1>2, <2>2, <2>5
  <2>. QED
    BY <2>3, <2>5, <2>6, <2>7 DEF ReadSoFar, next
<1>. QED
  BY <1>4, <1>5

\* DurationHistogram.toArray(): whoever reads what it wrote finds the histogram, but
\* for the zeros at its end.
THEOREM HistogramIsReadBack ==
  ASSUME NEW h \in Seq(Nat)
  PROVE  /\ Read(h) \in Seq(Nat) /\ Len(Read(h)) <= Len(h)
         /\ \A b \in Nat : Has(Read(h), b) = Has(h, b)
<1>. DEFINE n == Len(h)
            T == {i \in 0 .. n : ReadSoFar(h, i)}
<1>1. n \in Nat
  OBVIOUS
<1>2. 0 \in T
  <2>1. Written(h)[0] = [zeroes |-> 0, out |-> << >>]
    BY <1>1, WrittenStep
  <2>2. << >> \in Seq(Int) /\ Len(<< >>) = 0
    OBVIOUS
  <2>3. Expand(<< >>) = << >>
    BY <2>2, ExpandedStep DEF Expand
  <2>4. Written(h)[0].zeroes = 0 /\ Written(h)[0].out = << >>
    BY <2>1
  <2>5. ReadSoFar(h, 0)
    <3>1. Expand(Written(h)[0].out) = << >>
      BY <2>3, <2>4
    <3>2. << >> \in Seq(Nat) /\ \A j \in 1 .. 0 : FALSE
      OBVIOUS
    <3>3. 0 \in Nat /\ Len(<< >>) + 0 = 0
      OBVIOUS
    <3>. QED
      BY <2>2, <2>4, <3>1, <3>2, <3>3 DEF ReadSoFar
  <2>. QED
    BY <1>1, <2>5
<1>3. ASSUME NEW i \in 0 .. n - 1, i \in T PROVE i + 1 \in T
  <2>1. ReadSoFar(h, i + 1)
    BY <1>3, ReadStep
  <2>. QED
    BY <1>1, <2>1
<1>4. n \in T
  <2>. HIDE DEF T, n
  <2>. QED
    BY <1>1, <1>2, <1>3, UpTo
<1>5. /\ Read(h) \in Seq(Nat) /\ Len(Read(h)) <= n
      /\ \A j \in 1 .. n : h[j] = IF j <= Len(Read(h)) THEN Read(h)[j] ELSE 0
  BY <1>1, <1>4 DEF ReadSoFar, Read, ToArray
<1>6. ASSUME NEW b \in Nat PROVE Has(Read(h), b) = Has(h, b)
  <2>1. Len(Read(h)) \in Nat /\ b + 1 \in Nat /\ b + 1 >= 1
    BY <1>5
  <2>2. CASE b < n
    <3>1. h[b + 1] = IF b + 1 <= Len(Read(h)) THEN Read(h)[b + 1] ELSE 0
      BY <1>1, <1>5, <2>1, <2>2
    <3>2. b < Len(Read(h)) <=> b + 1 <= Len(Read(h))
      BY <2>1
    <3>. QED
      BY <2>2, <3>1, <3>2 DEF Has
  <2>3. CASE ~(b < n)
    <3>1. ~(b < Len(Read(h)))
      BY <1>1, <1>5, <2>1, <2>3
    <3>. QED
      BY <2>3, <3>1 DEF Has
  <2>. QED
    BY <2>2, <2>3
<1>. QED
  BY <1>5, <1>6

\* The pairs of one thing with each of Q. A set of pairs grows as these do.
Row(c, Q) == {c} \X Q

\* How many more pairs there are.
LEMMA PairsGrow ==
  ASSUME NEW S, IsFiniteSet(S), NEW c, NEW P, NEW Q, IsFiniteSet(Q), P \subseteq Q,
         \A x \in Q : <<c, x>> \in S <=> x \in P
  PROVE  /\ IsFiniteSet(S \cup Row(c, Q))
         /\ Cardinality(S \cup Row(c, Q)) = Cardinality(S) + Cardinality(Q) - Cardinality(P)
         /\ Cardinality(S) \in Nat /\ Cardinality(Q) \in Nat /\ Cardinality(P) \in Nat
<1>1. IsFiniteSet({c}) /\ Cardinality({c}) = 1 /\ IsFiniteSet(P)
  BY FS_Singleton, FS_Subset
<1>2. /\ IsFiniteSet({c} \X Q) /\ Cardinality({c} \X Q) = 1 * Cardinality(Q)
      /\ IsFiniteSet({c} \X P) /\ Cardinality({c} \X P) = 1 * Cardinality(P)
  BY <1>1, FS_Product
<1>3. S \cap Row(c, Q) = {c} \X P
  <2>1. \A e \in {c} \X Q : e = <<c, e[2]>> /\ e[2] \in Q
    OBVIOUS
  <2>2. \A e \in {c} \X P : e = <<c, e[2]>> /\ e[2] \in P
    OBVIOUS
  <2>. QED
    BY <2>1, <2>2 DEF Row
<1>4. Cardinality(S) \in Nat /\ Cardinality(Q) \in Nat /\ Cardinality(P) \in Nat
  BY <1>1, FS_CardinalityType
<1>5. /\ IsFiniteSet(S \cup Row(c, Q))
      /\ Cardinality(S \cup Row(c, Q))
           = Cardinality(S) + Cardinality(Row(c, Q)) - Cardinality(S \cap Row(c, Q))
  BY <1>2, FS_Union DEF Row
<1>6. Cardinality(Row(c, Q)) = Cardinality(Q) /\ Cardinality({c} \X P) = Cardinality(P)
  BY <1>2, <1>4 DEF Row
<1>. QED
  BY <1>3, <1>4, <1>5, <1>6

\* The size of what a number of things stands for.
LEMMA UpToSize ==
  ASSUME NEW n \in Nat
  PROVE  IsFiniteSet(1 .. n) /\ Cardinality(1 .. n) = n
<1>1. IsFiniteSet(1 .. n) /\ Cardinality(1 .. n) = IF 1 > n THEN 0 ELSE n - 1 + 1
  BY FS_Interval
<1>. QED
  BY <1>1

\* The entries of a histogram, by its counts.
LEMMA EntriesAre ==
  ASSUME NEW h \in Seq(Nat)
  PROVE  /\ \A i, j : <<i, j>> \in EntriesOf(h) <=>
                        i \in Nat /\ i >= 1 /\ j \in 1 .. Has(h, i - 1)
         /\ \A e \in EntriesOf(h) : e = <<e[1], e[2]>>
<1>1. \A i, j : <<i, j>> \in EntriesOf(h) <=> i \in 1 .. Len(h) /\ j \in 1 .. h[i]
  BY DEF EntriesOf
<1>2. ASSUME NEW i \in Nat, i >= 1
      PROVE  Has(h, i - 1) = IF i <= Len(h) THEN h[i] ELSE 0
  <2>1. Len(h) \in Nat /\ (i - 1) + 1 = i /\ (i - 1 < Len(h) <=> i <= Len(h))
    OBVIOUS
  <2>. QED
    BY <2>1 DEF Has
<1>3. Len(h) \in Nat
  OBVIOUS
<1>4. ASSUME NEW i, NEW j
      PROVE  <<i, j>> \in EntriesOf(h) <=> i \in Nat /\ i >= 1 /\ j \in 1 .. Has(h, i - 1)
  <2>1. CASE i \in 1 .. Len(h)
    <3>1. i \in Nat /\ i >= 1 /\ i <= Len(h)
      BY <1>3, <2>1
    <3>2. Has(h, i - 1) = h[i]
      BY <1>2, <3>1
    <3>. QED
      BY <1>1, <2>1, <3>1, <3>2
  <2>2. CASE i \notin 1 .. Len(h) /\ i \in Nat /\ i >= 1
    <3>1. Has(h, i - 1) = 0
      BY <1>2, <1>3, <2>2
    <3>. QED
      BY <1>1, <2>2, <3>1
  <2>3. CASE ~(i \in Nat /\ i >= 1)
    BY <1>1, <1>3, <2>3
  <2>. QED
    BY <2>1, <2>2, <2>3
<1>5. \A e \in EntriesOf(h) : e = <<e[1], e[2]>>
  BY DEF EntriesOf
<1>. QED
  BY <1>4, <1>5

\* What is read has as many entries.
LEMMA SumIsReadBack ==
  ASSUME NEW h \in Seq(Nat)
  PROVE  SumOf(Read(h)) = SumOf(h)
<1>1. Read(h) \in Seq(Nat) /\ \A b \in Nat : Has(Read(h), b) = Has(h, b)
  BY HistogramIsReadBack
<1>2. \A i \in Nat : i >= 1 => Has(Read(h), i - 1) = Has(h, i - 1)
  BY <1>1
<1>3. \A i, j : <<i, j>> \in EntriesOf(Read(h)) <=> <<i, j>> \in EntriesOf(h)
  <2>1. \A i, j : <<i, j>> \in EntriesOf(h) <=>
                    i \in Nat /\ i >= 1 /\ j \in 1 .. Has(h, i - 1)
    BY EntriesAre
  <2>2. \A i, j : <<i, j>> \in EntriesOf(Read(h)) <=>
                    i \in Nat /\ i >= 1 /\ j \in 1 .. Has(Read(h), i - 1)
    BY <1>1, EntriesAre
  <2>. QED
    BY <1>2, <2>1, <2>2
<1>4. \A e \in EntriesOf(h) \cup EntriesOf(Read(h)) : e = <<e[1], e[2]>>
  BY <1>1, EntriesAre
<1>5. EntriesOf(Read(h)) = EntriesOf(h)
  BY <1>3, <1>4
<1>. QED
  BY <1>5 DEF SumOf

\* A histogram, and how one more duration changes it.
IsHistogram(h) == h \in Seq(Nat) /\ Len(h) <= BucketCount /\ IsFiniteSet(EntriesOf(h))

\* DurationHistogram.incrementDuration(): whatever the logarithm and the length of
\* the sequence, the duration counts in its bucket, one that exists, and in no other.
THEOREM DurationsCountOnce ==
  ASSUME NEW h \in Seq(Nat), Len(h) <= BucketCount, NEW log \in Int
  PROVE  LET bucket == DurationToBucket(log)
             after == IncrementDuration(h, log)
         IN  /\ after \in Seq(Nat) /\ Len(after) <= BucketCount
             /\ bucket \in 0 .. BucketCount - 1 /\ bucket < Len(after)
             /\ \A b \in 0 .. BucketCount - 1 :
                  Has(after, b) = Has(h, b) + (IF b = bucket THEN 1 ELSE 0)
<1>. DEFINE bucket == DurationToBucket(log)
            length == IF bucket >= Len(h) THEN bucket + 1 ELSE Len(h)
            after == [i \in 1 .. length |->
                        (IF i <= Len(h) THEN h[i] ELSE 0) + (IF i = bucket + 1 THEN 1 ELSE 0)]
<1>1. IncrementDuration(h, log) = after
  BY DEF IncrementDuration, IncrementBucket
<1>2. BucketCount \in Nat /\ BucketCount >= 1
  BY StatsAssumption DEF StatsAssumption
<1>3. bucket \in Nat /\ bucket <= BucketCount - 1
  BY <1>2 DEF DurationToBucket
<1>. HIDE DEF bucket
<1>4. length \in Nat /\ length <= BucketCount /\ bucket < length /\ length >= Len(h)
  BY <1>2, <1>3
<1>5. \A i \in 1 .. length : after[i] \in Nat
  BY <1>3
<1>6. ASSUME NEW b \in 0 .. BucketCount - 1
      PROVE  Has(after, b) = Has(h, b) + (IF b = bucket THEN 1 ELSE 0)
  <2>1. b + 1 \in Nat /\ b < BucketCount /\ (b + 1 = bucket + 1 <=> b = bucket)
    BY <1>2, <1>3
  <2>2. Len(after) = length
    BY <1>4
  <2>. QED
    BY <1>2, <1>3, <1>4, <2>1, <2>2 DEF Has
<1>7. after \in Seq(Nat) /\ Len(after) = length
  <2>1. after \in [1 .. length -> Nat]
    BY <1>5
  <2>. HIDE DEF after, length
  <2>. QED
    BY <1>4, <2>1
<1>. QED
  BY <1>1, <1>2, <1>3, <1>4, <1>6, <1>7 DEF bucket

\* No count is negative, and there is none beyond the end.
LEMMA HasIsNat ==
  ASSUME NEW h \in Seq(Nat), NEW b \in Nat
  PROVE  Has(h, b) \in Nat /\ (b >= Len(h) => Has(h, b) = 0)
  BY DEF Has

\* A duration is one more entry of the histogram.
LEMMA OneMore ==
  ASSUME NEW h, IsHistogram(h), NEW log \in Int
  PROVE  LET after == IncrementDuration(h, log) IN
         /\ IsHistogram(after)
         /\ SumOf(h) \in Nat /\ SumOf(after) = SumOf(h) + 1
         /\ \A b \in 0 .. BucketCount - 1 :
              Has(after, b) = Has(h, b) + (IF b = DurationToBucket(log) THEN 1 ELSE 0)
<1>. DEFINE after == IncrementDuration(h, log)
            bucket == DurationToBucket(log)
            entry == <<bucket + 1, Has(h, bucket) + 1>>
<1>1. h \in Seq(Nat) /\ Len(h) <= BucketCount /\ IsFiniteSet(EntriesOf(h)) /\ Len(h) \in Nat
  BY DEF IsHistogram
<1>2. /\ after \in Seq(Nat) /\ Len(after) <= BucketCount
      /\ bucket \in 0 .. BucketCount - 1
      /\ \A b \in 0 .. BucketCount - 1 :
           Has(after, b) = Has(h, b) + (IF b = bucket THEN 1 ELSE 0)
  BY <1>1, DurationsCountOnce
<1>3. BucketCount \in Nat
  BY StatsAssumption DEF StatsAssumption
<1>. HIDE DEF after, bucket
<1>4. \A b \in Nat : Has(after, b) = Has(h, b) + (IF b = bucket THEN 1 ELSE 0)
  <2>1. ASSUME NEW b \in Nat, ~(b < BucketCount)
        PROVE  Has(after, b) = 0 /\ Has(h, b) = 0 /\ b # bucket
    BY <1>1, <1>2, <1>3, <2>1 DEF Has
  <2>2. \A b \in Nat : b < BucketCount => b \in 0 .. BucketCount - 1
    BY <1>3
  <2>. QED
    BY <1>2, <2>1, <2>2
<1>5. \A b \in Nat : Has(h, b) \in Nat
  BY <1>1, HasIsNat
<1>6. bucket \in Nat /\ entry \notin EntriesOf(h)
  <2>1. bucket \in Nat /\ (bucket + 1) - 1 = bucket
    BY <1>2
  <2>2. Has(h, bucket) + 1 \notin 1 .. Has(h, bucket)
    BY <1>5, <2>1
  <2>. QED
    BY <1>1, <2>1, <2>2, EntriesAre
<1>7. \A i, j : <<i, j>> \in EntriesOf(after) <=> <<i, j>> \in EntriesOf(h) \/ <<i, j>> = entry
  <2>1. \A i, j : <<i, j>> \in EntriesOf(h) <=>
                    i \in Nat /\ i >= 1 /\ j \in 1 .. Has(h, i - 1)
    BY <1>1, EntriesAre
  <2>2. \A i, j : <<i, j>> \in EntriesOf(after) <=>
                    i \in Nat /\ i >= 1 /\ j \in 1 .. Has(after, i - 1)
    BY <1>2, EntriesAre
  <2>3. ASSUME NEW i \in Nat, i >= 1, NEW j
        PROVE  j \in 1 .. Has(after, i - 1) <=> j \in 1 .. Has(h, i - 1) \/ <<i, j>> = entry
    <3>1. i - 1 \in Nat /\ Has(h, i - 1) \in Nat
      BY <1>5, <2>3
    <3>2. CASE i = bucket + 1
      <4>1. i - 1 = bucket
        BY <1>6, <3>2
      <4>2. Has(after, bucket) = Has(h, bucket) + 1
        BY <1>4, <1>6
      <4>3. <<i, j>> = entry <=> j = Has(h, bucket) + 1
        BY <3>2
      <4>. QED
        BY <3>1, <4>1, <4>2, <4>3
    <3>3. CASE i # bucket + 1
      <4>1. i - 1 # bucket /\ <<i, j>> # entry
        BY <1>6, <3>3
      <4>2. Has(after, i - 1) = Has(h, i - 1)
        BY <1>4, <3>1, <4>1
      <4>. QED
        BY <4>1, <4>2
    <3>. QED
      BY <3>2, <3>3
  <2>4. entry[1] \in Nat /\ entry[1] >= 1 /\ entry = <<entry[1], entry[2]>>
    BY <1>6
  <2>. QED
    BY <2>1, <2>2, <2>3, <2>4
<1>8. \A e \in EntriesOf(h) \cup EntriesOf(after) \cup {entry} : e = <<e[1], e[2]>>
  BY <1>1, <1>2, EntriesAre
<1>9. EntriesOf(after) = EntriesOf(h) \cup {entry}
  <2>. HIDE DEF entry
  <2>. QED
    BY <1>7, <1>8
<1>10. IsFiniteSet(EntriesOf(after)) /\ SumOf(after) = SumOf(h) + 1
  <2>. HIDE DEF entry
  <2>. QED
    BY <1>1, <1>6, <1>9, FS_AddElement DEF SumOf
<1>11. SumOf(h) \in Nat
  BY <1>1, FS_CardinalityType DEF SumOf
<1>. QED
  BY <1>2, <1>10, <1>11 DEF IsHistogram, after, bucket

\* A new histogram counts nothing.
LEMMA EmptyIsHistogram ==
  /\ IsHistogram(EmptyHistogram) /\ SumOf(EmptyHistogram) = 0
  /\ \A b \in Nat : Has(EmptyHistogram, b) = 0
<1>. DEFINE h == EmptyHistogram
<1>1. InitSize \in Nat /\ InitSize <= BucketCount /\ BucketCount \in Nat
  BY StatsAssumption DEF StatsAssumption
<1>2. h \in [1 .. InitSize -> Nat] /\ \A i \in 1 .. InitSize : h[i] = 0
  BY DEF EmptyHistogram
<1>. HIDE DEF h
<1>3. h \in Seq(Nat) /\ Len(h) = InitSize /\ DOMAIN h = 1 .. InitSize
  BY <1>1, <1>2
<1>4. EntriesOf(h) = {}
  BY <1>2, <1>3 DEF EntriesOf
<1>5. \A b \in Nat : Has(h, b) = 0
  BY <1>1, <1>2, <1>3 DEF Has
<1>. QED
  BY <1>1, <1>3, <1>4, <1>5, FS_EmptySet DEF IsHistogram, SumOf, h

-----------------------------------------------------------------------------
(* Errors and fields, when one more visit is counted.                      *)

\* The errors of one more visit.
LEMMA ErrorsOfOneMore ==
  ASSUME NEW S, IsFiniteSet(ErrorsOf(S)), NEW v, v \notin S, Errors(v) \in Nat
  PROVE  /\ IsFiniteSet(ErrorsOf(S \cup {v}))
         /\ Cardinality(ErrorsOf(S)) \in Nat
         /\ Cardinality(ErrorsOf(S \cup {v})) = Cardinality(ErrorsOf(S)) + Errors(v)
<1>. DEFINE Q == 1 .. Errors(v)
            P == {}
            T == ErrorsOf(S)
<1>1. ErrorsOf(S \cup {v}) = ErrorsOf(S) \cup Row(v, Q)
  <2>. DEFINE Of(u) == {u} \X (1 .. Errors(u))
  <2>1. UNION {Of(u) : u \in S \cup {v}} = (UNION {Of(u) : u \in S}) \cup Of(v)
    <3>. HIDE DEF Of
    <3>. QED
      OBVIOUS
  <2>. QED
    BY <2>1 DEF ErrorsOf, Row
<1>2. P \subseteq Q /\ \A x \in Q : <<v, x>> \in T <=> x \in P
  BY DEF ErrorsOf
<1>3. IsFiniteSet(Q) /\ Cardinality(Q) = Errors(v)
  BY UpToSize
<1>4. Cardinality(P) = 0
  BY FS_EmptySet
<1>5. IsFiniteSet(T)
  OBVIOUS
<1>. HIDE DEF Q, P, T
<1>6. IsFiniteSet(T \cup Row(v, Q))
  BY <1>2, <1>3, <1>5, PairsGrow
<1>7. Cardinality(T \cup Row(v, Q)) = Cardinality(T) + Cardinality(Q) - Cardinality(P)
  <2>1. IsFiniteSet(Q)
    BY <1>3
  <2>. QED
    BY <1>2, <1>5, <2>1, PairsGrow
<1>8. Cardinality(T) \in Nat
  BY <1>5, FS_CardinalityType
<1>9. ErrorsOf(S \cup {v}) = T \cup Row(v, Q)
  BY <1>1 DEF T
<1>10. Cardinality(T \cup Row(v, Q)) = Cardinality(T) + Errors(v)
  BY <1>3, <1>4, <1>7, <1>8
<1>. QED
  BY <1>6, <1>8, <1>9, <1>10 DEF T

\* Parts of a finite set of visits.
LEMMA SomeVisits ==
  ASSUME NEW all, IsFiniteSet(all), IsFiniteSet(ErrorsOf(all)), NEW S \in SUBSET all
  PROVE  /\ IsFiniteSet(S) /\ Cardinality(S) \in Nat
         /\ IsFiniteSet(ErrorsOf(S)) /\ Cardinality(ErrorsOf(S)) \in Nat
<1>1. ErrorsOf(S) \subseteq ErrorsOf(all)
  BY DEF ErrorsOf
<1>. QED
  BY <1>1, FS_Subset, FS_CardinalityType

\* No visits have no errors.
LEMMA NoVisits ==
  /\ IsFiniteSet({}) /\ Cardinality({}) = 0
  /\ ErrorsOf({}) = {} /\ Cardinality(ErrorsOf({})) = 0
  BY FS_EmptySet DEF ErrorsOf

\* A path and its start are among its finitely many prefixes.
LEMMA PrefixesOfPath ==
  ASSUME NEW path \in Seq(STRING)
  PROVE  /\ << >> \in PathPrefixes(path) /\ path \in PathPrefixes(path)
         /\ IsFiniteSet(PathPrefixes(path))
<1>. DEFINE n == Len(path)
            prefix == [i \in 0 .. n |-> SubSeq(path, 1, i)]
<1>1. n \in Nat
  OBVIOUS
<1>2. SubSeq(path, 1, 0) = << >>
  BY SubSeqEmpty
<1>3. SubSeq(path, 1, n) = path
  BY SubSeqFull
<1>4. IsFiniteSet(0 .. n)
  BY <1>1, FS_Interval
<1>5. prefix \in Surjection(0 .. n, PathPrefixes(path))
  BY DEF Surjection, PathPrefixes
<1>6. IsFiniteSet(PathPrefixes(path))
  BY <1>4, <1>5, FS_Surjection
<1>7. 0 \in 0 .. n /\ n \in 0 .. n
  BY <1>1
<1>. QED
  BY <1>2, <1>3, <1>6, <1>7 DEF PathPrefixes

-----------------------------------------------------------------------------
\* A visit without errors adds nothing to the tree of errors.
LEMMA PathsSkip ==
  ASSUME NEW paths, NEW all, PathsFit(paths, all), NEW v, ~(Errors(v) > 0)
  PROVE  PathsFit(paths, all \cup {v})
<1>1. {u \in all \cup {v} : Errors(u) > 0} = {u \in all : Errors(u) > 0}
  OBVIOUS
<1>. QED
  BY <1>1 DEF PathsFit

\* A visit with errors adds them at its path, and the paths to it.
LEMMA PathsStep ==
  ASSUME NEW paths, NEW all, IsFiniteSet(all), IsFiniteSet(ErrorsOf(all)),
         PathsFit(paths, all),
         NEW v, v \notin all, Errors(v) \in Nat, Errors(v) > 0,
         VisitOf(v).path \in Seq(STRING),
         NEW after,
         DOMAIN after = DOMAIN paths \cup PathPrefixes(VisitOf(v).path),
         \A p \in DOMAIN after :
           LET old == IF p \in DOMAIN paths THEN paths[p] ELSE NoErrors IN
           after[p] = IF p = VisitOf(v).path
                      THEN [errors |-> old.errors + Errors(v), requests |-> old.requests + 1]
                      ELSE old
  PROVE  PathsFit(after, all \cup {v})
<1>. DEFINE bad == {u \in all : Errors(u) > 0}
            badNow == {u \in all \cup {v} : Errors(u) > 0}
            path == VisitOf(v).path
            Here(p) == {u \in bad : VisitOf(u).path = p}
            HereNow(p) == {u \in badNow : VisitOf(u).path = p}
            At(S) == [errors |-> Cardinality(ErrorsOf(S)), requests |-> Cardinality(S)]
<1>1. badNow = bad \cup {v}
  OBVIOUS
<1>2. /\ DOMAIN paths = {<< >>} \cup UNION {PathPrefixes(VisitOf(u).path) : u \in bad}
      /\ \A p \in DOMAIN paths : paths[p] = At(Here(p))
  BY DEF PathsFit
<1>3. DOMAIN after = {<< >>} \cup UNION {PathPrefixes(VisitOf(u).path) : u \in badNow}
  BY <1>1, <1>2
<1>4. \A p : p \notin DOMAIN paths => Here(p) = {} \/ ~(p \in Seq(STRING))
  <2>1. ASSUME NEW u \in bad, VisitOf(u).path \in Seq(STRING)
        PROVE  VisitOf(u).path \in DOMAIN paths
    BY <1>2, <2>1, PrefixesOfPath
  <2>. QED
    BY <2>1
<1>5. ASSUME NEW p \in DOMAIN after PROVE after[p] = At(HereNow(p))
  <2>1. p \notin DOMAIN paths => Here(p) = {}
    \* What is new is a prefix of the path, so a sequence.
    <3>1. PathPrefixes(path) \subseteq Seq(STRING)
      BY SubSeqProperties DEF PathPrefixes
    <3>. QED
      BY <1>4, <3>1
  <2>. DEFINE old == IF p \in DOMAIN paths THEN paths[p] ELSE NoErrors
  <2>2. old = At(Here(p))
    BY <1>2, <2>1, NoVisits DEF NoErrors
  <2>3. old.errors = Cardinality(ErrorsOf(Here(p))) /\ old.requests = Cardinality(Here(p))
    <3>. HIDE DEF old, Here
    <3>. QED
      BY <2>2
  <2>4. CASE p = path
    <3>1. HereNow(p) = Here(p) \cup {v} /\ v \notin Here(p) /\ Here(p) \subseteq all
      BY <2>4
    <3>2. /\ IsFiniteSet(Here(p)) /\ Cardinality(Here(p)) \in Nat
          /\ IsFiniteSet(ErrorsOf(Here(p)))
      <4>. HIDE DEF Here
      <4>. QED
        BY <3>1, SomeVisits
    <3>3. Cardinality(Here(p) \cup {v}) = Cardinality(Here(p)) + 1
      <4>. HIDE DEF Here
      <4>. QED
        BY <3>1, <3>2, FS_AddElement
    <3>4. Cardinality(ErrorsOf(Here(p) \cup {v})) = Cardinality(ErrorsOf(Here(p))) + Errors(v)
      <4>. HIDE DEF Here
      <4>. QED
        BY <3>1, <3>2, ErrorsOfOneMore
    <3>5. after[p] = [errors |-> old.errors + Errors(v), requests |-> old.requests + 1]
      BY <2>4
    <3>. HIDE DEF Here, HereNow, old
    <3>. QED
      BY <2>3, <3>1, <3>3, <3>4, <3>5
  <2>5. CASE p # path
    <3>1. HereNow(p) = Here(p)
      BY <2>5
    <3>2. after[p] = old
      BY <2>5
    <3>. QED
      BY <2>2, <3>1, <3>2
  <2>. QED
    BY <2>4, <2>5
<1>. QED
  BY <1>3, <1>5 DEF PathsFit

\* A visit that is not a resolver's, or that did not end, adds nothing to the fields.
LEMMA FieldsSkip ==
  ASSUME NEW fields, NEW all, FieldsFit(fields, all), NEW v, ~HasEnded(v)
  PROVE  FieldsFit(fields, all \cup {v})
<1>1. {u \in all \cup {v} : HasEnded(u)} = {u \in all : HasEnded(u)}
  OBVIOUS
<1>. QED
  BY <1>1 DEF FieldsFit

\* Another adds itself and its errors to its field.
LEMMA FieldsStep ==
  ASSUME NEW fields, NEW all, IsFiniteSet(all), IsFiniteSet(ErrorsOf(all)),
         FieldsFit(fields, all),
         NEW v, v \notin all, Errors(v) \in Nat, HasEnded(v),
         NEW old, FieldOf(v) \in DOMAIN fields => old = fields[FieldOf(v)],
         FieldOf(v) \notin DOMAIN fields =>
           old.count = 0 /\ old.errors = 0 /\ old.withErrors = 0 /\ SumOf(old.latency) = 0,
         NEW after, DOMAIN after = DOMAIN fields \cup {FieldOf(v)},
         \A id \in DOMAIN fields : id # FieldOf(v) => after[id] = fields[id],
         after[FieldOf(v)].count = old.count + 1,
         after[FieldOf(v)].errors = old.errors + Errors(v),
         after[FieldOf(v)].withErrors = old.withErrors + (IF Errors(v) > 0 THEN 1 ELSE 0),
         SumOf(after[FieldOf(v)].latency) = SumOf(old.latency) + 1
  PROVE  FieldsFit(after, all \cup {v})
<1>. DEFINE ended == {u \in all : HasEnded(u)}
            endedNow == {u \in all \cup {v} : HasEnded(u)}
            Here(id) == {u \in ended : FieldOf(u) = id}
            HereNow(id) == {u \in endedNow : FieldOf(u) = id}
            Bad(S) == {u \in S : Errors(u) > 0}
            Fits(field, S) ==
              /\ field.count = Cardinality(S)
              /\ field.errors = Cardinality(ErrorsOf(S))
              /\ field.withErrors = Cardinality(Bad(S))
              /\ SumOf(field.latency) = Cardinality(S)
            id == FieldOf(v)
            here == Here(id)
<1>1. endedNow = ended \cup {v}
  OBVIOUS
<1>2. /\ DOMAIN fields = {FieldOf(u) : u \in ended}
      /\ \A i \in DOMAIN fields : Fits(fields[i], Here(i))
  BY DEF FieldsFit
<1>3. DOMAIN after = {FieldOf(u) : u \in endedNow}
  BY <1>1, <1>2
<1>4. Fits(old, here)
  <2>1. CASE id \in DOMAIN fields
    BY <1>2, <2>1
  <2>2. CASE id \notin DOMAIN fields
    <3>1. here = {} /\ Bad({}) = {}
      BY <1>2, <2>2
    <3>. HIDE DEF here, Bad
    <3>. QED
      BY <2>2, <3>1, NoVisits
  <2>. QED
    BY <2>1, <2>2
<1>5. here \subseteq all /\ Bad(here) \subseteq all /\ v \notin here /\ v \notin Bad(here)
  OBVIOUS
<1>6. /\ IsFiniteSet(here) /\ Cardinality(here) \in Nat
      /\ IsFiniteSet(ErrorsOf(here))
      /\ IsFiniteSet(Bad(here)) /\ Cardinality(Bad(here)) \in Nat
  <2>. HIDE DEF here, Bad
  <2>. QED
    BY <1>5, SomeVisits
<1>7. Cardinality(here \cup {v}) = Cardinality(here) + 1
  <2>. HIDE DEF here
  <2>. QED
    BY <1>5, <1>6, FS_AddElement
<1>8. Cardinality(ErrorsOf(here \cup {v})) = Cardinality(ErrorsOf(here)) + Errors(v)
  <2>. HIDE DEF here
  <2>. QED
    BY <1>5, <1>6, ErrorsOfOneMore
<1>9. Cardinality(Bad(here \cup {v})) = Cardinality(Bad(here)) + (IF Errors(v) > 0 THEN 1 ELSE 0)
  <2>1. Bad(here \cup {v}) = IF Errors(v) > 0 THEN Bad(here) \cup {v} ELSE Bad(here)
    <3>. HIDE DEF here
    <3>. QED
      OBVIOUS
  <2>2. Cardinality(Bad(here) \cup {v}) = Cardinality(Bad(here)) + 1
    <3>. HIDE DEF here, Bad
    <3>. QED
      BY <1>5, <1>6, FS_AddElement
  <2>. HIDE DEF here, Bad
  <2>. QED
    BY <1>6, <2>1, <2>2
<1>10. Fits(after[id], here \cup {v})
  <2>. HIDE DEF here, Bad, id
  <2>. QED
    BY <1>4, <1>7, <1>8, <1>9 DEF id
<1>11. HereNow(id) = here \cup {v}
  BY <1>1
<1>12. ASSUME NEW i \in DOMAIN after PROVE Fits(after[i], HereNow(i))
  <2>1. CASE i = id
    <3>. HIDE DEF Fits, HereNow, here, id
    <3>. QED
      BY <1>10, <1>11, <2>1
  <2>2. CASE i # id
    <3>1. HereNow(i) = Here(i)
      BY <2>2
    <3>2. i \in DOMAIN fields /\ after[i] = fields[i]
      BY <2>2
    <3>. HIDE DEF Fits, HereNow, Here
    <3>. QED
      BY <1>2, <3>1, <3>2
  <2>. QED
    BY <2>1, <2>2
<1>. QED
  BY <1>3, <1>12 DEF FieldsFit

\* The names of the parts of statistics, and of a field.
StatNames ==
  {"requests", "cacheHits", "persistedHits", "persistedMisses", "registered", "forbidden",
   "withErrors", "latency", "cacheLatency", "publicTtl", "privateTtl", "paths", "fields"}

FieldNames == {"returnType", "errors", "count", "withErrors", "latency"}

\* The shape of statistics: their tree of errors and their fields.
IsStats(s) ==
  /\ DOMAIN s = StatNames
  /\ IsFiniteSet(DOMAIN s.paths) /\ << >> \in DOMAIN s.paths
  /\ IsFiniteSet(DOMAIN s.fields) /\ IsFiniteSet(Types(s))
  /\ \A id \in DOMAIN s.fields :
       DOMAIN s.fields[id] = FieldNames /\ IsHistogram(s.fields[id].latency)

\* A node of a walk, and its path of names.
IsVisit(visit) == visit.node \in Nodes /\ visit.path \in Seq(STRING)

\* A visit counts at a field just when it is a resolver's that ended: the names
\* that the code asks for are there.
LEMMA NodeFacts ==
  ASSUME NEW v, IsVisit(VisitOf(v))
  PROVE  /\ Errors(v) \in Nat
         /\ (IsField(VisitOf(v).node) <=> HasEnded(v))
         /\ Node[VisitOf(v).node].end - Node[VisitOf(v).node].start \in Int
<1>. DEFINE n == VisitOf(v).node
<1>1. n \in Nodes
  BY DEF IsVisit
<1>. HIDE DEF n
<1>2. /\ Node[n].errors \in Nat /\ Node[n].start \in Int /\ Node[n].end \in Int
      /\ Node[n].parentType # "" => Node[n].type # "" /\ Node[n].responseName # ""
  BY <1>1, TreeAssumption DEF TreeAssumption
<1>3. Node[n].parentType # "" => FieldName(n) # "" /\ Node[n].type # ""
  BY <1>2 DEF FieldName
<1>4. IsField(n) <=> Node[n].parentType # "" /\ Node[n].end >= Node[n].start
  BY <1>3 DEF IsField
<1>5. HasEnded(v) <=> Node[n].parentType # "" /\ Node[n].end >= Node[n].start
  BY DEF HasEnded, n
<1>6. Node[n].end - Node[n].start \in Int
  <2>1. \A x, y \in Int : x - y \in Int
    OBVIOUS
  <2>. QED
    BY <1>2, <2>1
<1>. QED
  BY <1>2, <1>4, <1>5, <1>6 DEF n, Errors

\* What a visit does to the tree of errors, and to the estimate.
LEMMA AddErrorsStep ==
  ASSUME NEW acc, IsStats(acc.stats), acc.bytes \in Int,
         NEW all, IsFiniteSet(all), IsFiniteSet(ErrorsOf(all)),
         PathsFit(acc.stats.paths, all), NEW v, v \notin all, IsVisit(VisitOf(v)),
         NEW after, after = AddErrors(acc, VisitOf(v))
  PROVE  /\ DOMAIN after.stats = StatNames
         /\ \A name \in StatNames \ {"paths"} : after.stats[name] = acc.stats[name]
         /\ PathsFit(after.stats.paths, all \cup {v})
         /\ IsFiniteSet(DOMAIN after.stats.paths) /\ << >> \in DOMAIN after.stats.paths
         /\ Children(acc.stats) \subseteq Children(after.stats)
         /\ after.bytes = acc.bytes + (Cardinality(Children(after.stats))
                                       - Cardinality(Children(acc.stats))) * (StringBytes + 4)
<1>. DEFINE visit == VisitOf(v)
            paths == acc.stats.paths
            path == visit.path
            new == PathPrefixes(path) \ DOMAIN paths
            tree == [p \in DOMAIN paths \cup new |->
                       IF p \in new THEN NoErrors ELSE paths[p]]
            grown == [tree EXCEPT ![path] = [errors |-> @.errors + Errors(v),
                                             requests |-> @.requests + 1]]
            stats == [acc.stats EXCEPT !.paths = grown]
<1>1. Errors(v) \in Nat
  BY NodeFacts
<1>2. /\ DOMAIN acc.stats = StatNames
      /\ IsFiniteSet(DOMAIN paths) /\ << >> \in DOMAIN paths
  BY DEF IsStats
<1>3. IsFiniteSet(Children(acc.stats))
  BY <1>2, FS_RemoveElement DEF Children
<1>4. Cardinality(Children(acc.stats)) \in Nat
  BY <1>3, FS_CardinalityType
<1>5. CASE ~(Errors(v) > 0)
  <2>1. after = acc
    <3>. HIDE DEF path, paths, new, tree, grown, stats
    <3>1. Errors(v) = 0
      BY <1>1, <1>5
    <3>. QED
      BY <3>1 DEF AddErrors, Errors
  <2>2. PathsFit(paths, all \cup {v})
    BY <1>5, PathsSkip
  <2>3. acc.bytes = acc.bytes + (Cardinality(Children(acc.stats))
                                 - Cardinality(Children(acc.stats))) * (StringBytes + 4)
    <3>1. Cardinality(Children(acc.stats)) - Cardinality(Children(acc.stats)) = 0
      BY <1>4
    <3>2. 0 * (StringBytes + 4) = 0
      BY StatsAssumption DEF StatsAssumption
    <3>. QED
      BY <3>1, <3>2
  <2>4. \A name \in DOMAIN acc.stats \ {"paths"} : after.stats[name] = acc.stats[name]
    BY <2>1
  <2>5. /\ DOMAIN after.stats = StatNames /\ after.stats.paths = paths
        /\ Children(after.stats) = Children(acc.stats)
        /\ IsFiniteSet(DOMAIN after.stats.paths) /\ << >> \in DOMAIN after.stats.paths
    BY <1>2, <2>1
  <2>6. PathsFit(after.stats.paths, all \cup {v})
    BY <2>2, <2>5
  <2>7. after.bytes = acc.bytes + (Cardinality(Children(after.stats))
                                   - Cardinality(Children(acc.stats))) * (StringBytes + 4)
    BY <2>1, <2>3
  <2>. HIDE DEF path, paths, new, tree, grown, stats
  <2>. QED
    BY <1>2, <2>4, <2>5, <2>6, <2>7
<1>6. CASE Errors(v) > 0
  <2>1. after = [stats |-> stats, bytes |-> acc.bytes + Cardinality(new) * (StringBytes + 4)]
    <3>1. Errors(v) # 0
      BY <1>1, <1>6
    <3>. QED
      BY <3>1 DEF AddErrors, Errors
  <2>2. /\ << >> \in PathPrefixes(path) /\ path \in PathPrefixes(path)
        /\ IsFiniteSet(PathPrefixes(path))
    BY PrefixesOfPath DEF IsVisit
  <2>3. DOMAIN grown = DOMAIN paths \cup PathPrefixes(path)
    OBVIOUS
  <2>4. \A p \in DOMAIN grown :
          LET old == IF p \in DOMAIN paths THEN paths[p] ELSE NoErrors IN
          grown[p] = IF p = path
                     THEN [errors |-> old.errors + Errors(v), requests |-> old.requests + 1]
                     ELSE old
    BY <2>2
  <2>. HIDE DEF grown
  <2>5. /\ DOMAIN stats = StatNames
        /\ \A name \in StatNames \ {"paths"} : stats[name] = acc.stats[name]
        /\ stats.paths = grown
    BY <1>2 DEF StatNames
  <2>. HIDE DEF stats, new
  <2>6. after.stats = stats /\ after.bytes = acc.bytes + Cardinality(new) * (StringBytes + 4)
    BY <2>1
  <2>7. PathsFit(grown, all \cup {v})
    BY <1>1, <1>6, <2>3, <2>4, PathsStep DEF IsVisit
  <2>8. IsFiniteSet(DOMAIN grown)
    BY <1>2, <2>2, <2>3, FS_Union
  <2>9. Children(stats) = Children(acc.stats) \cup new /\ Children(acc.stats) \cap new = {}
    BY <1>2, <2>3, <2>5 DEF Children, new
  <2>10. IsFiniteSet(new) /\ Cardinality(new) \in Nat
    BY <2>2, FS_Difference, FS_CardinalityType DEF new
  <2>11. Cardinality(Children(stats)) = Cardinality(Children(acc.stats)) + Cardinality(new)
    <3>1. Cardinality(Children(acc.stats) \cup new)
            = Cardinality(Children(acc.stats)) + Cardinality(new)
              - Cardinality(Children(acc.stats) \cap new)
      BY <1>3, <2>10, FS_Union
    <3>2. Cardinality(Children(acc.stats) \cap new) = 0
      BY <2>9, FS_EmptySet
    <3>. QED
      BY <1>4, <2>9, <2>10, <3>1, <3>2
  <2>12. Cardinality(Children(stats)) - Cardinality(Children(acc.stats)) = Cardinality(new)
    BY <1>4, <2>10, <2>11
  <2>. QED
    BY <1>2, <2>3, <2>5, <2>6, <2>7, <2>8, <2>9, <2>12
<1>. QED
  BY <1>1, <1>5, <1>6

\* What a visit does to the fields, and to the estimate.
FieldAdded(acc, after, all, v) ==
  /\ DOMAIN after.stats = StatNames
  /\ \A name \in StatNames \ {"fields"} : after.stats[name] = acc.stats[name]
  /\ FieldsFit(after.stats.fields, all \cup {v})
  /\ IsFiniteSet(DOMAIN after.stats.fields)
  /\ \A id \in DOMAIN after.stats.fields :
       /\ DOMAIN after.stats.fields[id] = FieldNames
       /\ IsHistogram(after.stats.fields[id].latency)
  /\ DOMAIN acc.stats.fields \subseteq DOMAIN after.stats.fields
  /\ Types(acc.stats) \subseteq Types(after.stats)
  /\ IsFiniteSet(Types(after.stats))
  /\ after.bytes = acc.bytes
       + (Cardinality(Types(after.stats)) - Cardinality(Types(acc.stats))) * StringBytes
       + (Cardinality(DOMAIN after.stats.fields) - Cardinality(DOMAIN acc.stats.fields))
           * (2 * StringBytes + 10)

\* A visit of a resolver adds itself, its errors and its duration to its field.
LEMMA AddFieldStep ==
  ASSUME NEW acc, IsStats(acc.stats), acc.bytes \in Int,
         NEW all, IsFiniteSet(all), IsFiniteSet(ErrorsOf(all)),
         FieldsFit(acc.stats.fields, all), NEW v, v \notin all, IsVisit(VisitOf(v)),
         NEW after, after = AddField(acc, VisitOf(v))
  PROVE  FieldAdded(acc, after, all, v)
<1>. DEFINE visit == VisitOf(v)
            n == visit.node
            id == << Node[n].parentType, FieldName(n) >>
            fields == acc.stats.fields
            old == IF id \notin DOMAIN fields THEN NewField(n) ELSE fields[id]
            field == [old EXCEPT !.errors = @ + Node[n].errors,
                                 !.count = @ + 1,
                                 !.withErrors = @ + (IF Node[n].errors > 0 THEN 1 ELSE 0),
                                 !.latency = IncrementDuration(@, Node[n].end - Node[n].start)]
            grown == [i \in DOMAIN fields \cup {id} |-> IF i = id THEN field ELSE fields[i]]
            stats == [acc.stats EXCEPT !.fields = grown]
            newType == \A other \in DOMAIN fields : other[1] # id[1]
            typeBytes == IF newType THEN StringBytes ELSE 0
            fieldBytes == IF id \notin DOMAIN fields THEN 2 * StringBytes + 10 ELSE 0
<1>1. /\ Errors(v) \in Nat /\ Errors(v) = Node[n].errors
      /\ (IsField(n) <=> HasEnded(v))
      /\ Node[n].end - Node[n].start \in Int /\ id = FieldOf(v)
  BY NodeFacts DEF Errors, FieldOf
<1>2. /\ DOMAIN acc.stats = StatNames /\ IsFiniteSet(DOMAIN fields)
      /\ \A i \in DOMAIN fields :
           DOMAIN fields[i] = FieldNames /\ IsHistogram(fields[i].latency)
  BY DEF IsStats
<1>3. Cardinality(DOMAIN fields) \in Nat
  BY <1>2, FS_CardinalityType
<1>4. IsFiniteSet(Types(acc.stats)) /\ Cardinality(Types(acc.stats)) \in Nat
  BY FS_CardinalityType DEF IsStats
<1>5. StringBytes \in Nat
  BY StatsAssumption DEF StatsAssumption
<1>6. CASE ~HasEnded(v)
  <2>1. after = acc
    BY <1>1, <1>6 DEF AddField
  <2>2. FieldsFit(fields, all \cup {v})
    BY <1>6, FieldsSkip
  <2>3. \A k, b \in Nat : k - k = 0 /\ 0 * b = 0
    OBVIOUS
  <2>4. acc.bytes = acc.bytes
            + (Cardinality(Types(acc.stats)) - Cardinality(Types(acc.stats))) * StringBytes
            + (Cardinality(DOMAIN fields) - Cardinality(DOMAIN fields)) * (2 * StringBytes + 10)
    BY <1>3, <1>4, <1>5, <2>3
  <2>. QED
    BY <1>2, <1>4, <2>1, <2>2, <2>4 DEF FieldAdded
<1>7. CASE HasEnded(v)
  <2>1. after = [stats |-> stats, bytes |-> acc.bytes + typeBytes + fieldBytes]
    BY <1>1, <1>7 DEF AddField
  <2>2. /\ DOMAIN old = FieldNames /\ IsHistogram(old.latency)
        /\ id \notin DOMAIN fields =>
             old.count = 0 /\ old.errors = 0 /\ old.withErrors = 0 /\ SumOf(old.latency) = 0
    <3>1. CASE id \in DOMAIN fields
      BY <1>2, <3>1
    <3>2. CASE id \notin DOMAIN fields
      <4>1. old = [returnType |-> Node[n].type, errors |-> 0, count |-> 0, withErrors |-> 0,
                   latency |-> EmptyHistogram]
        BY <3>2 DEF NewField
      <4>. HIDE DEF old
      <4>2. /\ DOMAIN old = FieldNames /\ old.latency = EmptyHistogram
            /\ old.count = 0 /\ old.errors = 0 /\ old.withErrors = 0
        BY <4>1 DEF FieldNames
      <4>. QED
        BY <4>2, EmptyIsHistogram
    <3>. QED
      BY <3>1, <3>2
  <2>3. id \in DOMAIN fields => old = fields[id]
    OBVIOUS
  <2>. HIDE DEF old
  <2>4. /\ DOMAIN field = FieldNames
        /\ field.count = old.count + 1
        /\ field.errors = old.errors + Errors(v)
        /\ field.withErrors = old.withErrors + (IF Errors(v) > 0 THEN 1 ELSE 0)
        /\ field.latency = IncrementDuration(old.latency, Node[n].end - Node[n].start)
    BY <1>1, <2>2 DEF FieldNames
  <2>. HIDE DEF field
  <2>5. IsHistogram(field.latency) /\ SumOf(field.latency) = SumOf(old.latency) + 1
    BY <1>1, <2>2, <2>4, OneMore
  <2>6. /\ DOMAIN grown = DOMAIN fields \cup {id} /\ grown[id] = field
        /\ \A i \in DOMAIN fields : i # id => grown[i] = fields[i]
    OBVIOUS
  <2>. HIDE DEF grown
  <2>7. /\ DOMAIN stats = StatNames
        /\ \A name \in StatNames \ {"fields"} : stats[name] = acc.stats[name]
        /\ stats.fields = grown
    BY <1>2 DEF StatNames
  <2>. HIDE DEF stats, typeBytes, fieldBytes
  <2>8. after.stats = stats /\ after.bytes = acc.bytes + typeBytes + fieldBytes
    BY <2>1
  <2>9. FieldsFit(grown, all \cup {v})
    <3>1. id = FieldOf(v)
      BY <1>1
    <3>. HIDE DEF id, fields
    <3>2. FieldsFit(fields, all)
      BY DEF fields
    <3>3. /\ FieldOf(v) \in DOMAIN fields => old = fields[FieldOf(v)]
          /\ FieldOf(v) \notin DOMAIN fields =>
               old.count = 0 /\ old.errors = 0 /\ old.withErrors = 0 /\ SumOf(old.latency) = 0
      BY <2>2, <2>3, <3>1
    <3>4. /\ DOMAIN grown = DOMAIN fields \cup {FieldOf(v)}
          /\ \A i \in DOMAIN fields : i # FieldOf(v) => grown[i] = fields[i]
      BY <2>6, <3>1
    <3>5. /\ grown[FieldOf(v)].count = old.count + 1
          /\ grown[FieldOf(v)].errors = old.errors + Errors(v)
          /\ grown[FieldOf(v)].withErrors = old.withErrors + (IF Errors(v) > 0 THEN 1 ELSE 0)
          /\ SumOf(grown[FieldOf(v)].latency) = SumOf(old.latency) + 1
      BY <2>4, <2>5, <2>6, <3>1
    <3>6. Errors(v) \in Nat
      BY <1>1
    <3>. QED
      BY <1>7, <3>2, <3>3, <3>4, <3>5, <3>6, FieldsStep
  <2>10. \A i \in DOMAIN grown : DOMAIN grown[i] = FieldNames /\ IsHistogram(grown[i].latency)
    BY <1>2, <2>4, <2>5, <2>6
  <2>11. /\ IsFiniteSet(DOMAIN grown)
         /\ Cardinality(DOMAIN grown)
              = Cardinality(DOMAIN fields) + (IF id \notin DOMAIN fields THEN 1 ELSE 0)
    <3>. HIDE DEF id
    <3>. QED
      BY <1>2, <1>3, <2>6, FS_AddElement
  <2>12. Types(stats) = Types(acc.stats) \cup {id[1]} /\ (newType <=> id[1] \notin Types(acc.stats))
    BY <2>6, <2>7 DEF Types
  <2>13. /\ IsFiniteSet(Types(stats))
         /\ Cardinality(Types(stats))
              = Cardinality(Types(acc.stats)) + (IF newType THEN 1 ELSE 0)
    <3>. DEFINE type == id[1]
    <3>. HIDE DEF newType, id, type
    <3>1. Types(stats) = Types(acc.stats) \cup {type} /\ (newType <=> type \notin Types(acc.stats))
      BY <2>12 DEF type
    <3>. QED
      BY <1>4, <3>1, FS_AddElement
  <2>14. \A k, b \in Nat : (k + 1) - k = 1 /\ (k + 0) - k = 0 /\ 1 * b = b /\ 0 * b = 0
    OBVIOUS
  <2>15. (Cardinality(DOMAIN grown) - Cardinality(DOMAIN fields)) * (2 * StringBytes + 10)
           = fieldBytes
    BY <1>3, <1>5, <2>11, <2>14 DEF fieldBytes
  <2>16. (Cardinality(Types(stats)) - Cardinality(Types(acc.stats))) * StringBytes = typeBytes
    <3>. HIDE DEF newType
    <3>. QED
      BY <1>4, <1>5, <2>13, <2>14 DEF typeBytes
  <2>. QED
    BY <2>6, <2>7, <2>8, <2>9, <2>10, <2>11, <2>12, <2>13, <2>15, <2>16 DEF FieldAdded
<1>. QED
  BY <1>6, <1>7

\* What the statistics of a client add to the size of a report.
Weight(s) ==
  Cardinality(Children(s)) * (StringBytes + 4) + Cardinality(Types(s)) * StringBytes
  + Cardinality(DOMAIN s.fields) * (2 * StringBytes + 10)

\* There are finitely many pieces of statistics.
LEMMA Sizes ==
  ASSUME NEW s, IsStats(s)
  PROVE  /\ IsFiniteSet(Children(s)) /\ IsFiniteSet(Types(s)) /\ IsFiniteSet(DOMAIN s.fields)
         /\ Cardinality(Children(s)) \in Nat /\ Cardinality(Types(s)) \in Nat
         /\ Cardinality(DOMAIN s.fields) \in Nat /\ Weight(s) \in Int
<1>1. IsFiniteSet(Children(s)) /\ IsFiniteSet(Types(s)) /\ IsFiniteSet(DOMAIN s.fields)
  BY FS_RemoveElement DEF IsStats, Children
<1>2. /\ Cardinality(Children(s)) \in Nat /\ Cardinality(Types(s)) \in Nat
      /\ Cardinality(DOMAIN s.fields) \in Nat
  BY <1>1, FS_CardinalityType
<1>3. StringBytes \in Nat
  BY StatsAssumption DEF StatsAssumption
<1>4. \A k, b \in Nat : k * b \in Int
  OBVIOUS
<1>5. StringBytes + 4 \in Nat /\ 2 * StringBytes + 10 \in Nat
  BY <1>3
<1>6. /\ Cardinality(Children(s)) * (StringBytes + 4) \in Int
      /\ Cardinality(Types(s)) * StringBytes \in Int
      /\ Cardinality(DOMAIN s.fields) * (2 * StringBytes + 10) \in Int
  BY <1>2, <1>3, <1>4, <1>5
<1>7. Weight(s) \in Int
  BY <1>6 DEF Weight
<1>. QED
  BY <1>1, <1>2, <1>7

\* What one visit, or a walk, does to statistics that fit other visits.
Added(acc, after, all) ==
  /\ IsStats(after.stats) /\ after.bytes \in Int
  /\ \A name \in StatNames \ {"paths", "fields"} : after.stats[name] = acc.stats[name]
  /\ PathsFit(after.stats.paths, all) /\ FieldsFit(after.stats.fields, all)
  /\ Children(acc.stats) \subseteq Children(after.stats)
  /\ Types(acc.stats) \subseteq Types(after.stats)
  /\ DOMAIN acc.stats.fields \subseteq DOMAIN after.stats.fields
  /\ after.bytes - Weight(after.stats) = acc.bytes - Weight(acc.stats)

\* A visit: its errors, then its field.
LEMMA AddNodeStep ==
  ASSUME NEW acc, IsStats(acc.stats), acc.bytes \in Int,
         NEW all, IsFiniteSet(all), IsFiniteSet(ErrorsOf(all)),
         PathsFit(acc.stats.paths, all), FieldsFit(acc.stats.fields, all),
         NEW v, v \notin all, IsVisit(VisitOf(v)),
         NEW after, after = AddNode(acc, VisitOf(v))
  PROVE  Added(acc, after, all \cup {v})
<1>. DEFINE mid == AddErrors(acc, VisitOf(v))
<1>1. after = AddField(mid, VisitOf(v))
  BY DEF AddNode
<1>2. /\ DOMAIN mid.stats = StatNames
      /\ \A name \in StatNames \ {"paths"} : mid.stats[name] = acc.stats[name]
      /\ PathsFit(mid.stats.paths, all \cup {v})
      /\ IsFiniteSet(DOMAIN mid.stats.paths) /\ << >> \in DOMAIN mid.stats.paths
      /\ Children(acc.stats) \subseteq Children(mid.stats)
      /\ mid.bytes = acc.bytes + (Cardinality(Children(mid.stats))
                                  - Cardinality(Children(acc.stats))) * (StringBytes + 4)
  BY AddErrorsStep
<1>. HIDE DEF mid
<1>3. mid.stats.fields = acc.stats.fields /\ Types(mid.stats) = Types(acc.stats)
  BY <1>2 DEF StatNames, Types
<1>4. IsStats(mid.stats)
  BY <1>2, <1>3 DEF IsStats
<1>5. StringBytes \in Nat
  BY StatsAssumption DEF StatsAssumption
<1>6. /\ Cardinality(Children(acc.stats)) \in Nat /\ Cardinality(Children(mid.stats)) \in Nat
      /\ Cardinality(Types(acc.stats)) \in Nat /\ IsFiniteSet(Types(mid.stats))
      /\ Cardinality(DOMAIN acc.stats.fields) \in Nat
  BY <1>4, Sizes
<1>7. \A i, j, b \in Int : (i - j) * b \in Int /\ (i - j) * b = i * b - j * b
                           /\ i * b \in Int /\ j * b \in Int
  OBVIOUS
<1>8. mid.bytes \in Int
  BY <1>2, <1>5, <1>6, <1>7
<1>9. FieldAdded(mid, after, all, v)
  <2>1. FieldsFit(mid.stats.fields, all)
    BY <1>3
  <2>. QED
    BY <1>1, <1>4, <1>8, <2>1, AddFieldStep
<1>10. after.stats.paths = mid.stats.paths /\ Children(after.stats) = Children(mid.stats)
  BY <1>9 DEF FieldAdded, StatNames, Children
<1>11. IsStats(after.stats)
  BY <1>2, <1>9, <1>10 DEF FieldAdded, IsStats
<1>12. /\ Cardinality(Types(after.stats)) \in Nat
       /\ Cardinality(DOMAIN after.stats.fields) \in Nat
  BY <1>11, Sizes
<1>13. /\ after.bytes \in Int
       /\ after.bytes - Weight(after.stats) = acc.bytes - Weight(acc.stats)
  <2>. DEFINE ca == Cardinality(Children(acc.stats))
              cm == Cardinality(Children(mid.stats))
              ta == Cardinality(Types(acc.stats))
              tn == Cardinality(Types(after.stats))
              fa == Cardinality(DOMAIN acc.stats.fields)
              fn == Cardinality(DOMAIN after.stats.fields)
              four == StringBytes + 4
              ten == 2 * StringBytes + 10
  <2>1. /\ mid.bytes = acc.bytes + (cm - ca) * four
        /\ after.bytes = mid.bytes + (tn - ta) * StringBytes + (fn - fa) * ten
    BY <1>2, <1>3, <1>9 DEF FieldAdded
  <2>2. /\ Weight(acc.stats) = ca * four + ta * StringBytes + fa * ten
        /\ Weight(after.stats) = cm * four + tn * StringBytes + fn * ten
    BY <1>10 DEF Weight
  <2>3. /\ ca \in Int /\ cm \in Int /\ ta \in Int /\ tn \in Int /\ fa \in Int /\ fn \in Int
        /\ four \in Int /\ ten \in Int /\ StringBytes \in Int
    BY <1>5, <1>6, <1>12
  <2>. HIDE DEF ca, cm, ta, tn, fa, fn, four, ten
  <2>4. /\ (cm - ca) * four = cm * four - ca * four
        /\ (tn - ta) * StringBytes = tn * StringBytes - ta * StringBytes
        /\ (fn - fa) * ten = fn * ten - fa * ten
        /\ cm * four \in Int /\ ca * four \in Int /\ tn * StringBytes \in Int
        /\ ta * StringBytes \in Int /\ fn * ten \in Int /\ fa * ten \in Int
    BY <1>7, <2>3
  <2>5. \A b, m, a, p1, p2, p3, q1, q2, q3 \in Int :
          m = b + (p1 - q1) /\ a = m + (p2 - q2) + (p3 - q3) =>
            a - (p1 + p2 + p3) = b - (q1 + q2 + q3)
    OBVIOUS
  <2>6. after.bytes \in Int
    BY <1>8, <2>1, <2>4
  <2>. QED
    BY <1>8, <2>1, <2>2, <2>4, <2>5, <2>6
<1>14. \A name \in StatNames \ {"paths", "fields"} : after.stats[name] = acc.stats[name]
  BY <1>2, <1>9 DEF FieldAdded
<1>. QED
  BY <1>2, <1>3, <1>9, <1>10, <1>11, <1>13, <1>14 DEF FieldAdded, Added

\* The visits of a walk.
IsWalk(visits) ==
  /\ Len(visits) \in Nat /\ DOMAIN visits = 1 .. Len(visits)
  /\ \A i \in DOMAIN visits : IsVisit(visits[i])

\* These visits, and the first i of a trace.
AndFirst(all, t, i) == all \cup {<<t, j>> : j \in 1 .. i}

\* The visits so far, and one that is not among them.
LEMMA AndFirstGrows ==
  ASSUME NEW all, NEW t, \A j : <<t, j>> \notin all, NEW i \in Nat
  PROVE  /\ AndFirst(all, t, 0) = all
         /\ AndFirst(all, t, i + 1) = AndFirst(all, t, i) \cup {<<t, i + 1>>}
         /\ <<t, i + 1>> \notin AndFirst(all, t, i)
<1>1. 1 .. 0 = {} /\ 1 .. i + 1 = (1 .. i) \cup {i + 1} /\ i + 1 \notin 1 .. i
  OBVIOUS
<1>. QED
  BY <1>1 DEF AndFirst

\* A walk over the visits of a trace adds them all.
LEMMA WalkStep ==
  ASSUME NEW acc, IsStats(acc.stats), acc.bytes \in Int,
         NEW all, IsFiniteSet(all), IsFiniteSet(ErrorsOf(all)),
         PathsFit(acc.stats.paths, all), FieldsFit(acc.stats.fields, all),
         NEW t, IsWalk(Visits[t]), \A j : <<t, j>> \notin all
  PROVE  LET n == Len(Visits[t]) IN
         /\ IsFiniteSet(AndFirst(all, t, n)) /\ IsFiniteSet(ErrorsOf(AndFirst(all, t, n)))
         /\ Added(acc, Walked(acc, Visits[t])[n], AndFirst(all, t, n))
<1>. DEFINE n == Len(Visits[t])
            walked == Walked(acc, Visits[t])
            T == {i \in 0 .. n :
                    /\ IsFiniteSet(AndFirst(all, t, i))
                    /\ IsFiniteSet(ErrorsOf(AndFirst(all, t, i)))
                    /\ Added(acc, walked[i], AndFirst(all, t, i))}
<1>1. n \in Nat /\ DOMAIN Visits[t] = 1 .. n /\ \A i \in 1 .. n : IsVisit(Visits[t][i])
  BY DEF IsWalk
<1>2. /\ walked[0] = acc
      /\ \A i \in 0 .. n - 1 : walked[i + 1] = AddNode(walked[i], Visits[t][i + 1])
  BY <1>1, WalkedStep
<1>. HIDE DEF walked, n
<1>3. 0 \in T
  <2>1. AndFirst(all, t, 0) = all
    BY AndFirstGrows
  <2>2. Added(acc, acc, all)
    <3>1. Weight(acc.stats) \in Int
      BY Sizes
    <3>. QED
      BY <3>1 DEF Added
  <2>3. /\ IsFiniteSet(AndFirst(all, t, 0))
        /\ IsFiniteSet(ErrorsOf(AndFirst(all, t, 0)))
        /\ Added(acc, walked[0], AndFirst(all, t, 0))
    BY <1>2, <2>1, <2>2
  <2>4. 0 \in 0 .. n
    BY <1>1
  <2>. QED
    BY <2>3, <2>4
<1>4. ASSUME NEW i \in 0 .. n - 1, i \in T PROVE i + 1 \in T
  <2>. DEFINE here == AndFirst(all, t, i)
              v == <<t, i + 1>>
              before == walked[i]
              after == walked[i + 1]
  <2>1. i \in Nat /\ i + 1 \in 0 .. n /\ i + 1 \in 1 .. n
    BY <1>1
  <2>2. /\ AndFirst(all, t, i + 1) = here \cup {v}
        /\ v \notin here
    <3>. HIDE DEF T
    <3>1. ASSUME NEW j \in Nat
          PROVE  /\ AndFirst(all, t, j + 1) = AndFirst(all, t, j) \cup {<<t, j + 1>>}
                 /\ <<t, j + 1>> \notin AndFirst(all, t, j)
      BY AndFirstGrows
    <3>. QED
      BY <2>1, <3>1
  <2>3. VisitOf(v) = Visits[t][i + 1] /\ IsVisit(VisitOf(v))
    BY <1>1, <2>1 DEF VisitOf
  <2>4. IsFiniteSet(here) /\ IsFiniteSet(ErrorsOf(here)) /\ Added(acc, before, here)
    BY <1>4
  <2>5. after = AddNode(before, VisitOf(v))
    BY <1>2, <2>3
  <2>6. /\ IsStats(before.stats) /\ before.bytes \in Int
        /\ PathsFit(before.stats.paths, here) /\ FieldsFit(before.stats.fields, here)
    BY <2>4 DEF Added
  <2>. HIDE DEF here, v, before, after
  <2>7. Added(before, after, here \cup {v})
    BY <2>2, <2>3, <2>4, <2>5, <2>6, AddNodeStep
  <2>8. Added(acc, after, here \cup {v})
    BY <2>4, <2>7 DEF Added
  <2>9. IsFiniteSet(here \cup {v})
    BY <2>4, FS_AddElement
  <2>10. IsFiniteSet(ErrorsOf(here \cup {v}))
    <3>1. Errors(v) \in Nat
      BY <2>3, NodeFacts
    <3>. QED
      BY <2>2, <2>4, <3>1, ErrorsOfOneMore
  <2>11. AndFirst(all, t, i + 1) = here \cup {v} /\ walked[i + 1] = after
    BY <2>2 DEF after
  <2>. QED
    BY <2>1, <2>8, <2>9, <2>10, <2>11
<1>5. n \in T
  <2>. HIDE DEF T
  <2>. QED
    BY <1>1, <1>3, <1>4, UpTo
<1>. QED
  BY <1>5 DEF walked, n

\* The walk over every trace.
LEMMA VisitsAreWalks == \A t \in Recorded : IsWalk(Visits[t])
<1>. SUFFICES ASSUME NEW t \in Recorded PROVE IsWalk(Visits[t])
  OBVIOUS
<1>1. Visits[t] \in Seq(Visit)
  BY VisitsType
<1>. DEFINE visits == Visits[t]
<1>2. visits \in Seq(Visit)
  BY <1>1
<1>. HIDE DEF visits
<1>3. /\ Len(visits) \in Nat /\ DOMAIN visits = 1 .. Len(visits)
      /\ \A i \in DOMAIN visits : visits[i] \in Visit
  BY <1>2
<1>. QED
  BY <1>3 DEF IsWalk, IsVisit, Visit, visits

-----------------------------------------------------------------------------
(* The statistics of one more trace.                                       *)

\* Of these traces, those in a bucket that missed the cache, or hit it.
Missed(C, b) == {t \in C : ~Trace[t].cacheHit /\ DurationToBucket(Trace[t].duration) = b}
Hit(C, b) == {t \in C : Trace[t].cacheHit /\ DurationToBucket(Trace[t].duration) = b}

\* The counters and histograms of these traces.
CountsFit(s, C) ==
  /\ IsHistogram(s.latency) /\ IsHistogram(s.cacheLatency)
  /\ IsHistogram(s.publicTtl) /\ IsHistogram(s.privateTtl)
  /\ s.requests = Cardinality(C)
  /\ s.cacheHits \in Nat
  /\ SumOf(s.latency) + s.cacheHits = s.requests
  /\ SumOf(s.cacheLatency) = s.cacheHits
  /\ SumOf(s.publicTtl) + SumOf(s.privateTtl) <= SumOf(s.latency)
  /\ s.withErrors = Cardinality({t \in C : HasErrors[t]})
  /\ \A b \in 0 .. BucketCount - 1 : /\ Has(s.latency, b) = Cardinality(Missed(C, b))
                                     /\ Has(s.cacheLatency, b) = Cardinality(Hit(C, b))

\* A count of those with a property, when there is one more.
LEMMA OneMoreOf ==
  ASSUME NEW C, IsFiniteSet(C), NEW t, t \notin C, NEW D \in SUBSET C, NEW E,
         NEW holds \in BOOLEAN, E = D \cup (IF holds THEN {t} ELSE {})
  PROVE  Cardinality(D) \in Nat /\ Cardinality(E) = Cardinality(D) + (IF holds THEN 1 ELSE 0)
<1>1. IsFiniteSet(D) /\ Cardinality(D) \in Nat
  BY FS_Subset, FS_CardinalityType
<1>2. CASE holds
  BY <1>1, <1>2, FS_AddElement
<1>3. CASE ~holds
  BY <1>1, <1>3
<1>. QED
  BY <1>1, <1>2, <1>3

\* A histogram has a number of entries.
LEMMA SumIsNat ==
  ASSUME NEW h, IsHistogram(h) PROVE SumOf(h) \in Nat
  BY FS_CardinalityType DEF IsHistogram, SumOf

\* What a duration does to a histogram when it is counted there.
MaybeMore(h, new, log, holds) ==
  /\ IsHistogram(new) /\ SumOf(h) \in Nat /\ SumOf(new) \in Nat
  /\ SumOf(new) = SumOf(h) + (IF holds THEN 1 ELSE 0)
  /\ \A b \in 0 .. BucketCount - 1 :
       Has(new, b) = Has(h, b) + (IF holds /\ b = DurationToBucket(log) THEN 1 ELSE 0)

\* A histogram counts a duration, or is left alone.
LEMMA IncrementIf ==
  ASSUME NEW h, IsHistogram(h), NEW log \in Int, NEW holds \in BOOLEAN,
         NEW new, new = IF holds THEN IncrementDuration(h, log) ELSE h
  PROVE  MaybeMore(h, new, log, holds)
<1>1. CASE holds
  BY <1>1, OneMore DEF MaybeMore
<1>2. CASE ~holds
  <2>1. \A b \in 0 .. BucketCount - 1 : Has(h, b) \in Nat
    BY StatsAssumption, HasIsNat DEF StatsAssumption, IsHistogram
  <2>2. SumOf(h) \in Nat
    BY SumIsNat
  <2>. QED
    BY <1>2, <2>1, <2>2 DEF MaybeMore
<1>. QED
  BY <1>1, <1>2

\* The counters and histograms of one more trace.
LEMMA CountRequestStep ==
  ASSUME NEW s, IsStats(s), NEW C, IsFiniteSet(C), CountsFit(s, C),
         NEW t \in Recorded, t \notin C,
         NEW after, after = CountRequest(s, t)
  PROVE  /\ DOMAIN after = StatNames /\ after.paths = s.paths /\ after.fields = s.fields
         /\ CountsFit(after, C \cup {t})
<1>. DEFINE trace == Trace[t]
            Ttl(h, scope) == IF ~trace.cacheHit /\ trace.scope = scope
                             THEN IncrementDuration(h, trace.maxAge) ELSE h
            all == C \cup {t}
<1>1. trace.cacheHit \in BOOLEAN /\ trace.duration \in Int /\ trace.maxAge \in Int
  BY StatsAssumption DEF StatsAssumption
<1>2. DOMAIN s = StatNames
  BY DEF IsStats
<1>3. /\ DOMAIN after = StatNames /\ after.paths = s.paths /\ after.fields = s.fields
      /\ after.requests = s.requests + 1
      /\ after.cacheHits = Plus(s.cacheHits, trace.cacheHit)
      /\ after.withErrors = Plus(s.withErrors, HasErrors[t])
      /\ after.latency = IF trace.cacheHit THEN s.latency
                         ELSE IncrementDuration(s.latency, trace.duration)
      /\ after.cacheLatency = IF trace.cacheHit
                              THEN IncrementDuration(s.cacheLatency, trace.duration)
                              ELSE s.cacheLatency
      /\ after.publicTtl = Ttl(s.publicTtl, "public")
      /\ after.privateTtl = Ttl(s.privateTtl, "private")
  BY <1>2 DEF CountRequest, StatNames
<1>. HIDE DEF trace
<1>4. /\ IsHistogram(s.latency) /\ IsHistogram(s.cacheLatency)
      /\ IsHistogram(s.publicTtl) /\ IsHistogram(s.privateTtl)
      /\ s.requests = Cardinality(C) /\ s.cacheHits \in Nat
      /\ SumOf(s.latency) + s.cacheHits = s.requests /\ SumOf(s.cacheLatency) = s.cacheHits
      /\ SumOf(s.publicTtl) + SumOf(s.privateTtl) <= SumOf(s.latency)
      /\ s.withErrors = Cardinality({u \in C : HasErrors[u]})
  BY DEF CountsFit
<1>5. MaybeMore(s.latency, after.latency, trace.duration, ~trace.cacheHit)
  <2>1. after.latency = IF ~trace.cacheHit THEN IncrementDuration(s.latency, trace.duration)
                        ELSE s.latency
    BY <1>3
  <2>2. (~trace.cacheHit) \in BOOLEAN
    OBVIOUS
  <2>. QED
    BY <1>1, <1>4, <2>1, <2>2, IncrementIf
<1>6. MaybeMore(s.cacheLatency, after.cacheLatency, trace.duration, trace.cacheHit)
  BY <1>1, <1>3, <1>4, IncrementIf
<1>7. ASSUME NEW h, IsHistogram(h), NEW scope, NEW new, new = Ttl(h, scope)
      PROVE  MaybeMore(h, new, trace.maxAge, ~trace.cacheHit /\ trace.scope = scope)
  <2>. DEFINE holds == ~trace.cacheHit /\ trace.scope = scope
  <2>1. holds \in BOOLEAN
    OBVIOUS
  <2>2. new = IF holds THEN IncrementDuration(h, trace.maxAge) ELSE h
    BY <1>7
  <2>. HIDE DEF holds
  <2>3. MaybeMore(h, new, trace.maxAge, holds)
    BY <1>1, <1>7, <2>1, <2>2, IncrementIf
  <2>. QED
    BY <2>3 DEF holds
<1>. HIDE DEF Ttl
<1>8. MaybeMore(s.publicTtl, after.publicTtl, trace.maxAge,
                ~trace.cacheHit /\ trace.scope = "public")
  BY <1>3, <1>4, <1>7
<1>9. MaybeMore(s.privateTtl, after.privateTtl, trace.maxAge,
                ~trace.cacheHit /\ trace.scope = "private")
  BY <1>3, <1>4, <1>7
<1>10. after.requests = Cardinality(all) /\ s.requests \in Nat
  BY <1>3, <1>4, FS_AddElement, FS_CardinalityType
<1>11. /\ after.cacheHits \in Nat
       /\ SumOf(after.latency) + after.cacheHits = after.requests
       /\ SumOf(after.cacheLatency) = after.cacheHits
       /\ SumOf(after.publicTtl) + SumOf(after.privateTtl) <= SumOf(after.latency)
  <2>1. after.cacheHits = s.cacheHits + (IF trace.cacheHit THEN 1 ELSE 0)
    BY <1>3 DEF Plus
  <2>. QED
    BY <1>1, <1>3, <1>4, <1>5, <1>6, <1>8, <1>9, <1>10, <2>1 DEF MaybeMore
<1>12. after.withErrors = Cardinality({u \in all : HasErrors[u]})
  <2>. DEFINE D == {u \in C : HasErrors[u]}
              E == {u \in all : HasErrors[u]}
              holds == HasErrors[t]
  <2>1. holds \in BOOLEAN
    BY DEF HasErrors
  <2>2. E = D \cup (IF holds THEN {t} ELSE {}) /\ D \in SUBSET C
    OBVIOUS
  <2>3. after.withErrors = Cardinality(D) + (IF holds THEN 1 ELSE 0)
    BY <1>3, <1>4 DEF Plus
  <2>. HIDE DEF D, E, holds
  <2>4. Cardinality(E) = Cardinality(D) + (IF holds THEN 1 ELSE 0)
    BY <2>1, <2>2, OneMoreOf
  <2>. QED
    BY <2>3, <2>4 DEF E
<1>13. ASSUME NEW b \in 0 .. BucketCount - 1
       PROVE  /\ Has(after.latency, b) = Cardinality(Missed(all, b))
              /\ Has(after.cacheLatency, b) = Cardinality(Hit(all, b))
  <2>1. /\ Has(s.latency, b) = Cardinality(Missed(C, b))
        /\ Has(s.cacheLatency, b) = Cardinality(Hit(C, b))
    BY DEF CountsFit
  <2>. DEFINE missed == ~trace.cacheHit /\ b = DurationToBucket(trace.duration)
              hit == trace.cacheHit /\ b = DurationToBucket(trace.duration)
  <2>2. missed \in BOOLEAN /\ hit \in BOOLEAN
    BY <1>1
  <2>3. /\ Missed(C, b) \in SUBSET C /\ Hit(C, b) \in SUBSET C
        /\ Missed(all, b) = Missed(C, b) \cup (IF missed THEN {t} ELSE {})
        /\ Hit(all, b) = Hit(C, b) \cup (IF hit THEN {t} ELSE {})
    BY DEF Missed, Hit, trace
  <2>. HIDE DEF missed, hit, all
  <2>4. Cardinality(Missed(all, b)) = Cardinality(Missed(C, b)) + (IF missed THEN 1 ELSE 0)
    BY <2>2, <2>3, OneMoreOf
  <2>5. Cardinality(Hit(all, b)) = Cardinality(Hit(C, b)) + (IF hit THEN 1 ELSE 0)
    BY <2>2, <2>3, OneMoreOf
  <2>. QED
    BY <1>5, <1>6, <2>1, <2>4, <2>5 DEF missed, hit, MaybeMore
<1>14. CountsFit(after, all)
  <2>. HIDE DEF all
  <2>. QED
    BY <1>5, <1>6, <1>8, <1>9, <1>10, <1>11, <1>12, <1>13 DEF CountsFit, MaybeMore
<1>. QED
  BY <1>3, <1>14

\* The statistics are those of these traces, each counted once.
FitsTraces(s, C) ==
  /\ IsStats(s) /\ CountsFit(s, C)
  /\ PathsFit(s.paths, VisitsOf(C)) /\ FieldsFit(s.fields, VisitsOf(C))
  /\ IsFiniteSet(C) /\ IsFiniteSet(VisitsOf(C)) /\ IsFiniteSet(ErrorsOf(VisitsOf(C)))

\* New statistics are those of no trace, and have no size of their own.
LEMMA NewStats == FitsTraces(EmptyStats, {}) /\ Weight(EmptyStats) = 0
<1>. DEFINE s == EmptyStats
<1>1. /\ DOMAIN s = StatNames
      /\ s.requests = 0 /\ s.cacheHits = 0 /\ s.withErrors = 0
      /\ s.latency = EmptyHistogram /\ s.cacheLatency = EmptyHistogram
      /\ s.publicTtl = EmptyHistogram /\ s.privateTtl = EmptyHistogram
      /\ s.paths = [p \in {<< >>} |-> NoErrors] /\ s.fields = << >>
  BY DEF EmptyStats, StatNames
<1>. HIDE DEF s
<1>2. DOMAIN s.paths = {<< >>} /\ s.paths[<< >>] = NoErrors
  BY <1>1
<1>3. DOMAIN s.fields = {} /\ Types(s) = {} /\ Children(s) = {}
  BY <1>1, <1>2 DEF Types, Children
<1>4. IsFiniteSet({}) /\ Cardinality({}) = 0 /\ IsFiniteSet({<< >>})
  BY FS_EmptySet, FS_Singleton
<1>5. IsStats(s)
  BY <1>1, <1>2, <1>3, <1>4 DEF IsStats
<1>6. VisitsOf({}) = {} /\ ErrorsOf({}) = {}
  BY DEF VisitsOf, ErrorsOf
<1>7. PathsFit(s.paths, {})
  <2>1. {v \in {} : Errors(v) > 0} = {}
    OBVIOUS
  <2>. QED
    BY <1>2, <1>4, <1>6, <2>1 DEF PathsFit, NoErrors
<1>8. FieldsFit(s.fields, {})
  BY <1>3 DEF FieldsFit
<1>9. CountsFit(s, {})
  <2>1. /\ {t \in {} : HasErrors[t]} = {}
        /\ \A b : Missed({}, b) = {} /\ Hit({}, b) = {}
    BY DEF Missed, Hit
  <2>2. \A b \in 0 .. BucketCount - 1 : Has(EmptyHistogram, b) = 0
    BY EmptyIsHistogram
  <2>3. /\ IsHistogram(s.latency) /\ IsHistogram(s.cacheLatency)
        /\ IsHistogram(s.publicTtl) /\ IsHistogram(s.privateTtl)
        /\ SumOf(s.latency) = 0 /\ SumOf(s.cacheLatency) = 0
        /\ SumOf(s.publicTtl) = 0 /\ SumOf(s.privateTtl) = 0
    BY <1>1, EmptyIsHistogram
  <2>4. \A b \in 0 .. BucketCount - 1 : /\ Has(s.latency, b) = Cardinality(Missed({}, b))
                                        /\ Has(s.cacheLatency, b) = Cardinality(Hit({}, b))
    BY <1>1, <1>4, <2>1, <2>2
  <2>5. s.withErrors = Cardinality({t \in {} : HasErrors[t]}) /\ s.requests = Cardinality({})
    BY <1>1, <1>4, <2>1
  <2>6. 0 + 0 = 0 /\ 0 + 0 <= 0 /\ 0 \in Nat
    OBVIOUS
  <2>. QED
    BY <1>1, <2>3, <2>4, <2>5, <2>6 DEF CountsFit
<1>10. Weight(s) = 0
  <2>1. \A b \in Nat : 0 * b = 0
    OBVIOUS
  <2>2. StringBytes \in Nat /\ StringBytes + 4 \in Nat /\ 2 * StringBytes + 10 \in Nat
    BY StatsAssumption DEF StatsAssumption
  <2>. QED
    BY <1>3, <1>4, <2>1, <2>2 DEF Weight
<1>. QED
  BY <1>4, <1>5, <1>6, <1>7, <1>8, <1>9, <1>10 DEF FitsTraces, s

\* The visits of one more trace come after those of the others.
LEMMA VisitsOfOneMore ==
  ASSUME NEW C, NEW t, IsWalk(Visits[t])
  PROVE  /\ VisitsOf(C \cup {t}) = AndFirst(VisitsOf(C), t, Len(Visits[t]))
         /\ t \notin C => \A j : <<t, j>> \notin VisitsOf(C)
<1>. DEFINE Of(u) == {<<u, i>> : i \in DOMAIN Visits[u]}
<1>1. UNION {Of(u) : u \in C \cup {t}} = (UNION {Of(u) : u \in C}) \cup Of(t)
  <2>. HIDE DEF Of
  <2>. QED
    OBVIOUS
<1>2. Of(t) = {<<t, j>> : j \in 1 .. Len(Visits[t])}
  BY DEF IsWalk
<1>3. VisitsOf(C \cup {t}) = AndFirst(VisitsOf(C), t, Len(Visits[t]))
  BY <1>1, <1>2 DEF VisitsOf, AndFirst
<1>4. t \notin C => \A j : <<t, j>> \notin VisitsOf(C)
  BY DEF VisitsOf
<1>. QED
  BY <1>3, <1>4

\* What OurContextualizedStats.addTrace() makes of the statistics of other traces.
TraceAdded(s, b, after, C) ==
  /\ FitsTraces(after.stats, C) /\ after.bytes \in Int
  /\ Children(s) \subseteq Children(after.stats)
  /\ Types(s) \subseteq Types(after.stats)
  /\ DOMAIN s.fields \subseteq DOMAIN after.stats.fields
  /\ after.bytes - Weight(after.stats) = b - Weight(s)

\* OurContextualizedStats.addTrace(): the counters, then the walk.
LEMMA AddToStatsStep ==
  ASSUME NEW C, NEW s, FitsTraces(s, C), NEW b \in Int,
         NEW t \in Recorded, t \notin C, IsWalk(Visits[t])
  PROVE  TraceAdded(s, b, AddToStats([stats |-> s, bytes |-> b], t), C \cup {t})
<1>. DEFINE all == VisitsOf(C)
            now == VisitsOf(C \cup {t})
            n == Len(Visits[t])
            counted == CountRequest(s, t)
            acc == [stats |-> counted, bytes |-> b]
            after == Walked(acc, Visits[t])[n]
<1>1. AddToStats([stats |-> s, bytes |-> b], t) = after
  BY DEF AddToStats
<1>2. /\ IsStats(s) /\ CountsFit(s, C) /\ IsFiniteSet(C)
      /\ PathsFit(s.paths, all) /\ FieldsFit(s.fields, all)
      /\ IsFiniteSet(all) /\ IsFiniteSet(ErrorsOf(all))
  BY DEF FitsTraces
<1>3. /\ DOMAIN counted = StatNames /\ counted.paths = s.paths /\ counted.fields = s.fields
      /\ CountsFit(counted, C \cup {t})
  BY <1>2, CountRequestStep
<1>4. now = AndFirst(all, t, n) /\ \A j : <<t, j>> \notin all
  BY VisitsOfOneMore
<1>5. acc.stats = counted /\ acc.bytes = b
  OBVIOUS
<1>. HIDE DEF counted, acc, all, now, n
<1>6. IsStats(acc.stats) /\ Weight(acc.stats) = Weight(s)
      /\ Children(acc.stats) = Children(s) /\ Types(acc.stats) = Types(s)
  BY <1>2, <1>3, <1>5 DEF IsStats, Weight, Children, Types
<1>7. /\ PathsFit(acc.stats.paths, all) /\ FieldsFit(acc.stats.fields, all)
      /\ acc.bytes \in Int
  BY <1>2, <1>3, <1>5
<1>8. IsFiniteSet(now) /\ IsFiniteSet(ErrorsOf(now)) /\ Added(acc, after, now)
  BY <1>2, <1>4, <1>6, <1>7, WalkStep DEF n
<1>. HIDE DEF after
<1>9. CountsFit(after.stats, C \cup {t})
  BY <1>3, <1>5, <1>8 DEF Added, CountsFit, StatNames
<1>10. IsFiniteSet(C \cup {t})
  BY <1>2, FS_AddElement
<1>11. FitsTraces(after.stats, C \cup {t})
  BY <1>8, <1>9, <1>10 DEF FitsTraces, Added, now
<1>. QED
  BY <1>1, <1>3, <1>5, <1>6, <1>8, <1>11 DEF TraceAdded, Added

-----------------------------------------------------------------------------
(* The content of a report.                                                *)

\* What there is under a key, and for a client of it, before another trace is added.
EntryAt(key) == IF key \in DOMAIN report THEN report[key] ELSE EmptyTracesAndStats
StatsAt(key, client) ==
  IF client \in DOMAIN EntryAt(key).stats THEN EntryAt(key).stats[client] ELSE EmptyStats

\* The statistics under every key are those of the traces counted there.
ContentInv ==
  /\ IsFiniteSet(DOMAIN report) /\ bytes \in Int
  /\ \A key \in DOMAIN report :
       /\ IsFiniteSet(DOMAIN report[key].stats)
       /\ report[key].contributing \in Seq(Recorded)
       /\ \A client \in DOMAIN report[key].stats :
            FitsTraces(report[key].stats[client], Counted(key, client))

\* What decides how a trace is added, and what its key and client cost.
AsTrace(t) == supported /\ Kind(t) \notin seen
KeyBytes(t) == IF Trace[t].key \in DOMAIN report THEN 0 ELSE StringBytes
ClientBytes(t) ==
  IF Trace[t].client \in DOMAIN EntryAt(Trace[t].key).stats THEN 0 ELSE 20 + 3 * StringBytes

\* What addTrace() does to the report, in either way.
AddedAsTrace(t) ==
  LET key == Trace[t].key IN
  /\ addedAs' = [addedAs EXCEPT ![t] = "trace"]
  /\ report'[key].trace = Append(EntryAt(key).trace, t)
  /\ report'[key].stats = EntryAt(key).stats
  /\ report'[key].contributing = EntryAt(key).contributing
  /\ bytes' = bytes + KeyBytes(t) + TraceBytes

\* The same for one that is counted.
AddedToStats(t) ==
  LET key == Trace[t].key
      client == Trace[t].client
      stats == EntryAt(key).stats
      now == report'[key].stats
      counted == AddToStats([stats |-> StatsAt(key, client),
                             bytes |-> bytes + KeyBytes(t) + ClientBytes(t)], t)
  IN  /\ addedAs' = [addedAs EXCEPT ![t] = "stats"]
      /\ report'[key].trace = EntryAt(key).trace
      /\ DOMAIN now = DOMAIN stats \cup {client}
      /\ now[client] = counted.stats
      /\ \A c \in DOMAIN stats : c # client => now[c] = stats[c]
      /\ report'[key].contributing = IF include THEN Append(EntryAt(key).contributing, t)
                                     ELSE EntryAt(key).contributing
      /\ bytes' = counted.bytes + (IF include THEN TraceBytes ELSE 0)

\* What there is before another trace is added fits the traces so far, though it
\* may be nothing.
LEMMA EntryAtHas ==
  ASSUME StatsInv, ContentInv, NEW key
  PROVE  /\ DOMAIN EntryAt(key) = {"trace", "stats", "contributing"}
         /\ EntryAt(key).trace \in Seq(Recorded) /\ EntryAt(key).contributing \in Seq(Recorded)
         /\ IsFiniteSet(DOMAIN EntryAt(key).stats)
         /\ key \notin DOMAIN report => /\ EntryAt(key).trace = << >>
                                        /\ EntryAt(key).contributing = << >>
                                        /\ DOMAIN EntryAt(key).stats = {}
         /\ \A client : FitsTraces(StatsAt(key, client), Counted(key, client))
<1>1. CASE key \in DOMAIN report
  <2>1. EntryAt(key) = report[key]
    BY <1>1 DEF EntryAt
  <2>2. ASSUME NEW client PROVE FitsTraces(StatsAt(key, client), Counted(key, client))
    <3>1. CASE client \in DOMAIN report[key].stats
      BY <1>1, <2>1, <3>1 DEF ContentInv, StatsAt
    <3>2. CASE client \notin DOMAIN report[key].stats
      <4>1. Counted(key, client) = {}
        BY <1>1, <3>2 DEF Counted, StatsInv, TracesAreFiled
      <4>. QED
        BY <2>1, <3>2, <4>1, NewStats DEF StatsAt
    <3>. QED
      BY <3>1, <3>2
  <2>. QED
    BY <1>1, <2>1, <2>2 DEF StatsInv, EntryInv, ContentInv
<1>2. CASE key \notin DOMAIN report
  <2>1. EntryAt(key) = [trace |-> << >>, stats |-> << >>, contributing |-> << >>]
    BY <1>2 DEF EntryAt, EmptyTracesAndStats
  <2>2. /\ DOMAIN EntryAt(key) = {"trace", "stats", "contributing"}
        /\ EntryAt(key).trace = << >> /\ EntryAt(key).contributing = << >>
        /\ EntryAt(key).stats = << >> /\ DOMAIN EntryAt(key).stats = {}
    BY <2>1
  <2>3. ASSUME NEW client PROVE FitsTraces(StatsAt(key, client), Counted(key, client))
    <3>1. Counted(key, client) = {}
      BY <1>2 DEF Counted, StatsInv, TracesAreFiled
    <3>2. StatsAt(key, client) = EmptyStats
      BY <2>2 DEF StatsAt
    <3>. QED
      BY <3>1, <3>2, NewStats
  <2>. QED
    BY <2>2, <2>3, FS_EmptySet
<1>. QED
  BY <1>1, <1>2

\* A trace that is added changes what is under its key, in one way or the other.
LEMMA FileTraceMoves ==
  ASSUME StatsInv, ContentInv, NEW t \in Recorded, FileTrace(t)
  PROVE  /\ t \notin inReport /\ addedAs[t] = "none" /\ inReport' = inReport \cup {t}
         /\ DOMAIN report' = DOMAIN report \cup {Trace[t].key}
         /\ \A k \in DOMAIN report : k # Trace[t].key => report'[k] = report[k]
         /\ DOMAIN report'[Trace[t].key] = {"trace", "stats", "contributing"}
         /\ (AsTrace(t) /\ AddedAsTrace(t)) \/ (~AsTrace(t) /\ AddedToStats(t))
<1>. DEFINE key == Trace[t].key
            client == Trace[t].client
            newKey == key \notin DOMAIN report
            entry == IF newKey THEN EmptyTracesAndStats ELSE report[key]
            keyBytes == IF newKey THEN StringBytes ELSE 0
            newClient == client \notin DOMAIN entry.stats
            start == [stats |-> IF newClient THEN EmptyStats ELSE entry.stats[client],
                      bytes |-> bytes + keyBytes
                                + (IF newClient THEN 20 + 3 * StringBytes ELSE 0)]
            counted == AddToStats(start, t)
            stats == [c \in DOMAIN entry.stats \cup {client} |->
                        IF c = client THEN counted.stats ELSE entry.stats[c]]
            contributing == IF include THEN Append(entry.contributing, t) ELSE entry.contributing
<1>1. /\ addedAs[t] = "none" /\ inReport' = inReport \cup {t}
      /\ addedAs' = [addedAs EXCEPT ![t] = IF AsTrace(t) THEN "trace" ELSE "stats"]
      /\ DOMAIN report' = DOMAIN report \cup {key}
      /\ \A k \in DOMAIN report : k # key => report'[k] = report[k]
      /\ report'[key] = IF AsTrace(t) THEN [entry EXCEPT !.trace = Append(@, t)]
                        ELSE [entry EXCEPT !.stats = stats, !.contributing = contributing]
      /\ bytes' = IF AsTrace(t) THEN bytes + keyBytes + TraceBytes
                  ELSE counted.bytes + (IF include THEN TraceBytes ELSE 0)
  BY DEF FileTrace, AsTrace
<1>2. t \notin inReport
  BY <1>1 DEF StatsInv, TracesAreFiled
<1>3. /\ entry = EntryAt(key) /\ keyBytes = KeyBytes(t)
      /\ start = [stats |-> StatsAt(key, client), bytes |-> bytes + KeyBytes(t) + ClientBytes(t)]
  BY DEF EntryAt, StatsAt, KeyBytes, ClientBytes
<1>4. DOMAIN entry = {"trace", "stats", "contributing"}
  BY <1>3, EntryAtHas
<1>5. /\ DOMAIN stats = DOMAIN entry.stats \cup {client}
      /\ stats[client] = counted.stats
      /\ \A c \in DOMAIN entry.stats : c # client => stats[c] = entry.stats[c]
  <2>. HIDE DEF entry, counted
  <2>. QED
    OBVIOUS
<1>6. counted = AddToStats([stats |-> StatsAt(key, client),
                            bytes |-> bytes + KeyBytes(t) + ClientBytes(t)], t)
  BY <1>3
<1>. HIDE DEF entry, stats, counted, keyBytes, contributing
<1>7. CASE AsTrace(t)
  <2>1. report'[key] = [entry EXCEPT !.trace = Append(entry.trace, t)]
    BY <1>1, <1>7
  <2>2. /\ DOMAIN report'[key] = {"trace", "stats", "contributing"}
        /\ report'[key].trace = Append(entry.trace, t)
        /\ report'[key].stats = entry.stats /\ report'[key].contributing = entry.contributing
    BY <1>4, <2>1
  <2>3. AddedAsTrace(t)
    BY <1>1, <1>3, <1>7, <2>2 DEF AddedAsTrace
  <2>. QED
    BY <1>1, <1>2, <1>7, <2>2, <2>3
<1>8. CASE ~AsTrace(t)
  <2>1. report'[key] = [entry EXCEPT !.stats = stats, !.contributing = contributing]
    BY <1>1, <1>8
  <2>2. /\ DOMAIN report'[key] = {"trace", "stats", "contributing"}
        /\ report'[key].trace = entry.trace
        /\ report'[key].stats = stats /\ report'[key].contributing = contributing
    BY <1>4, <2>1
  <2>3. AddedToStats(t)
    BY <1>1, <1>3, <1>5, <1>6, <1>8, <2>2 DEF AddedToStats, contributing
  <2>. QED
    BY <1>1, <1>2, <1>8, <2>2, <2>3
<1>. QED
  BY <1>7, <1>8

\* A trace that is counted is one more for its key and client.
LEMMA CountedMoves ==
  ASSUME StatsInv, ContentInv, NEW t \in Recorded, FileTrace(t), NEW k, NEW c
  PROVE  Counted(k, c)' = Counted(k, c) \cup
           (IF ~AsTrace(t) /\ k = Trace[t].key /\ c = Trace[t].client THEN {t} ELSE {})
<1>1. /\ t \notin inReport /\ addedAs[t] = "none" /\ inReport' = inReport \cup {t}
      /\ addedAs' = [addedAs EXCEPT ![t] = IF AsTrace(t) THEN "trace" ELSE "stats"]
  BY FileTraceMoves DEF FileTrace, AsTrace
<1>2. t \in DOMAIN addedAs /\ inReport \subseteq Recorded
  BY DEF StatsInv, SeenInv
<1>3. \A u \in inReport : addedAs'[u] = addedAs[u]
  BY <1>1
<1>4. addedAs'[t] = IF AsTrace(t) THEN "trace" ELSE "stats"
  BY <1>1, <1>2
<1>. QED
  BY <1>1, <1>3, <1>4 DEF Counted

\* The statistics of its key and client take it in.
LEMMA StatsStep ==
  ASSUME StatsInv, ContentInv, NEW t \in Recorded, FileTrace(t), ~AsTrace(t)
  PROVE  LET key == Trace[t].key
             client == Trace[t].client
             before == bytes + KeyBytes(t) + ClientBytes(t)
         IN  TraceAdded(StatsAt(key, client), before,
                        AddToStats([stats |-> StatsAt(key, client), bytes |-> before], t),
                        Counted(key, client)')
<1>. DEFINE key == Trace[t].key
            client == Trace[t].client
            before == bytes + KeyBytes(t) + ClientBytes(t)
<1>1. FitsTraces(StatsAt(key, client), Counted(key, client))
  BY EntryAtHas
<1>2. before \in Int
  BY StatsAssumption DEF StatsAssumption, ContentInv, KeyBytes, ClientBytes
<1>3. t \notin Counted(key, client)
  BY FileTraceMoves DEF Counted
<1>4. IsWalk(Visits[t])
  BY VisitsAreWalks
<1>5. Counted(key, client)' = Counted(key, client) \cup {t}
  BY CountedMoves
<1>6. TraceAdded(StatsAt(key, client), before,
                 AddToStats([stats |-> StatsAt(key, client), bytes |-> before], t),
                 Counted(key, client) \cup {t})
  <2>. HIDE DEF before
  <2>. QED
    BY <1>1, <1>2, <1>3, <1>4, AddToStatsStep
<1>. QED
  BY <1>5, <1>6

\* All others stay those of their traces.
LEMMA ContentStep ==
  ASSUME StatsInv, ContentInv, NEW t \in Recorded, FileTrace(t)
  PROVE  ContentInv'
<1>. DEFINE key == Trace[t].key
            client == Trace[t].client
            entry == EntryAt(key)
<1>1. /\ DOMAIN report' = DOMAIN report \cup {key}
      /\ \A k \in DOMAIN report : k # key => report'[k] = report[k]
      /\ (AsTrace(t) /\ AddedAsTrace(t)) \/ (~AsTrace(t) /\ AddedToStats(t))
  BY FileTraceMoves
<1>2. /\ entry.contributing \in Seq(Recorded) /\ IsFiniteSet(DOMAIN entry.stats)
      /\ \A c : FitsTraces(StatsAt(key, c), Counted(key, c))
  BY EntryAtHas
<1>3. /\ IsFiniteSet(DOMAIN report) /\ bytes \in Int
      /\ \A k \in DOMAIN report :
           /\ IsFiniteSet(DOMAIN report[k].stats)
           /\ report[k].contributing \in Seq(Recorded)
           /\ \A c \in DOMAIN report[k].stats : FitsTraces(report[k].stats[c], Counted(k, c))
  BY DEF ContentInv
<1>4. IsFiniteSet(DOMAIN report')
  BY <1>1, <1>3, FS_AddElement
<1>5. KeyBytes(t) \in Int /\ TraceBytes \in Int
  BY StatsAssumption DEF StatsAssumption, KeyBytes
<1>6. ASSUME NEW k, NEW c, AsTrace(t) \/ k # key \/ c # client
      PROVE  Counted(k, c)' = Counted(k, c)
  <2>1. Counted(k, c)' = Counted(k, c) \cup {}
    BY <1>6, CountedMoves
  <2>. QED
    BY <2>1
<1>7. \A c \in DOMAIN entry.stats : StatsAt(key, c) = entry.stats[c]
  BY DEF StatsAt
<1>. HIDE DEF entry
<1>8. ASSUME NEW k \in DOMAIN report, k # key
      PROVE  /\ IsFiniteSet(DOMAIN report'[k].stats)
             /\ report'[k].contributing \in Seq(Recorded)
             /\ \A c \in DOMAIN report'[k].stats : FitsTraces(report'[k].stats[c], Counted(k, c)')
  BY <1>1, <1>3, <1>6, <1>8
<1>9. /\ bytes' \in Int
      /\ IsFiniteSet(DOMAIN report'[key].stats)
      /\ report'[key].contributing \in Seq(Recorded)
      /\ \A c \in DOMAIN report'[key].stats : FitsTraces(report'[key].stats[c], Counted(key, c)')
  <2>1. CASE AsTrace(t)
    <3>1. /\ report'[key].stats = entry.stats /\ report'[key].contributing = entry.contributing
          /\ bytes' = bytes + KeyBytes(t) + TraceBytes
      BY <1>1, <2>1 DEF AddedAsTrace, entry
    <3>2. \A c \in DOMAIN entry.stats : FitsTraces(entry.stats[c], Counted(key, c)')
      BY <1>2, <1>6, <1>7, <2>1
    <3>. QED
      BY <1>2, <1>3, <1>5, <3>1, <3>2
  <2>2. CASE ~AsTrace(t)
    <3>. DEFINE before == bytes + KeyBytes(t) + ClientBytes(t)
                counted == AddToStats([stats |-> StatsAt(key, client), bytes |-> before], t)
                now == report'[key].stats
    <3>1. /\ DOMAIN now = DOMAIN entry.stats \cup {client}
          /\ now[client] = counted.stats
          /\ \A c \in DOMAIN entry.stats : c # client => now[c] = entry.stats[c]
          /\ report'[key].contributing = IF include THEN Append(entry.contributing, t)
                                         ELSE entry.contributing
          /\ bytes' = counted.bytes + (IF include THEN TraceBytes ELSE 0)
      BY <1>1, <2>2 DEF AddedToStats, entry
    <3>2. TraceAdded(StatsAt(key, client), before, counted, Counted(key, client)')
      BY <2>2, StatsStep
    <3>. HIDE DEF counted, now
    <3>3. FitsTraces(counted.stats, Counted(key, client)') /\ counted.bytes \in Int
      BY <3>2 DEF TraceAdded
    <3>4. bytes' \in Int
      BY <1>5, <3>1, <3>3
    <3>5. IsFiniteSet(DOMAIN now)
      BY <1>2, <3>1, FS_AddElement
    <3>6. Append(entry.contributing, t) \in Seq(Recorded)
      BY <1>2
    <3>7. ASSUME NEW c \in DOMAIN now PROVE FitsTraces(now[c], Counted(key, c)')
      <4>1. CASE c = client
        BY <3>1, <3>3, <4>1
      <4>2. CASE c # client
        BY <1>2, <1>6, <1>7, <3>1, <4>2
      <4>. QED
        BY <4>1, <4>2
    <3>. QED
      BY <1>2, <3>1, <3>4, <3>5, <3>6, <3>7 DEF now
  <2>. QED
    BY <2>1, <2>2
<1>10. ASSUME NEW k \in DOMAIN report'
       PROVE  /\ IsFiniteSet(DOMAIN report'[k].stats)
              /\ report'[k].contributing \in Seq(Recorded)
              /\ \A c \in DOMAIN report'[k].stats : FitsTraces(report'[k].stats[c], Counted(k, c)')
  BY <1>1, <1>8, <1>9
<1>. QED
  BY <1>4, <1>9, <1>10 DEF ContentInv

-----------------------------------------------------------------------------
(* The size of a report.                                                   *)

\* The pairs of every thing with those that a function gives it.
PairsOf(f) == UNION {{c} \X f[c] : c \in DOMAIN f}

\* Another function gives the pairs of the first, and Q for one thing instead of P.
PairsAdded(f, g, P, Q) ==
  /\ IsFiniteSet(PairsOf(g))
  /\ Cardinality(PairsOf(g)) = Cardinality(PairsOf(f)) + Cardinality(Q) - Cardinality(P)
  /\ Cardinality(PairsOf(f)) \in Nat /\ Cardinality(Q) \in Nat /\ Cardinality(P) \in Nat

\* So do the sizes, when one thing has more.
LEMMA PairsOfGrow ==
  ASSUME NEW f, NEW g, NEW c, DOMAIN g = DOMAIN f \cup {c},
         \A x \in DOMAIN f : x # c => g[x] = f[x],
         NEW P, P = IF c \in DOMAIN f THEN f[c] ELSE {}, NEW Q, Q = g[c],
         P \subseteq Q, IsFiniteSet(Q), IsFiniteSet(PairsOf(f))
  PROVE  PairsAdded(f, g, P, Q)
<1>1. \A x \in Q : <<c, x>> \in PairsOf(f) <=> x \in P
  BY DEF PairsOf
<1>2. PairsOf(g) = PairsOf(f) \cup Row(c, Q)
  <2>. DEFINE F(x) == {x} \X f[x]
              G(x) == {x} \X g[x]
  <2>1. \A x \in DOMAIN f : x # c => F(x) = G(x)
    OBVIOUS
  <2>2. c \in DOMAIN f => F(c) \subseteq G(c)
    BY DEF F, G
  <2>. HIDE DEF F, G
  <2>3. UNION {G(x) : x \in DOMAIN g} = (UNION {F(x) : x \in DOMAIN f}) \cup G(c)
    BY <2>1, <2>2
  <2>. QED
    BY <2>3 DEF PairsOf, Row, F, G
<1>. DEFINE S == PairsOf(f)
<1>. HIDE DEF S
<1>3. \A x \in Q : <<c, x>> \in S <=> x \in P
  BY <1>1 DEF S
<1>4. IsFiniteSet(S)
  BY DEF S
<1>5. IsFiniteSet(Q) /\ P \subseteq Q
  OBVIOUS
<1>6. IsFiniteSet(S \cup Row(c, Q))
  BY <1>3, <1>4, <1>5, PairsGrow
<1>7. Cardinality(S \cup Row(c, Q)) = Cardinality(S) + Cardinality(Q) - Cardinality(P)
  BY <1>3, <1>4, <1>5, PairsGrow
<1>8. Cardinality(S) \in Nat /\ Cardinality(Q) \in Nat /\ Cardinality(P) \in Nat
  BY <1>4, <1>5, FS_Subset, FS_CardinalityType
<1>. QED
  BY <1>2, <1>6, <1>7, <1>8 DEF S, PairsAdded

\* The traces that an entry has as such.
EncodedAt(entry) ==
  ({"trace"} \X DOMAIN entry.trace) \cup ({"contributing"} \X DOMAIN entry.contributing)

\* One more, among the traces or the contributing ones, or none.
LEMMA EncodedGrows ==
  ASSUME NEW old, NEW new, NEW t, NEW b \in BOOLEAN,
         old.trace \in Seq(Recorded), old.contributing \in Seq(Recorded), t \in Recorded,
         \/ b /\ new.trace = Append(old.trace, t) /\ new.contributing = old.contributing
         \/ b /\ new.trace = old.trace /\ new.contributing = Append(old.contributing, t)
         \/ ~b /\ new.trace = old.trace /\ new.contributing = old.contributing
  PROVE  /\ EncodedAt(old) \subseteq EncodedAt(new) /\ IsFiniteSet(EncodedAt(new))
         /\ Cardinality(EncodedAt(new)) = Cardinality(EncodedAt(old)) + (IF b THEN 1 ELSE 0)
         /\ Cardinality(EncodedAt(old)) \in Nat
<1>1. ASSUME NEW s \in Seq(Recorded)
      PROVE  /\ DOMAIN s = 1 .. Len(s) /\ Len(s) \in Nat
             /\ DOMAIN Append(s, t) = DOMAIN s \cup {Len(s) + 1}
             /\ Len(s) + 1 \notin DOMAIN s
  OBVIOUS
<1>2. IsFiniteSet(EncodedAt(old)) /\ Cardinality(EncodedAt(old)) \in Nat
  <2>1. ASSUME NEW D, NEW n \in Nat, D = 1 .. n, NEW x PROVE IsFiniteSet({x} \X D)
    <3>. DEFINE A == {x}
    <3>1. IsFiniteSet(A)
      BY FS_Singleton
    <3>2. IsFiniteSet(D)
      BY <2>1, FS_Interval
    <3>. HIDE DEF A
    <3>3. IsFiniteSet(A \X D)
      BY <3>1, <3>2, FS_Product
    <3>. QED
      BY <3>3 DEF A
  <2>2. /\ IsFiniteSet({"trace"} \X DOMAIN old.trace)
        /\ IsFiniteSet({"contributing"} \X DOMAIN old.contributing)
    BY <1>1, <2>1
  <2>3. IsFiniteSet(EncodedAt(old))
    <3>. DEFINE A == {"trace"} \X DOMAIN old.trace
                B == {"contributing"} \X DOMAIN old.contributing
    <3>1. EncodedAt(old) = A \cup B
      BY DEF EncodedAt
    <3>2. IsFiniteSet(A) /\ IsFiniteSet(B)
      BY <2>2
    <3>. HIDE DEF A, B
    <3>. QED
      BY <3>1, <3>2, FS_Union
  <2>. QED
    BY <2>3, FS_CardinalityType
<1>3. CASE ~b
  <2>1. EncodedAt(new) = EncodedAt(old)
    BY <1>3 DEF EncodedAt
  <2>. QED
    BY <1>2, <1>3, <2>1
<1>4. CASE b
  <2>1. PICK x : x \notin EncodedAt(old) /\ EncodedAt(new) = EncodedAt(old) \cup {x}
    <3>1. CASE new.trace = Append(old.trace, t) /\ new.contributing = old.contributing
      <4>. DEFINE x == <<"trace", Len(old.trace) + 1>>
      <4>1. x \notin EncodedAt(old)
        BY <1>1 DEF EncodedAt
      <4>2. {"trace"} \X DOMAIN new.trace = ({"trace"} \X DOMAIN old.trace) \cup {x}
        <5>. DEFINE D == DOMAIN old.trace
                    m == Len(old.trace) + 1
        <5>1. DOMAIN new.trace = D \cup {m}
          BY <1>1, <3>1
        <5>. HIDE DEF D, m
        <5>2. {"trace"} \X (D \cup {m}) = ({"trace"} \X D) \cup {<<"trace", m>>}
          OBVIOUS
        <5>. QED
          BY <5>1, <5>2 DEF D, m
      <4>. HIDE DEF x
      <4>3. EncodedAt(new) = EncodedAt(old) \cup {x}
        BY <3>1, <4>2 DEF EncodedAt
      <4>. QED
        BY <4>1, <4>3
    <3>2. CASE new.trace = old.trace /\ new.contributing = Append(old.contributing, t)
      <4>. DEFINE x == <<"contributing", Len(old.contributing) + 1>>
      <4>1. x \notin EncodedAt(old)
        BY <1>1 DEF EncodedAt
      <4>2. {"contributing"} \X DOMAIN new.contributing
              = ({"contributing"} \X DOMAIN old.contributing) \cup {x}
        <5>. DEFINE D == DOMAIN old.contributing
                    m == Len(old.contributing) + 1
        <5>1. DOMAIN new.contributing = D \cup {m}
          BY <1>1, <3>2
        <5>. HIDE DEF D, m
        <5>2. {"contributing"} \X (D \cup {m})
                = ({"contributing"} \X D) \cup {<<"contributing", m>>}
          OBVIOUS
        <5>. QED
          BY <5>1, <5>2 DEF D, m
      <4>. HIDE DEF x
      <4>3. EncodedAt(new) = EncodedAt(old) \cup {x}
        BY <3>2, <4>2 DEF EncodedAt
      <4>. QED
        BY <4>1, <4>3
    <3>. QED
      BY <1>4, <3>1, <3>2
  <2>. QED
    BY <1>2, <1>4, <2>1, FS_AddElement
<1>. QED
  BY <1>3, <1>4

\* The pieces of the report are finitely many, and the estimate is their size.
SizeInv ==
  /\ IsFiniteSet(EncodedIn) /\ IsFiniteSet(ClientsIn)
  /\ IsFiniteSet(ChildrenIn) /\ IsFiniteSet(TypesIn) /\ IsFiniteSet(FieldsIn)
  /\ EstimateFitsContent

\* The same pieces, each kind as the pairs that a function gives.
EncodedOf == [key \in DOMAIN report |-> EncodedAt(report[key])]
ChildrenOf == [c \in ClientsIn |-> Children(StatsOf(c))]
TypesOf == [c \in ClientsIn |-> Types(StatsOf(c))]
FieldsOf == [c \in ClientsIn |-> DOMAIN StatsOf(c).fields]

\* The pieces, by what each key or client has.
LEMMA PiecesArePairs ==
  /\ EncodedIn = PairsOf(EncodedOf)
  /\ ChildrenIn = PairsOf(ChildrenOf) /\ TypesIn = PairsOf(TypesOf)
  /\ FieldsIn = PairsOf(FieldsOf)
<1>1. EncodedIn = PairsOf(EncodedOf)
  <2>1. \A k \in DOMAIN report : EncodedOf[k] = EncodedAt(report[k])
    BY DEF EncodedOf
  <2>2. DOMAIN EncodedOf = DOMAIN report
    BY DEF EncodedOf
  <2>. QED
    BY <2>1, <2>2 DEF EncodedIn, PairsOf, EncodedAt
<1>2. ChildrenIn = PairsOf(ChildrenOf) /\ TypesIn = PairsOf(TypesOf)
      /\ FieldsIn = PairsOf(FieldsOf)
  BY DEF ChildrenIn, TypesIn, FieldsIn, PairsOf, ChildrenOf, TypesOf, FieldsOf
<1>. QED
  BY <1>1, <1>2

\* The same of the next state.
LEMMA PiecesArePairsNow ==
  /\ EncodedIn' = PairsOf(EncodedOf')
  /\ ChildrenIn' = PairsOf(ChildrenOf') /\ TypesIn' = PairsOf(TypesOf')
  /\ FieldsIn' = PairsOf(FieldsOf')
<1>1. EncodedIn' = PairsOf(EncodedOf')
  <2>1. \A k \in DOMAIN report' : (EncodedOf')[k] = EncodedAt(report'[k])
    BY DEF EncodedOf
  <2>2. DOMAIN EncodedOf' = DOMAIN report'
    BY DEF EncodedOf
  <2>. QED
    BY <2>1, <2>2 DEF EncodedIn, PairsOf, EncodedAt
<1>2. ChildrenIn' = PairsOf(ChildrenOf') /\ TypesIn' = PairsOf(TypesOf')
      /\ FieldsIn' = PairsOf(FieldsOf')
  BY DEF ChildrenIn, TypesIn, FieldsIn, PairsOf, ChildrenOf, TypesOf, FieldsOf
<1>. QED
  BY <1>1, <1>2

\* The clients of the report, each with its key.
LEMMA ClientsAre ==
  /\ \A k, c : <<k, c>> \in ClientsIn <=> k \in DOMAIN report /\ c \in DOMAIN report[k].stats
  /\ \A e \in ClientsIn : e = <<e[1], e[2]>> /\ e[1] \in DOMAIN report
                          /\ e[2] \in DOMAIN report[e[1]].stats
  BY DEF ClientsIn

\* A trace among the encoded ones of its key, or of its contributing ones.
LEMMA EncodedMoves ==
  ASSUME StatsInv, ContentInv, SizeInv, NEW t \in Recorded, FileTrace(t)
  PROVE  /\ IsFiniteSet(EncodedIn')
         /\ Cardinality(EncodedIn') = Cardinality(EncodedIn)
                                      + (IF AsTrace(t) \/ include THEN 1 ELSE 0)
<1>. DEFINE key == Trace[t].key
            old == EntryAt(key)
            new == report'[key]
            b == AsTrace(t) \/ include
            P == EncodedAt(old)
            Q == EncodedAt(new)
<1>1. /\ DOMAIN report' = DOMAIN report \cup {key}
      /\ \A k \in DOMAIN report : k # key => report'[k] = report[k]
      /\ (AsTrace(t) /\ AddedAsTrace(t)) \/ (~AsTrace(t) /\ AddedToStats(t))
  BY FileTraceMoves
<1>2. /\ old.trace \in Seq(Recorded) /\ old.contributing \in Seq(Recorded)
      /\ key \notin DOMAIN report => old.trace = << >> /\ old.contributing = << >>
      /\ key \in DOMAIN report => old = report[key]
  BY EntryAtHas DEF EntryAt
<1>3. \/ b /\ new.trace = Append(old.trace, t) /\ new.contributing = old.contributing
      \/ b /\ new.trace = old.trace /\ new.contributing = Append(old.contributing, t)
      \/ ~b /\ new.trace = old.trace /\ new.contributing = old.contributing
  BY <1>1 DEF AddedAsTrace, AddedToStats
<1>4. b \in BOOLEAN
  OBVIOUS
<1>. HIDE DEF b, old, new
<1>5. /\ P \subseteq Q /\ IsFiniteSet(Q)
      /\ Cardinality(Q) = Cardinality(P) + (IF b THEN 1 ELSE 0)
      /\ Cardinality(P) \in Nat
  BY <1>2, <1>3, <1>4, EncodedGrows
<1>6. P = IF key \in DOMAIN EncodedOf THEN EncodedOf[key] ELSE {}
  <2>1. /\ DOMAIN EncodedOf = DOMAIN report
        /\ \A k \in DOMAIN report : EncodedOf[k] = EncodedAt(report[k])
    BY DEF EncodedOf
  <2>2. CASE key \in DOMAIN report
    BY <1>2, <2>1, <2>2
  <2>3. CASE key \notin DOMAIN report
    <3>1. P = {}
      BY <1>2, <2>3 DEF EncodedAt
    <3>. QED
      BY <2>1, <2>3, <3>1
  <2>. QED
    BY <2>2, <2>3
<1>7. /\ DOMAIN EncodedOf' = DOMAIN EncodedOf \cup {key}
      /\ \A k \in DOMAIN EncodedOf : k # key => (EncodedOf')[k] = EncodedOf[k]
      /\ Q = (EncodedOf')[key]
  <2>1. DOMAIN EncodedOf = DOMAIN report /\ DOMAIN EncodedOf' = DOMAIN report'
    BY DEF EncodedOf
  <2>2. \A k \in DOMAIN report : EncodedOf[k] = EncodedAt(report[k])
    BY DEF EncodedOf
  <2>3. \A k \in DOMAIN report' : (EncodedOf')[k] = EncodedAt(report'[k])
    BY DEF EncodedOf
  <2>. QED
    BY <1>1, <2>1, <2>2, <2>3 DEF new
<1>8. IsFiniteSet(PairsOf(EncodedOf))
  BY PiecesArePairs DEF SizeInv
<1>. HIDE DEF P, Q
<1>9. /\ IsFiniteSet(PairsOf(EncodedOf'))
      /\ Cardinality(PairsOf(EncodedOf'))
           = Cardinality(PairsOf(EncodedOf)) + Cardinality(Q) - Cardinality(P)
      /\ Cardinality(PairsOf(EncodedOf)) \in Nat
  <2>1. P \subseteq Q /\ IsFiniteSet(Q)
    BY <1>5
  <2>2. PairsAdded(EncodedOf, EncodedOf', P, Q)
    BY <1>6, <1>7, <1>8, <2>1, PairsOfGrow
  <2>. QED
    BY <2>2 DEF PairsAdded
<1>10. \A x, y, z \in Int, d \in {0, 1} : y = z + d => x + y - z = x + d
  OBVIOUS
<1>. QED
  BY <1>5, <1>9, <1>10, PiecesArePairs, PiecesArePairsNow DEF b

\* The same of the next state.
LEMMA ClientsAreNow ==
  /\ \A k, c : <<k, c>> \in ClientsIn' <=> k \in DOMAIN report' /\ c \in DOMAIN report'[k].stats
  /\ \A e \in ClientsIn' : e = <<e[1], e[2]>> /\ e[1] \in DOMAIN report'
                           /\ e[2] \in DOMAIN report'[e[1]].stats
  BY DEF ClientsIn

\* A trace that is reported as such leaves all statistics.
LEMMA SameClients ==
  ASSUME StatsInv, ContentInv, NEW t \in Recorded, FileTrace(t), AsTrace(t)
  PROVE  /\ ClientsIn' = ClientsIn
         /\ ChildrenIn' = ChildrenIn /\ TypesIn' = TypesIn /\ FieldsIn' = FieldsIn
<1>. DEFINE key == Trace[t].key
<1>1. /\ DOMAIN report' = DOMAIN report \cup {key}
      /\ \A k \in DOMAIN report : k # key => report'[k] = report[k]
      /\ report'[key].stats = EntryAt(key).stats
  BY FileTraceMoves DEF AddedAsTrace
<1>2. /\ key \notin DOMAIN report => DOMAIN report'[key].stats = {}
      /\ key \in DOMAIN report => report'[key].stats = report[key].stats
  BY <1>1, EntryAtHas DEF EntryAt
<1>3. /\ \A k \in DOMAIN report : report'[k].stats = report[k].stats
      /\ \A k \in DOMAIN report' : k \notin DOMAIN report => DOMAIN report'[k].stats = {}
  BY <1>1, <1>2
<1>4. \A k, c : <<k, c>> \in ClientsIn' <=> <<k, c>> \in ClientsIn
  BY <1>1, <1>3, ClientsAre, ClientsAreNow
<1>5. ClientsIn' = ClientsIn
  <2>1. \A e \in ClientsIn \cup ClientsIn' : e = <<e[1], e[2]>>
    BY ClientsAre, ClientsAreNow
  <2>. QED
    BY <1>4, <2>1
<1>6. \A e \in ClientsIn : StatsOf(e)' = StatsOf(e)
  BY <1>3, ClientsAre DEF StatsOf
<1>7. ChildrenOf' = ChildrenOf /\ TypesOf' = TypesOf /\ FieldsOf' = FieldsOf
  BY <1>5, <1>6 DEF ChildrenOf, TypesOf, FieldsOf
<1>. QED
  BY <1>5, <1>7, PiecesArePairs, PiecesArePairsNow

\* A trace that is counted changes the statistics of its client.
LEMMA ClientsGrow ==
  ASSUME StatsInv, ContentInv, NEW t \in Recorded, FileTrace(t), ~AsTrace(t),
         NEW c, c = <<Trace[t].key, Trace[t].client>>,
         NEW s, s = StatsAt(Trace[t].key, Trace[t].client),
         NEW counted, counted = AddToStats([stats |-> s,
                                            bytes |-> bytes + KeyBytes(t) + ClientBytes(t)], t)
  PROVE  /\ ClientsIn' = ClientsIn \cup {c}
         /\ c \in ClientsIn <=> ClientBytes(t) = 0
         /\ \A e \in ClientsIn : e # c => StatsOf(e)' = StatsOf(e)
         /\ StatsOf(c)' = counted.stats
         /\ s = IF c \in ClientsIn THEN StatsOf(c) ELSE EmptyStats
<1>. DEFINE key == Trace[t].key
            client == Trace[t].client
            stats == EntryAt(key).stats
            now == report'[key].stats
<1>1. /\ DOMAIN report' = DOMAIN report \cup {key}
      /\ \A k \in DOMAIN report : k # key => report'[k] = report[k]
      /\ DOMAIN now = DOMAIN stats \cup {client}
      /\ now[client] = counted.stats
      /\ \A d \in DOMAIN stats : d # client => now[d] = stats[d]
  BY FileTraceMoves DEF AddedToStats
<1>2. /\ key \notin DOMAIN report => DOMAIN stats = {}
      /\ key \in DOMAIN report => stats = report[key].stats
  BY EntryAtHas DEF EntryAt
<1>3. c \in ClientsIn <=> client \in DOMAIN stats
  BY <1>2, ClientsAre
<1>4. c \in ClientsIn <=> ClientBytes(t) = 0
  BY <1>3, StatsAssumption DEF ClientBytes, StatsAssumption
<1>5. s = IF c \in ClientsIn THEN StatsOf(c) ELSE EmptyStats
  <2>1. client \in DOMAIN stats => key \in DOMAIN report
    BY <1>2
  <2>. QED
    BY <1>2, <1>3, <2>1 DEF StatsAt, StatsOf
<1>. HIDE DEF stats, now
<1>6. ASSUME NEW k, NEW d
      PROVE  <<k, d>> \in ClientsIn' <=> <<k, d>> \in ClientsIn \/ <<k, d>> = c
  <2>1. CASE k = key
    <3>1. <<k, d>> \in ClientsIn' <=> d \in DOMAIN stats \/ d = client
      BY <1>1, <2>1, ClientsAreNow DEF now
    <3>2. <<k, d>> \in ClientsIn <=> d \in DOMAIN stats
      BY <1>2, <2>1, ClientsAre
    <3>. QED
      BY <2>1, <3>1, <3>2
  <2>2. CASE k # key
    BY <1>1, <2>2, ClientsAre, ClientsAreNow
  <2>. QED
    BY <2>1, <2>2
<1>7. ClientsIn' = ClientsIn \cup {c}
  <2>1. \A e \in ClientsIn \cup ClientsIn' : e = <<e[1], e[2]>>
    BY ClientsAre, ClientsAreNow
  <2>. QED
    BY <1>6, <2>1
<1>8. ASSUME NEW e \in ClientsIn, e # c PROVE StatsOf(e)' = StatsOf(e)
  <2>1. e = <<e[1], e[2]>> /\ e[1] \in DOMAIN report /\ e[2] \in DOMAIN report[e[1]].stats
    BY ClientsAre
  <2>2. report'[e[1]].stats[e[2]] = report[e[1]].stats[e[2]]
    <3>1. CASE e[1] = key
      <4>1. e[2] # client
        BY <1>8, <2>1, <3>1
      <4>. QED
        BY <1>1, <1>2, <2>1, <3>1, <4>1 DEF now
    <3>2. CASE e[1] # key
      BY <1>1, <2>1, <3>2
    <3>. QED
      BY <3>1, <3>2
  <2>. QED
    BY <2>2 DEF StatsOf
<1>9. StatsOf(c)' = counted.stats
  BY <1>1 DEF StatsOf, now
<1>. QED
  BY <1>4, <1>5, <1>7, <1>8, <1>9

\* A client that is new had nothing.
LEMMA NothingYet ==
  Children(EmptyStats) = {} /\ Types(EmptyStats) = {} /\ DOMAIN EmptyStats.fields = {}
<1>. DEFINE s == EmptyStats
<1>1. s.paths = [p \in {<< >>} |-> NoErrors] /\ s.fields = << >>
  BY DEF EmptyStats
<1>. HIDE DEF s
<1>2. DOMAIN s.paths = {<< >>} /\ DOMAIN s.fields = {}
  BY <1>1
<1>. QED
  BY <1>2 DEF Children, Types, s

\* What a counted trace does to the pieces of the report.
LEMMA PiecesGrow ==
  ASSUME StatsInv, ContentInv, SizeInv, NEW t \in Recorded, FileTrace(t), ~AsTrace(t),
         NEW s, s = StatsAt(Trace[t].key, Trace[t].client),
         NEW counted, counted = AddToStats([stats |-> s,
                                            bytes |-> bytes + KeyBytes(t) + ClientBytes(t)], t)
  PROVE  /\ PairsAdded(ChildrenOf, ChildrenOf', Children(s), Children(counted.stats))
         /\ PairsAdded(TypesOf, TypesOf', Types(s), Types(counted.stats))
         /\ PairsAdded(FieldsOf, FieldsOf', DOMAIN s.fields, DOMAIN counted.stats.fields)
         /\ counted.bytes \in Int
         /\ counted.bytes - Weight(counted.stats)
              = (bytes + KeyBytes(t) + ClientBytes(t)) - Weight(s)
<1>. DEFINE key == Trace[t].key
            client == Trace[t].client
            c == <<key, client>>
            after == counted.stats
<1>1. /\ ClientsIn' = ClientsIn \cup {c}
      /\ \A e \in ClientsIn : e # c => StatsOf(e)' = StatsOf(e)
      /\ StatsOf(c)' = after
      /\ s = IF c \in ClientsIn THEN StatsOf(c) ELSE EmptyStats
  BY ClientsGrow
<1>2. TraceAdded(s, bytes + KeyBytes(t) + ClientBytes(t), counted, Counted(key, client)')
  BY StatsStep
<1>3. /\ counted.bytes \in Int
      /\ counted.bytes - Weight(after) = (bytes + KeyBytes(t) + ClientBytes(t)) - Weight(s)
      /\ Children(s) \subseteq Children(after)
      /\ Types(s) \subseteq Types(after)
      /\ DOMAIN s.fields \subseteq DOMAIN after.fields
      /\ IsStats(after)
  <2>1. FitsTraces(after, Counted(key, client)')
    BY <1>2 DEF TraceAdded
  <2>. QED
    BY <1>2, <2>1 DEF TraceAdded, FitsTraces
<1>4. IsFiniteSet(Children(after)) /\ IsFiniteSet(Types(after)) /\ IsFiniteSet(DOMAIN after.fields)
  BY <1>3, Sizes
<1>5. /\ IsFiniteSet(PairsOf(ChildrenOf)) /\ IsFiniteSet(PairsOf(TypesOf))
      /\ IsFiniteSet(PairsOf(FieldsOf))
  BY PiecesArePairs DEF SizeInv
<1>6. /\ DOMAIN ChildrenOf = ClientsIn /\ DOMAIN ChildrenOf' = ClientsIn'
      /\ DOMAIN TypesOf = ClientsIn /\ DOMAIN TypesOf' = ClientsIn'
      /\ DOMAIN FieldsOf = ClientsIn /\ DOMAIN FieldsOf' = ClientsIn'
  BY DEF ChildrenOf, TypesOf, FieldsOf
<1>7. /\ \A e \in ClientsIn : /\ ChildrenOf[e] = Children(StatsOf(e))
                              /\ TypesOf[e] = Types(StatsOf(e))
                              /\ FieldsOf[e] = DOMAIN StatsOf(e).fields
      /\ \A e \in ClientsIn' : /\ (ChildrenOf')[e] = Children(StatsOf(e)')
                               /\ (TypesOf')[e] = Types(StatsOf(e)')
                               /\ (FieldsOf')[e] = DOMAIN StatsOf(e)'.fields
  BY DEF ChildrenOf, TypesOf, FieldsOf
<1>. HIDE DEF c, after
<1>8. PairsAdded(ChildrenOf, ChildrenOf', Children(s), Children(after))
  <2>1. /\ DOMAIN ChildrenOf' = DOMAIN ChildrenOf \cup {c}
        /\ \A e \in DOMAIN ChildrenOf : e # c => (ChildrenOf')[e] = ChildrenOf[e]
        /\ Children(s) = IF c \in DOMAIN ChildrenOf THEN ChildrenOf[c] ELSE {}
        /\ Children(after) = (ChildrenOf')[c]
    BY <1>1, <1>6, <1>7, NothingYet
  <2>. QED
    BY <1>3, <1>4, <1>5, <2>1, PairsOfGrow
<1>9. PairsAdded(TypesOf, TypesOf', Types(s), Types(after))
  <2>1. /\ DOMAIN TypesOf' = DOMAIN TypesOf \cup {c}
        /\ \A e \in DOMAIN TypesOf : e # c => (TypesOf')[e] = TypesOf[e]
        /\ Types(s) = IF c \in DOMAIN TypesOf THEN TypesOf[c] ELSE {}
        /\ Types(after) = (TypesOf')[c]
    BY <1>1, <1>6, <1>7, NothingYet
  <2>. QED
    BY <1>3, <1>4, <1>5, <2>1, PairsOfGrow
<1>10. PairsAdded(FieldsOf, FieldsOf', DOMAIN s.fields, DOMAIN after.fields)
  <2>1. /\ DOMAIN FieldsOf' = DOMAIN FieldsOf \cup {c}
        /\ \A e \in DOMAIN FieldsOf : e # c => (FieldsOf')[e] = FieldsOf[e]
        /\ DOMAIN s.fields = IF c \in DOMAIN FieldsOf THEN FieldsOf[c] ELSE {}
        /\ DOMAIN after.fields = (FieldsOf')[c]
    BY <1>1, <1>6, <1>7, NothingYet
  <2>. QED
    BY <1>3, <1>4, <1>5, <2>1, PairsOfGrow
<1>. QED
  BY <1>3, <1>8, <1>9, <1>10 DEF after

\* The estimate grows by the size of the pieces that are new.
LEMMA SizeStep ==
  ASSUME StatsInv, ContentInv, SizeInv, NEW t \in Recorded, FileTrace(t)
  PROVE  SizeInv'
<1>. DEFINE key == Trace[t].key
            k == Cardinality(DOMAIN report)
            e == Cardinality(EncodedIn)
            c == Cardinality(ClientsIn)
            h == Cardinality(ChildrenIn)
            y == Cardinality(TypesIn)
            f == Cardinality(FieldsIn)
            four == StringBytes + 4
            twenty == 20 + 3 * StringBytes
            ten == 2 * StringBytes + 10
<1>1. /\ k \in Int /\ e \in Int /\ c \in Int /\ h \in Int /\ y \in Int /\ f \in Int
      /\ IsFiniteSet(DOMAIN report) /\ IsFiniteSet(ClientsIn)
      /\ IsFiniteSet(ChildrenIn) /\ IsFiniteSet(TypesIn) /\ IsFiniteSet(FieldsIn)
  BY FS_CardinalityType DEF SizeInv, ContentInv
<1>2. /\ four \in Int /\ twenty \in Int /\ ten \in Int
      /\ StringBytes \in Int /\ TraceBytes \in Int
  BY StatsAssumption DEF StatsAssumption
<1>3. bytes = k * StringBytes + e * TraceBytes + c * twenty + h * four + y * StringBytes + f * ten
  BY DEF SizeInv, EstimateFitsContent
<1>4. /\ DOMAIN report' = DOMAIN report \cup {key}
      /\ (AsTrace(t) /\ AddedAsTrace(t)) \/ (~AsTrace(t) /\ AddedToStats(t))
  BY FileTraceMoves
<1>5. Cardinality(DOMAIN report') = k + (IF key \in DOMAIN report THEN 0 ELSE 1)
  BY <1>1, <1>4, FS_AddElement
<1>6. /\ IsFiniteSet(EncodedIn')
      /\ Cardinality(EncodedIn') = e + (IF AsTrace(t) \/ include THEN 1 ELSE 0)
  BY EncodedMoves
<1>7. \A i, d, b \in Int : (i + d) * b = i * b + d * b /\ (i - d) * b = i * b - d * b
                           /\ i * b \in Int /\ 1 * b = b /\ 0 * b = 0
  OBVIOUS
<1>. HIDE DEF k, e, c, h, y, f, four, twenty, ten
<1>8. /\ Cardinality(DOMAIN report') * StringBytes = k * StringBytes + KeyBytes(t)
      /\ KeyBytes(t) \in Int
  <2>1. /\ (k + 0) * StringBytes = k * StringBytes + 0
        /\ (k + 1) * StringBytes = k * StringBytes + StringBytes
    BY <1>1, <1>2, <1>7
  <2>. QED
    BY <1>2, <1>5, <2>1 DEF KeyBytes
<1>9. Cardinality(EncodedIn') * TraceBytes
        = e * TraceBytes + (IF AsTrace(t) \/ include THEN TraceBytes ELSE 0)
  <2>1. /\ (e + 0) * TraceBytes = e * TraceBytes + 0
        /\ (e + 1) * TraceBytes = e * TraceBytes + TraceBytes
    BY <1>1, <1>2, <1>7
  <2>. QED
    BY <1>6, <2>1
<1>10. /\ k * StringBytes \in Int /\ e * TraceBytes \in Int /\ c * twenty \in Int
       /\ h * four \in Int /\ y * StringBytes \in Int /\ f * ten \in Int
  BY <1>1, <1>2, <1>7
<1>11. CASE AsTrace(t)
  <2>1. /\ ClientsIn' = ClientsIn
        /\ ChildrenIn' = ChildrenIn /\ TypesIn' = TypesIn /\ FieldsIn' = FieldsIn
    BY <1>11, SameClients
  <2>2. bytes' = bytes + KeyBytes(t) + TraceBytes
    BY <1>4, <1>11 DEF AddedAsTrace
  <2>3. bytes' = Cardinality(DOMAIN report') * StringBytes + Cardinality(EncodedIn') * TraceBytes
                 + c * twenty + h * four + y * StringBytes + f * ten
    BY <1>2, <1>3, <1>8, <1>9, <1>10, <1>11, <2>2
  <2>4. EstimateFitsContent'
    BY <2>1, <2>3 DEF EstimateFitsContent, c, h, y, f, four, twenty, ten
  <2>. QED
    BY <1>1, <1>6, <2>1, <2>4 DEF SizeInv
<1>12. CASE ~AsTrace(t)
  <2>. DEFINE s == StatsAt(key, Trace[t].client)
              counted == AddToStats([stats |-> s, bytes |-> bytes + KeyBytes(t) + ClientBytes(t)], t)
              after == counted.stats
              who == <<key, Trace[t].client>>
              hs == Cardinality(Children(s))
              ha == Cardinality(Children(after))
              ys == Cardinality(Types(s))
              ya == Cardinality(Types(after))
              fs == Cardinality(DOMAIN s.fields)
              fa == Cardinality(DOMAIN after.fields)
  <2>1. bytes' = counted.bytes + (IF include THEN TraceBytes ELSE 0)
    BY <1>4, <1>12 DEF AddedToStats
  <2>2. /\ PairsAdded(ChildrenOf, ChildrenOf', Children(s), Children(after))
        /\ PairsAdded(TypesOf, TypesOf', Types(s), Types(after))
        /\ PairsAdded(FieldsOf, FieldsOf', DOMAIN s.fields, DOMAIN after.fields)
        /\ counted.bytes \in Int
        /\ counted.bytes - Weight(after) = (bytes + KeyBytes(t) + ClientBytes(t)) - Weight(s)
    BY <1>12, PiecesGrow
  <2>3. ClientsIn' = ClientsIn \cup {who} /\ (who \in ClientsIn <=> ClientBytes(t) = 0)
    <3>1. /\ s = StatsAt(Trace[t].key, Trace[t].client)
          /\ counted = AddToStats([stats |-> s, bytes |-> bytes + KeyBytes(t) + ClientBytes(t)], t)
          /\ who = <<Trace[t].key, Trace[t].client>>
      OBVIOUS
    <3>. HIDE DEF s, counted, who
    <3>. QED
      BY <1>12, <3>1, ClientsGrow
  <2>. HIDE DEF counted, s, who
  <2>4. /\ Weight(s) = hs * four + ys * StringBytes + fs * ten
        /\ Weight(after) = ha * four + ya * StringBytes + fa * ten
    BY DEF Weight, four, ten
  <2>5. /\ IsFiniteSet(ChildrenIn') /\ IsFiniteSet(TypesIn') /\ IsFiniteSet(FieldsIn')
        /\ Cardinality(ChildrenIn') = h + ha - hs
        /\ Cardinality(TypesIn') = y + ya - ys
        /\ Cardinality(FieldsIn') = f + fa - fs
        /\ hs \in Int /\ ha \in Int /\ ys \in Int /\ ya \in Int /\ fs \in Int /\ fa \in Int
    BY <2>2, PiecesArePairs, PiecesArePairsNow DEF PairsAdded, h, y, f
  <2>6. IsFiniteSet(ClientsIn') /\ Cardinality(ClientsIn') * twenty = c * twenty + ClientBytes(t)
        /\ ClientBytes(t) \in Int
    <3>1. ClientBytes(t) \in {0, twenty} /\ twenty # 0
      BY StatsAssumption DEF ClientBytes, twenty, StatsAssumption
    <3>2. IsFiniteSet(ClientsIn') /\ Cardinality(ClientsIn') = c + (IF ClientBytes(t) = 0 THEN 0 ELSE 1)
      BY <1>1, <2>3, FS_AddElement DEF c
    <3>3. (c + 0) * twenty = c * twenty + 0 /\ (c + 1) * twenty = c * twenty + twenty
      BY <1>1, <1>2, <1>7
    <3>. QED
      BY <1>2, <3>1, <3>2, <3>3
  <2>. HIDE DEF hs, ha, ys, ya, fs, fa
  <2>7. /\ Cardinality(ChildrenIn') * four = h * four + ha * four - hs * four
        /\ Cardinality(TypesIn') * StringBytes = y * StringBytes + ya * StringBytes - ys * StringBytes
        /\ Cardinality(FieldsIn') * ten = f * ten + fa * ten - fs * ten
    <3>1. \A i, p, q, b \in Int : (i + q - p) * b = i * b + q * b - p * b
      OBVIOUS
    <3>. QED
      BY <1>1, <1>2, <2>5, <3>1
  <2>8. /\ hs * four \in Int /\ ha * four \in Int /\ ys * StringBytes \in Int
        /\ ya * StringBytes \in Int /\ fs * ten \in Int /\ fa * ten \in Int
    BY <1>2, <1>7, <2>5
  <2>9. bytes \in Int
    BY DEF ContentInv
  <2>10. counted.bytes = (bytes + KeyBytes(t) + ClientBytes(t))
           + (ha * four - hs * four) + (ya * StringBytes - ys * StringBytes) + (fa * ten - fs * ten)
    <3>1. \A u, w, a1, a2, a3, b1, b2, b3 \in Int :
            u - (a1 + a2 + a3) = w - (b1 + b2 + b3) =>
              u = w + (a1 - b1) + (a2 - b2) + (a3 - b3)
      OBVIOUS
    <3>2. bytes + KeyBytes(t) + ClientBytes(t) \in Int
      BY <1>8, <2>6, <2>9
    <3>3. counted.bytes - (ha * four + ya * StringBytes + fa * ten)
            = (bytes + KeyBytes(t) + ClientBytes(t)) - (hs * four + ys * StringBytes + fs * ten)
      BY <2>2, <2>4
    <3>. QED
      BY <2>2, <2>8, <3>1, <3>2, <3>3
  <2>11. bytes' = Cardinality(DOMAIN report') * StringBytes + Cardinality(EncodedIn') * TraceBytes
                  + Cardinality(ClientsIn') * twenty + Cardinality(ChildrenIn') * four
                  + Cardinality(TypesIn') * StringBytes + Cardinality(FieldsIn') * ten
    BY <1>2, <1>3, <1>8, <1>9, <1>10, <1>12, <2>1, <2>6, <2>7, <2>8, <2>10
  <2>12. EstimateFitsContent'
    BY <2>11 DEF EstimateFitsContent, four, twenty, ten
  <2>. QED
    BY <1>6, <2>5, <2>6, <2>12 DEF SizeInv
<1>. QED
  BY <1>11, <1>12

-----------------------------------------------------------------------------
(* A report is that of its traces.                                         *)

\* A report without a key has no pieces.
LEMMA EmptyReport ==
  ASSUME report = << >>, bytes = 0 PROVE ContentInv /\ SizeInv
<1>1. DOMAIN report = {} /\ IsFiniteSet({}) /\ Cardinality({}) = 0
  BY FS_EmptySet
<1>2. ContentInv
  BY <1>1 DEF ContentInv
<1>3. EncodedIn = {} /\ ClientsIn = {}
  BY <1>1 DEF EncodedIn, ClientsIn
<1>4. ChildrenIn = {} /\ TypesIn = {} /\ FieldsIn = {}
  BY <1>3 DEF ChildrenIn, TypesIn, FieldsIn
<1>5. \A b \in Nat : 0 * b = 0
  OBVIOUS
<1>6. /\ StringBytes \in Nat /\ TraceBytes \in Nat /\ 20 + 3 * StringBytes \in Nat
      /\ StringBytes + 4 \in Nat /\ 2 * StringBytes + 10 \in Nat
  BY StatsAssumption DEF StatsAssumption
<1>7. EstimateFitsContent
  BY <1>1, <1>3, <1>4, <1>5, <1>6 DEF EstimateFitsContent
<1>. QED
  BY <1>1, <1>2, <1>3, <1>4, <1>7 DEF SizeInv

\* The same of the next state.
LEMMA EmptyReportNow ==
  ASSUME report' = << >>, bytes' = 0 PROVE ContentInv' /\ SizeInv'
<1>1. DOMAIN report' = {} /\ IsFiniteSet({}) /\ Cardinality({}) = 0
  BY FS_EmptySet
<1>2. ContentInv'
  BY <1>1 DEF ContentInv
<1>3. EncodedIn' = {} /\ ClientsIn' = {}
  BY <1>1 DEF EncodedIn, ClientsIn
<1>4. ChildrenIn' = {} /\ TypesIn' = {} /\ FieldsIn' = {}
  BY <1>3 DEF ChildrenIn, TypesIn, FieldsIn
<1>5. \A b \in Nat : 0 * b = 0
  OBVIOUS
<1>6. /\ StringBytes \in Nat /\ TraceBytes \in Nat /\ 20 + 3 * StringBytes \in Nat
      /\ StringBytes + 4 \in Nat /\ 2 * StringBytes + 10 \in Nat
  BY StatsAssumption DEF StatsAssumption
<1>7. EstimateFitsContent'
  BY <1>1, <1>3, <1>4, <1>5, <1>6 DEF EstimateFitsContent
<1>. QED
  BY <1>1, <1>2, <1>3, <1>4, <1>7 DEF SizeInv

\* Nothing changes when the report does not.
LEMMA SameReport ==
  ASSUME ContentInv, SizeInv, report' = report, bytes' = bytes, addedAs' = addedAs,
         inReport' = inReport
  PROVE  ContentInv' /\ SizeInv'
<1>1. \A k, c : Counted(k, c)' = Counted(k, c)
  BY DEF Counted
<1>2. ContentInv'
  BY <1>1 DEF ContentInv
<1>3. EncodedIn' = EncodedIn /\ ClientsIn' = ClientsIn
  BY DEF EncodedIn, ClientsIn
<1>4. ChildrenIn' = ChildrenIn /\ TypesIn' = TypesIn /\ FieldsIn' = FieldsIn
  BY <1>3 DEF ChildrenIn, TypesIn, FieldsIn, StatsOf
<1>. QED
  BY <1>2, <1>3, <1>4 DEF SizeInv, EstimateFitsContent

\* Every step keeps the report that of its traces, and its estimate right.
LEMMA ContentNextInv ==
  StatsInv /\ ContentInv /\ SizeInv /\ [StatsNext]_statsVars => ContentInv' /\ SizeInv'
<1>. SUFFICES ASSUME StatsInv, ContentInv, SizeInv, [StatsNext]_statsVars
              PROVE  ContentInv' /\ SizeInv'
  OBVIOUS
<1>1. ASSUME NEW t \in Recorded, FileTrace(t) PROVE ContentInv' /\ SizeInv'
  BY <1>1, ContentStep, SizeStep
<1>2. ASSUME NEW kind \in seen, Evict(kind) PROVE ContentInv' /\ SizeInv'
  BY <1>2, SameReport DEF Evict
<1>3. CASE Reset
  BY <1>3, EmptyReportNow DEF Reset
<1>4. CASE TracesIgnored \/ UNCHANGED statsVars
  BY <1>4, SameReport DEF TracesIgnored, statsVars
<1>. QED
  BY <1>1, <1>2, <1>3, <1>4 DEF StatsNext

\* Each of these traces is counted once, and a reader finds it.
CountedOnce(s, C) ==
  /\ s.requests = Cardinality(C)
  /\ SumOf(Read(s.latency)) + s.cacheHits = s.requests
  /\ SumOf(Read(s.cacheLatency)) = s.cacheHits
  /\ SumOf(s.publicTtl) + SumOf(s.privateTtl) <= SumOf(s.latency)
  /\ s.withErrors = Cardinality({t \in C : HasErrors[t]})
  /\ \A b \in 0 .. BucketCount - 1 :
       /\ Has(Read(s.latency), b) = Cardinality({t \in C :
            ~Trace[t].cacheHit /\ DurationToBucket(Trace[t].duration) = b})
       /\ Has(Read(s.cacheLatency), b) = Cardinality({t \in C :
            Trace[t].cacheHit /\ DurationToBucket(Trace[t].duration) = b})
  /\ \A h \in {s.publicTtl, s.privateTtl} \cup {s.fields[id].latency : id \in DOMAIN s.fields} :
       \A b \in 0 .. BucketCount - 1 : Has(Read(h), b) = Has(h, b)

\* What fits these traces counts them once for whoever reads it.
LEMMA CountsAreReadBack ==
  ASSUME NEW s, NEW C, FitsTraces(s, C)
  PROVE  CountedOnce(s, C)
<1>1. IsStats(s) /\ CountsFit(s, C)
  BY DEF FitsTraces
<1>2. /\ IsHistogram(s.latency) /\ IsHistogram(s.cacheLatency)
      /\ IsHistogram(s.publicTtl) /\ IsHistogram(s.privateTtl)
      /\ s.requests = Cardinality(C)
      /\ SumOf(s.latency) + s.cacheHits = s.requests
      /\ SumOf(s.cacheLatency) = s.cacheHits
      /\ SumOf(s.publicTtl) + SumOf(s.privateTtl) <= SumOf(s.latency)
      /\ s.withErrors = Cardinality({t \in C : HasErrors[t]})
  BY <1>1 DEF CountsFit
<1>3. ASSUME NEW h, IsHistogram(h)
      PROVE  /\ SumOf(Read(h)) = SumOf(h)
             /\ \A b \in 0 .. BucketCount - 1 : Has(Read(h), b) = Has(h, b)
  <2>1. h \in Seq(Nat)
    BY <1>3 DEF IsHistogram
  <2>2. \A b \in 0 .. BucketCount - 1 : b \in Nat
    BY StatsAssumption DEF StatsAssumption
  <2>. QED
    BY <2>1, <2>2, SumIsReadBack, HistogramIsReadBack
<1>4. \A b \in 0 .. BucketCount - 1 :
        /\ Has(Read(s.latency), b) = Cardinality(Missed(C, b))
        /\ Has(Read(s.cacheLatency), b) = Cardinality(Hit(C, b))
  BY <1>1, <1>2, <1>3 DEF CountsFit
<1>5. \A h \in {s.publicTtl, s.privateTtl} \cup {s.fields[id].latency : id \in DOMAIN s.fields} :
        IsHistogram(h)
  BY <1>1, <1>2 DEF IsStats
<1>. QED
  BY <1>2, <1>3, <1>4, <1>5 DEF CountedOnce, Missed, Hit

\* What the invariants say of each of the properties.
LEMMA ContentCountsOnce == ContentInv => TracesAreCountedOnce
<1>. SUFFICES ASSUME ContentInv PROVE TracesAreCountedOnce
  OBVIOUS
<1>1. ASSUME NEW key \in DOMAIN report, NEW client \in DOMAIN report[key].stats
      PROVE  CountedOnce(report[key].stats[client], Counted(key, client))
  BY CountsAreReadBack DEF ContentInv
<1>. QED
  BY <1>1 DEF TracesAreCountedOnce, CountedOnce

\* The errors and the fields are those of the visits of these traces.
LEMMA ContentIsAtItsPlace == ContentInv => ErrorsAreAtTheirPlace
  BY DEF ContentInv, FitsTraces, ErrorsAreAtTheirPlace

\* The estimate is the size of the pieces.
LEMMA SizeFits == SizeInv => EstimateFitsContent
  BY DEF SizeInv

\* A report says of its traces what they say, and its estimate is its size.
LEMMA ContentInvariance == StatsSpec => [](ContentInv /\ SizeInv)
<1>1. StatsInit => ContentInv /\ SizeInv
  BY EmptyReport DEF StatsInit
<1>. QED
  BY <1>1, ContentNextInv, StatsInvariance, PTL DEF StatsSpec

\* The statistics of a key and client count each of its traces once, whatever traces
\* come, in any order, and whichever of them go as traces; and a reader of the
\* compressed histograms finds each count in its bucket.
THEOREM CountsOnce == StatsSpec => []TracesAreCountedOnce
  BY ContentInvariance, ContentCountsOnce, PTL

\* Whatever the trees and the query plans of the traces, every error is counted once
\* at its path, and every resolver that ended, with its errors, at its field.
THEOREM ErrorsAtTheirPlace == StatsSpec => []ErrorsAreAtTheirPlace
  BY ContentInvariance, ContentIsAtItsPlace, PTL

\* The estimate that decides when a report is sent, kept by adding up what is new, is
\* at any time the size of what the report has.
THEOREM EstimateFits == StatsSpec => []EstimateFitsContent
  BY ContentInvariance, SizeFits, PTL
=============================================================================

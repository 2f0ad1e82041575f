------------------------------ MODULE UsageStats ------------------------------
(***************************************************************************)
(* What a usage report says: a trace is added to it as such, or is counted *)
(* in the statistics of its operation and client.                          *)
(*                                                                         *)
(* Names, types, keys and clients are strings of one length.               *)
(***************************************************************************)
EXTENDS Integers, Sequences, FiniteSets, SequencesExt

CONSTANTS
  Recorded,    \* the traces that come, in any order
  Trace,       \* what each trace says
  Nodes, Node, \* the nodes of their trees
  Plans, Plan, \* the nodes of their query plans
  None,        \* no node
  BucketCount, \* DurationHistogram.BUCKET_COUNT
  InitSize,    \* the size a histogram starts with
  StringBytes, \* the size of a string and its tag
  TraceBytes   \* the size of the bytes of a trace, and 2

ASSUME StatsAssumption ==
  /\ BucketCount \in Nat \ {0} /\ InitSize \in 0 .. BucketCount
  /\ StringBytes \in Nat /\ TraceBytes \in Nat
  /\ None \notin Nodes \cup Plans
  /\ DOMAIN Trace = Recorded /\ DOMAIN Node = Nodes /\ DOMAIN Plan = Plans
  /\ \A t \in Recorded :
       /\ Trace[t].endTime \in Nat /\ Trace[t].duration \in Int /\ Trace[t].maxAge \in Int
       /\ Trace[t].cacheHit \in BOOLEAN
       /\ Trace[t].root \in Nodes \cup {None} /\ Trace[t].queryPlan \in Plans \cup {None}

\* Trees and plans have no cycles: what a node has below it has lower numbers. A
\* node has all that tells its field, or nothing.
ASSUME TreeAssumption ==
  /\ Nodes \subseteq Nat /\ Plans \subseteq Nat
  /\ \A n \in Nodes :
       /\ Node[n].responseName \in STRING
       /\ Node[n].children \in Seq({m \in Nodes : m < n})
       /\ Node[n].errors \in Nat /\ Node[n].start \in Int /\ Node[n].end \in Int
       /\ Node[n].parentType # "" => Node[n].type # "" /\ Node[n].responseName # ""
  /\ \A p \in Plans :
       /\ Plan[p].kind \in {"fetch", "flatten", "parallel", "sequence"}
       /\ Plan[p].root \in Nodes \cup {None} /\ Plan[p].service \in STRING
       /\ Plan[p].node \in {q \in Plans : q < p} \cup {None}
       /\ Plan[p].nodes \in Seq({q \in Plans : q < p})

-----------------------------------------------------------------------------
(* Histograms.                                                             *)

\* The bucket of a duration, given the logarithm that the code takes of it
\* ("NaN" is a number below 0 here).
DurationToBucket(log) ==
  IF log <= 0 THEN 0 ELSE IF log >= BucketCount THEN BucketCount - 1 ELSE log

EmptyHistogram == [i \in 1 .. InitSize |-> 0]

\* The sequence is extended when it is too short for the bucket.
IncrementBucket(h, bucket, value) ==
  LET length == IF bucket >= Len(h) THEN bucket + 1 ELSE Len(h) IN
  [i \in 1 .. length |->
     (IF i <= Len(h) THEN h[i] ELSE 0) + (IF i = bucket + 1 THEN value ELSE 0)]

IncrementDuration(h, log) == IncrementBucket(h, DurationToBucket(log), 1)

\* Wrong on purpose: a run of zeros is written one too short.
ZeroesShort(n) == IF n = 0 THEN << >> ELSE IF n = 1 THEN << 0 >> ELSE << 1 - n >>

\* Runs of zeros are written as one negative number.
Zeroes(n) == IF n = 0 THEN << >> ELSE IF n = 1 THEN << 0 >> ELSE << -n >>

WriteValue(done, value) ==
  IF value = 0 THEN [zeroes |-> done.zeroes + 1, out |-> done.out]
  ELSE [zeroes |-> 0, out |-> done.out \o Zeroes(done.zeroes) \o << value >>]

\* What is written after each value, and the zeros since; the last run is not.
Written(h) ==
  LET written[i \in 0 .. Len(h)] ==
        IF i = 0 THEN [zeroes |-> 0, out |-> << >>] ELSE WriteValue(written[i - 1], h[i])
  IN  written

ToArray(h) == Written(h)[Len(h)].out

-----------------------------------------------------------------------------
(* iterateOverTrace(): the nodes of a trace in the order of the walk, each *)
(* with its path of response names.                                        *)
Under(name, visits) ==
  [i \in DOMAIN visits |-> [visits[i] EXCEPT !.path = << name >> \o @]]

NodeVisits[n \in Nodes] ==
  LET Child(i) ==
        LET child == Node[n].children[i] IN
        IF Node[child].responseName = "" THEN NodeVisits[child]
        ELSE Under(Node[child].responseName, NodeVisits[child])
  IN  << [node |-> n, path |-> << >>] >>
      \o FlattenSeq([i \in DOMAIN Node[n].children |-> Child(i)])

\* The nodes of a plan below one of them that is not a fetch.
Steps(p) ==
  IF Plan[p].kind # "flatten" THEN Plan[p].nodes
  ELSE IF Plan[p].node = None THEN << >> ELSE << Plan[p].node >>

PlanVisits[p \in Plans] ==
  IF Plan[p].kind # "fetch" THEN FlattenSeq([i \in DOMAIN Steps(p) |-> PlanVisits[Steps(p)[i]]])
  ELSE IF Plan[p].root = None \/ Plan[p].service = "" THEN << >>
  ELSE Under(Plan[p].service, NodeVisits[Plan[p].root])

Visits == [t \in Recorded |->
  (IF Trace[t].root = None THEN << >> ELSE NodeVisits[Trace[t].root])
  \o (IF Trace[t].queryPlan = None THEN << >> ELSE PlanVisits[Trace[t].queryPlan])]

HasErrors == [t \in Recorded |->
  \E i \in DOMAIN Visits[t] : Node[Visits[t][i].node].errors > 0]

-----------------------------------------------------------------------------
(* The statistics of one operation and client.                             *)
NoErrors == [errors |-> 0, requests |-> 0]

EmptyStats ==
  [requests |-> 0, cacheHits |-> 0, persistedHits |-> 0, persistedMisses |-> 0,
   registered |-> 0, forbidden |-> 0, withErrors |-> 0,
   latency |-> EmptyHistogram, cacheLatency |-> EmptyHistogram,
   publicTtl |-> EmptyHistogram, privateTtl |-> EmptyHistogram,
   paths |-> [p \in {<< >>} |-> NoErrors],  \* the tree of rootErrorStats
   fields |-> << >>]                        \* perTypeStat and perFieldStat, by both names

\* Pairs of statistics and of the estimate of the size of the report.
PathPrefixes(path) == {SubSeq(path, 1, i) : i \in 0 .. Len(path)}

\* Wrong on purpose: only the last of the new paths is counted.
AddErrorsLeafOnly(acc, visit) ==
  LET errors == Node[visit.node].errors
      new == PathPrefixes(visit.path) \ DOMAIN acc.stats.paths
      tree == [p \in DOMAIN acc.stats.paths \cup new |->
                 IF p \in new THEN NoErrors ELSE acc.stats.paths[p]]
  IN  IF errors = 0 THEN acc
      ELSE [stats |-> [acc.stats EXCEPT
                         !.paths = [tree EXCEPT ![visit.path] =
                                      [errors |-> @.errors + errors,
                                       requests |-> @.requests + 1]]],
            bytes |-> acc.bytes + (IF new = {} THEN 0 ELSE StringBytes + 4)]

AddErrors(acc, visit) ==
  LET errors == Node[visit.node].errors
      new == PathPrefixes(visit.path) \ DOMAIN acc.stats.paths
      tree == [p \in DOMAIN acc.stats.paths \cup new |->
                 IF p \in new THEN NoErrors ELSE acc.stats.paths[p]]
  IN  IF errors = 0 THEN acc
      ELSE [stats |-> [acc.stats EXCEPT
                         !.paths = [tree EXCEPT ![visit.path] =
                                      [errors |-> @.errors + errors,
                                       requests |-> @.requests + 1]]],
            bytes |-> acc.bytes + Cardinality(new) * (StringBytes + 4)]

FieldName(n) == IF Node[n].originalFieldName # "" THEN Node[n].originalFieldName
                ELSE Node[n].responseName

\* Wrong on purpose: nodes that have not ended are counted as well.
IsFieldOpen(n) == Node[n].parentType # "" /\ FieldName(n) # "" /\ Node[n].type # ""

\* A resolver's node that has ended.
IsField(n) ==
  /\ Node[n].parentType # "" /\ FieldName(n) # "" /\ Node[n].type # ""
  /\ Node[n].end >= Node[n].start

NewField(n) ==
  [returnType |-> Node[n].type, errors |-> 0, count |-> 0, withErrors |-> 0,
   latency |-> EmptyHistogram]

AddField(acc, visit) ==
  LET n == visit.node
      id == << Node[n].parentType, FieldName(n) >>
      fields == acc.stats.fields
      isNew == id \notin DOMAIN fields
      newType == \A other \in DOMAIN fields : other[1] # id[1]
      old == IF isNew THEN NewField(n) ELSE fields[id]
      field == [old EXCEPT !.errors = @ + Node[n].errors,
                           !.count = @ + 1,
                           !.withErrors = @ + (IF Node[n].errors > 0 THEN 1 ELSE 0),
                           !.latency = IncrementDuration(@, Node[n].end - Node[n].start)]
  IN  IF ~IsField(n) THEN acc
      ELSE [stats |-> [acc.stats EXCEPT
                         !.fields = [i \in DOMAIN fields \cup {id} |->
                                       IF i = id THEN field ELSE fields[i]]],
            bytes |-> acc.bytes + (IF newType THEN StringBytes ELSE 0)
                                + (IF isNew THEN 2 * StringBytes + 10 ELSE 0)]

AddNode(acc, visit) == AddField(AddErrors(acc, visit), visit)

Plus(n, holds) == n + (IF holds THEN 1 ELSE 0)

\* OurContextualizedStats.addTrace(): the counters, then the walk.
CountRequest(stats, t) ==
  LET trace == Trace[t]
      Ttl(h, scope) == IF ~trace.cacheHit /\ trace.scope = scope
                       THEN IncrementDuration(h, trace.maxAge) ELSE h
  IN  [stats EXCEPT
         !.requests = @ + 1,
         !.cacheHits = Plus(@, trace.cacheHit),
         !.latency = IF trace.cacheHit THEN @ ELSE IncrementDuration(@, trace.duration),
         !.cacheLatency = IF trace.cacheHit THEN IncrementDuration(@, trace.duration) ELSE @,
         !.publicTtl = Ttl(@, "public"),
         !.privateTtl = Ttl(@, "private"),
         !.persistedHits = Plus(@, trace.persistedHit),
         !.persistedMisses = Plus(@, trace.persistedRegister),
         !.registered = Plus(@, trace.registered),
         !.forbidden = Plus(@, trace.forbidden),
         !.withErrors = Plus(@, HasErrors[t])]

\* What a walk has added after each of its nodes.
Walked(acc, visits) ==
  LET walked[i \in 0 .. Len(visits)] ==
        IF i = 0 THEN acc ELSE AddNode(walked[i - 1], visits[i])
  IN  walked

AddToStats(acc, t) ==
  Walked([acc EXCEPT !.stats = CountRequest(@, t)], Visits[t])[Len(Visits[t])]

-----------------------------------------------------------------------------
(* The report and what decides how a trace is added to it.                 *)
VARIABLES
  report,    \* tracesPerQuery: the traces, the statistics of each client and the
             \* contributing traces under each key
  bytes,     \* the estimate of its size
  seen,      \* the cache of defaultSendOperationsAsTrace
  supported, \* graphMightSupportTraces
  include,   \* internal_includeTracesContributingToStats
  addedAs,   \* history: each trace, "trace", "stats", or "none"
  inReport   \* history: the traces of this report

statsVars == <<report, bytes, seen, supported, include, addedAs, inReport>>

StatsInit ==
  /\ report = << >> /\ bytes = 0
  /\ seen = {} /\ supported = TRUE
  /\ include \in BOOLEAN
  /\ addedAs = [t \in Recorded |-> "none"]
  /\ inReport = {}

\* Wrong on purpose: traces with errors are like the others.
KindNoErrors(t) ==
  << Trace[t].key, DurationToBucket(Trace[t].duration), Trace[t].endTime \div 60, -1 >>

\* Traces of one kind are alike: one of them is enough in a minute, or in five
\* seconds when they have errors.
Kind(t) ==
  << Trace[t].key, DurationToBucket(Trace[t].duration), Trace[t].endTime \div 60,
     IF HasErrors[t] THEN Trace[t].endTime \div 5 ELSE -1 >>

EmptyTracesAndStats == [trace |-> << >>, stats |-> << >>, contributing |-> << >>]

\* OurReport.addTrace(), and sendOperationAsTrace(), which is asked only while the
\* graph may support traces.
FileTrace(t) ==
  LET key == Trace[t].key
      client == Trace[t].client
      newKey == key \notin DOMAIN report
      entry == IF newKey THEN EmptyTracesAndStats ELSE report[key]
      keyBytes == IF newKey THEN StringBytes ELSE 0
      asTrace == supported /\ Kind(t) \notin seen
      newClient == client \notin DOMAIN entry.stats
      start == [stats |-> IF newClient THEN EmptyStats ELSE entry.stats[client],
                bytes |-> bytes + keyBytes
                          + (IF newClient THEN 20 + 3 * StringBytes ELSE 0)]
      counted == AddToStats(start, t)
      newEntry ==
        IF asTrace THEN [entry EXCEPT !.trace = Append(@, t)]
        ELSE [entry EXCEPT
                !.stats = [c \in DOMAIN @ \cup {client} |->
                             IF c = client THEN counted.stats ELSE @[c]],
                !.contributing = IF include THEN Append(@, t) ELSE @]
  IN  /\ addedAs[t] = "none"
      /\ seen' = IF supported THEN seen \cup {Kind(t)} ELSE seen
      /\ addedAs' = [addedAs EXCEPT ![t] = IF asTrace THEN "trace" ELSE "stats"]
      /\ inReport' = inReport \cup {t}
      /\ report' = [k \in DOMAIN report \cup {key} |-> IF k = key THEN newEntry ELSE report[k]]
      /\ bytes' = IF asTrace THEN bytes + keyBytes + TraceBytes
                  ELSE counted.bytes + (IF include THEN TraceBytes ELSE 0)
      /\ UNCHANGED <<supported, include>>

\* The least recently used entry leaves the cache when it is full.
Evict(kind) ==
  /\ seen' = seen \ {kind}
  /\ UNCHANGED <<report, bytes, supported, include, addedAs, inReport>>

\* Wrong on purpose: only the size starts again.
ResetSizeOnly ==
  /\ report # << >>
  /\ bytes' = 0 /\ inReport' = {}
  /\ UNCHANGED <<report, seen, supported, include, addedAs>>

\* reportData.reset() in sendReport().
Reset ==
  /\ report # << >>
  /\ report' = << >> /\ bytes' = 0 /\ inReport' = {}
  /\ UNCHANGED <<seen, supported, include, addedAs>>

\* An answer says that the graph's traces are ignored.
TracesIgnored ==
  /\ supported
  /\ supported' = FALSE
  /\ UNCHANGED <<report, bytes, seen, include, addedAs, inReport>>

StatsNext ==
  \/ \E t \in Recorded : FileTrace(t)
  \/ \E kind \in seen : Evict(kind)
  \/ Reset
  \/ TracesIgnored

StatsSpec == StatsInit /\ [][StatsNext]_statsVars

-----------------------------------------------------------------------------
Counted(key, client) ==
  {t \in inReport : addedAs[t] = "stats" /\ Trace[t].key = key /\ Trace[t].client = client}
\* The visits of all these traces, as pairs of a trace and an index.
VisitsOf(S) == UNION {{<<t, i>> : i \in DOMAIN Visits[t]} : t \in S}
VisitOf(v) == Visits[v[1]][v[2]]
Errors(v) == Node[VisitOf(v).node].errors
\* The errors of these visits, as pairs of a visit and a number.
ErrorsOf(S) == UNION {{v} \X (1 .. Errors(v)) : v \in S}

\* The entries of a histogram, as pairs of a place and a number.
EntriesOf(h) == UNION {{i} \X (1 .. h[i]) : i \in DOMAIN h}
SumOf(h) == Cardinality(EntriesOf(h))
Has(h, bucket) == IF bucket < Len(h) THEN h[bucket + 1] ELSE 0

\* What a reader has made of the array of a histogram after each number.
Run(n) == IF n < 0 THEN [j \in 1 .. -n |-> 0] ELSE << n >>
Expanded(array) ==
  LET expanded[i \in 0 .. Len(array)] ==
        IF i = 0 THEN << >> ELSE expanded[i - 1] \o Run(array[i])
  IN  expanded
Expand(array) == Expanded(array)[Len(array)]

Read(h) == Expand(ToArray(h))

\* The traces of a report, in whatever order they came and whether or not their
\* key and client were there, are all in it: each once among the traces of its
\* key, or in the statistics of its key and client; and no other is.
TracesAreFiled ==
  /\ \A key \in DOMAIN report :
       /\ ToSet(report[key].trace) =
            {t \in inReport : addedAs[t] = "trace" /\ Trace[t].key = key}
       /\ IsInjective(report[key].trace)
  /\ \A t \in inReport :
       /\ Trace[t].key \in DOMAIN report
       /\ addedAs[t] \in {"trace", "stats"}
       /\ addedAs[t] = "stats" => Trace[t].client \in DOMAIN report[Trace[t].key].stats

\* The statistics of a key and client count each of its traces once, and the
\* reader of the histograms finds every count in its bucket.
TracesAreCountedOnce ==
  \A key \in DOMAIN report : \A client \in DOMAIN report[key].stats :
    LET s == report[key].stats[client] IN
    /\ s.requests = Cardinality(Counted(key, client))
    /\ SumOf(Read(s.latency)) + s.cacheHits = s.requests
    /\ SumOf(Read(s.cacheLatency)) = s.cacheHits
    /\ SumOf(s.publicTtl) + SumOf(s.privateTtl) <= SumOf(s.latency)
    /\ s.withErrors = Cardinality({t \in Counted(key, client) : HasErrors[t]})
    /\ \A b \in 0 .. BucketCount - 1 :
         /\ Has(Read(s.latency), b) = Cardinality({t \in Counted(key, client) :
              ~Trace[t].cacheHit /\ DurationToBucket(Trace[t].duration) = b})
         /\ Has(Read(s.cacheLatency), b) = Cardinality({t \in Counted(key, client) :
              Trace[t].cacheHit /\ DurationToBucket(Trace[t].duration) = b})
    /\ \A h \in {s.publicTtl, s.privateTtl} \cup {s.fields[id].latency : id \in DOMAIN s.fields} :
         \A b \in 0 .. BucketCount - 1 : Has(Read(h), b) = Has(h, b)

\* Every error of these visits is at its path, and the tree has the paths to them and
\* no others.
PathsFit(paths, all) ==
  LET failed == {v \in all : Errors(v) > 0} IN
  /\ DOMAIN paths = {<< >>} \cup UNION {PathPrefixes(VisitOf(v).path) : v \in failed}
  /\ \A p \in DOMAIN paths :
       LET here == {v \in failed : VisitOf(v).path = p} IN
       paths[p] = [errors |-> Cardinality(ErrorsOf(here)), requests |-> Cardinality(here)]

\* A resolver's visit that ended, and its field.
HasEnded(v) ==
  LET n == VisitOf(v).node IN Node[n].parentType # "" /\ Node[n].end >= Node[n].start
FieldOf(v) == << Node[VisitOf(v).node].parentType, FieldName(VisitOf(v).node) >>

\* Every resolver's visit that ended, and its errors, are at its field.
FieldsFit(fields, all) ==
  LET ended == {v \in all : HasEnded(v)} IN
  /\ DOMAIN fields = {FieldOf(v) : v \in ended}
  /\ \A id \in DOMAIN fields :
       LET here == {v \in ended : FieldOf(v) = id} IN
       /\ fields[id].count = Cardinality(here)
       /\ fields[id].errors = Cardinality(ErrorsOf(here))
       /\ fields[id].withErrors = Cardinality({v \in here : Errors(v) > 0})
       /\ SumOf(fields[id].latency) = Cardinality(here)

\* Every error of a counted trace is at its path and, where it is a field's, at its
\* field.
ErrorsAreAtTheirPlace ==
  \A key \in DOMAIN report : \A client \in DOMAIN report[key].stats :
    LET s == report[key].stats[client]
        all == VisitsOf(Counted(key, client))
    IN  PathsFit(s.paths, all) /\ FieldsFit(s.fields, all)

\* The pieces of the report that its size is made of.
EncodedIn ==
  UNION {{key} \X (({"trace"} \X DOMAIN report[key].trace)
                   \cup ({"contributing"} \X DOMAIN report[key].contributing)) :
           key \in DOMAIN report}
ClientsIn == UNION {{key} \X DOMAIN report[key].stats : key \in DOMAIN report}
StatsOf(c) == report[c[1]].stats[c[2]]
Children(s) == DOMAIN s.paths \ {<< >>}
Types(s) == {id[1] : id \in DOMAIN s.fields}
ChildrenIn == UNION {{c} \X Children(StatsOf(c)) : c \in ClientsIn}
TypesIn == UNION {{c} \X Types(StatsOf(c)) : c \in ClientsIn}
FieldsIn == UNION {{c} \X DOMAIN StatsOf(c).fields : c \in ClientsIn}

\* The estimate, kept up to date one piece at a time, is the size of what the
\* report has, computed at once.
EstimateFitsContent ==
  bytes = Cardinality(DOMAIN report) * StringBytes
          + Cardinality(EncodedIn) * TraceBytes
          + Cardinality(ClientsIn) * (20 + 3 * StringBytes)
          + Cardinality(ChildrenIn) * (StringBytes + 4)
          + Cardinality(TypesIn) * StringBytes
          + Cardinality(FieldsIn) * (2 * StringBytes + 10)

Alike(t, u) ==
  /\ Trace[t].key = Trace[u].key
  /\ DurationToBucket(Trace[t].duration) = DurationToBucket(Trace[u].duration)
  /\ HasErrors[t] = HasErrors[u]
  /\ Trace[t].endTime \div 60 = Trace[u].endTime \div 60
  /\ HasErrors[t] => Trace[t].endTime \div 5 = Trace[u].endTime \div 5

\* While traces are supported, the first trace of its kind is reported as a trace:
\* a trace is reduced to statistics only when one like it, and as erroneous, has
\* been reported.
FirstOfItsKindIsATrace ==
  [][\A t \in Recorded :
       addedAs[t] = "none" /\ addedAs'[t] = "stats" /\ supported =>
         \E u \in Recorded : addedAs[u] = "trace" /\ Alike(t, u)]_statsVars
=============================================================================

----------------------------- MODULE ReportFormat -----------------------------
(***************************************************************************)
(* The messages of the usage reports and their code: how a message is      *)
(* verified, encoded, decoded and printed.  The generated code has these   *)
(* functions once per message type; here each type is the set of its       *)
(* fields, and the functions are written once, over that set.              *)
(*                                                                         *)
(* The bytes of a message are a sequence of tokens, one per tag.           *)
(***************************************************************************)
EXTENDS Integers, Sequences, FiniteSets, SequencesExt

CONSTANTS
  Inputs,  \* the pairs of a message type and a value that are sent
  Narrow,  \* the values of 32 bits, 2^32 in the code
  Wide     \* the values of 64 bits, 2^64 in the code

ASSUME FormatAssumption ==
  /\ Narrow \in Nat /\ Wide \in Nat
  /\ Narrow >= 20 /\ Wide > Narrow /\ Wide % Narrow = 0 /\ Narrow % 2 = 0

-----------------------------------------------------------------------------
(* Fields.                                                                 *)
One(name, id, kind) ==
  [name |-> name, id |-> id, kind |-> kind, rule |-> "one", as |-> "plain",
   choice |-> ""]
\* A member of a oneof: at most one of its members is set.
Choice(name, id, kind, choice) == [One(name, id, kind) EXCEPT !.choice = choice]
Many(name, id, kind) == [One(name, id, kind) EXCEPT !.rule = "many"]
\* js_use_toArray: the value may be an object that has a method toArray().
ManyToArray(name, id, kind) == [Many(name, id, kind) EXCEPT !.as = "toArray"]
\* js_preEncoded: an element may be the bytes of the message.
ManyPreEncoded(name, id, kind) == [Many(name, id, kind) EXCEPT !.as = "preEncoded"]
MapOf(name, id, kind) == [One(name, id, kind) EXCEPT !.rule = "map"]

TraceFields == {
  One("startTime", 4, "Timestamp"), One("endTime", 3, "Timestamp"),
  One("durationNs", 11, "uint64"), One("root", 14, "Node"),
  One("signature", 19, "string"),
  One("unexecutedOperationBody", 27, "string"),
  One("unexecutedOperationName", 28, "string"), One("details", 6, "Details"),
  One("clientName", 7, "string"), One("clientVersion", 8, "string"),
  One("clientAddress", 9, "string"), One("clientReferenceId", 23, "string"),
  One("http", 10, "HTTP"), One("cachePolicy", 18, "CachePolicy"),
  One("queryPlan", 26, "QueryPlanNode"),
  One("fullQueryCacheHit", 20, "bool"), One("persistedQueryHit", 21, "bool"),
  One("persistedQueryRegister", 22, "bool"),
  One("registeredOperation", 24, "bool"),
  One("forbiddenOperation", 25, "bool") }

CachePolicyFields == { One("scope", 1, "Scope"), One("maxAgeNs", 2, "int64") }

DetailsFields == {
  MapOf("variablesJson", 4, "string"), One("operationName", 3, "string") }

ErrorFields == {
  One("message", 1, "string"), Many("location", 2, "Location"),
  One("timeNs", 3, "uint64"), One("json", 4, "string") }

HTTPFields == {
  One("method", 1, "Method"), One("host", 2, "string"),
  One("path", 3, "string"), MapOf("requestHeaders", 4, "Values"),
  MapOf("responseHeaders", 5, "Values"), One("statusCode", 6, "uint32"),
  One("secure", 8, "bool"), One("protocol", 9, "string") }

ValuesFields == { Many("value", 1, "string") }

LocationFields == { One("line", 1, "uint32"), One("column", 2, "uint32") }

NodeFields == {
  Choice("responseName", 1, "string", "id"),
  Choice("index", 2, "uint32", "id"), One("originalFieldName", 14, "string"),
  One("type", 3, "string"), One("parentType", 13, "string"),
  One("cachePolicy", 5, "CachePolicy"), One("startTime", 8, "uint64"),
  One("endTime", 9, "uint64"), Many("error", 11, "Error"),
  Many("child", 12, "Node") }

QueryPlanNodeFields == {
  Choice("sequence", 1, "SequenceNode", "node"),
  Choice("parallel", 2, "ParallelNode", "node"),
  Choice("fetch", 3, "FetchNode", "node"),
  Choice("flatten", 4, "FlattenNode", "node") }

SequenceNodeFields == { Many("nodes", 1, "QueryPlanNode") }

ParallelNodeFields == { Many("nodes", 1, "QueryPlanNode") }

FetchNodeFields == {
  One("serviceName", 1, "string"), One("traceParsingFailed", 2, "bool"),
  One("trace", 3, "Trace"), One("sentTimeOffset", 4, "uint64"),
  One("sentTime", 5, "Timestamp"), One("receivedTime", 6, "Timestamp") }

FlattenNodeFields == {
  Many("responsePath", 1, "ResponsePathElement"),
  One("node", 2, "QueryPlanNode") }

ResponsePathElementFields == {
  Choice("fieldName", 1, "string", "id"), Choice("index", 2, "uint32", "id") }

ReportHeaderFields == {
  One("graphRef", 12, "string"), One("hostname", 5, "string"),
  One("agentVersion", 6, "string"), One("serviceVersion", 7, "string"),
  One("runtimeVersion", 8, "string"), One("uname", 9, "string"),
  One("executableSchemaId", 11, "string") }

PathErrorStatsFields == {
  MapOf("children", 1, "PathErrorStats"), One("errorsCount", 4, "uint64"),
  One("requestsWithErrorsCount", 5, "uint64") }

QueryLatencyStatsFields == {
  ManyToArray("latencyCount", 13, "sint64"),
  One("requestCount", 2, "uint64"), One("cacheHits", 3, "uint64"),
  One("persistedQueryHits", 4, "uint64"),
  One("persistedQueryMisses", 5, "uint64"),
  ManyToArray("cacheLatencyCount", 14, "sint64"),
  One("rootErrorStats", 7, "PathErrorStats"),
  One("requestsWithErrorsCount", 8, "uint64"),
  ManyToArray("publicCacheTtlCount", 15, "sint64"),
  ManyToArray("privateCacheTtlCount", 16, "sint64"),
  One("registeredOperationCount", 11, "uint64"),
  One("forbiddenOperationCount", 12, "uint64") }

StatsContextFields == {
  One("clientReferenceId", 1, "string"), One("clientName", 2, "string"),
  One("clientVersion", 3, "string") }

ContextualizedQueryLatencyStatsFields == {
  One("queryLatencyStats", 1, "QueryLatencyStats"),
  One("context", 2, "StatsContext") }

ContextualizedTypeStatsFields == {
  One("context", 1, "StatsContext"), MapOf("perTypeStat", 2, "TypeStat") }

FieldStatFields == {
  One("returnType", 3, "string"), One("errorsCount", 4, "uint64"),
  One("count", 5, "uint64"), One("requestsWithErrorsCount", 6, "uint64"),
  ManyToArray("latencyCount", 9, "sint64") }

TypeStatFields == { MapOf("perFieldStat", 3, "FieldStat") }

FieldFields == { One("name", 2, "string"), One("returnType", 3, "string") }

TypeFields == { One("name", 1, "string"), Many("field", 2, "Field") }

ReportFields == {
  One("header", 1, "ReportHeader"),
  MapOf("tracesPerQuery", 5, "TracesAndStats"),
  One("endTime", 2, "Timestamp") }

ContextualizedStatsFields == {
  One("context", 1, "StatsContext"),
  One("queryLatencyStats", 2, "QueryLatencyStats"),
  MapOf("perTypeStat", 3, "TypeStat") }

TracesAndStatsFields == {
  ManyPreEncoded("trace", 1, "Trace"),
  ManyToArray("statsWithContext", 2, "ContextualizedStats"),
  ManyPreEncoded("internalTracesContributingToStats", 3, "Trace") }

TimestampFields == { One("seconds", 1, "int64"), One("nanos", 2, "int32") }

Schema == [ Trace |-> TraceFields, CachePolicy |-> CachePolicyFields,
  Details |-> DetailsFields, Error |-> ErrorFields, HTTP |-> HTTPFields,
  Values |-> ValuesFields, Location |-> LocationFields, Node |-> NodeFields,
  QueryPlanNode |-> QueryPlanNodeFields, SequenceNode |-> SequenceNodeFields,
  ParallelNode |-> ParallelNodeFields, FetchNode |-> FetchNodeFields,
  FlattenNode |-> FlattenNodeFields,
  ResponsePathElement |-> ResponsePathElementFields,
  ReportHeader |-> ReportHeaderFields,
  PathErrorStats |-> PathErrorStatsFields,
  QueryLatencyStats |-> QueryLatencyStatsFields,
  StatsContext |-> StatsContextFields,
  ContextualizedQueryLatencyStats |-> ContextualizedQueryLatencyStatsFields,
  ContextualizedTypeStats |-> ContextualizedTypeStatsFields,
  FieldStat |-> FieldStatFields, TypeStat |-> TypeStatFields,
  Field |-> FieldFields, Type |-> TypeFields, Report |-> ReportFields,
  ContextualizedStats |-> ContextualizedStatsFields,
  TracesAndStats |-> TracesAndStatsFields, Timestamp |-> TimestampFields ]

Integers32 == { "uint32", "int32" }
Integers64 == { "uint64", "int64", "sint64" }
\* The values of an enum are 0, 1, ...
Enums == [ Scope |-> 3, Method |-> 10 ]
IsMessage(kind) == kind \in DOMAIN Schema
IsEnum(kind) == kind \in DOMAIN Enums
IsNumber(kind) == kind \in Integers32 \cup Integers64

-----------------------------------------------------------------------------
(* Values of JavaScript.  Strings are numbered.                            *)
Null == [js |-> "null"]
Number(n) == [js |-> "number", n |-> n]
Fraction == [js |-> "fraction"]
String(n) == [js |-> "string", n |-> n]
Boolean(n) == [js |-> "boolean", n |-> n]
Object(f) == [js |-> "object", f |-> f]
Array(s) == [js |-> "array", s |-> s]
\* An object, such as a histogram, whose toArray() answers s.
Listed(s) == [js |-> "listed", s |-> s]
\* The bytes of the message of.
Bytes(of, tokens) == [js |-> "bytes", of |-> of, tokens |-> tokens]

Own(v, name) == name \in DOMAIN v.f /\ v.f[name].js # "null"
Get(v, name) == v.f[name]

-----------------------------------------------------------------------------
(* verify()                                                                *)
RECURSIVE Verify(_, _)
VerifyField(field, v) ==
  CASE field.rule = "one" -> Verify(field.kind, v)
    [] field.rule = "many" ->
         /\ v.js = "array" \/ (v.js = "listed" /\ field.as = "toArray")
         /\ \A i \in DOMAIN v.s :
              (field.as = "preEncoded" /\ v.s[i].js = "bytes") \/ Verify(field.kind, v.s[i])
    [] field.rule = "map" ->
         v.js = "object" /\ \A key \in DOMAIN v.f : Verify(field.kind, v.f[key])

Verify(kind, v) ==
  CASE kind = "string" -> v.js = "string"
    [] kind = "bool" -> v.js = "boolean"
    [] IsNumber(kind) -> v.js = "number"
    [] IsEnum(kind) -> v.js = "number" /\ v.n \in 0 .. Enums[kind] - 1
    [] IsMessage(kind) ->
         /\ v.js = "object"
         /\ \A field \in Schema[kind] :
              Own(v, field.name) => VerifyField(field, Get(v, field.name))
         /\ \A f, g \in Schema[kind] :
              f.choice # "" /\ f.choice = g.choice /\ Own(v, f.name) /\ Own(v, g.name)
                => f = g

-----------------------------------------------------------------------------
(* encode()                                                                *)
Signed(n, width) == ((n + width \div 2) % width) - width \div 2
ZigZag(n) == IF n >= 0 THEN 2 * n ELSE -(2 * n) - 1

\* What the writer makes of a number: a varint.
Varint(kind, n) ==
  CASE kind = "uint32" -> n % Narrow
    [] kind = "sint64" -> ZigZag(Signed(n, Wide))
    [] OTHER -> n % Wide

RECURSIVE Encode(_, _)
\* The bytes of one value, after its tag.
Payload(kind, v) ==
  CASE kind = "string" -> [text |-> v.n]
    [] kind = "bool" -> [varint |-> v.n]
    [] IsNumber(kind) \/ IsEnum(kind) -> [varint |-> Varint(kind, v.n)]
    [] IsMessage(kind) -> [tokens |-> Encode(kind, v)]

Token(id, payload) == [id |-> id, payload |-> payload]

\* Wrong on purpose: the elements are looked for in the object itself.
ElementsPlain(field, v) == IF v.js = "listed" THEN << >> ELSE v.s
Elements(field, v) == v.s

EncodeField(field, v) ==
  CASE field.rule = "one" -> << Token(field.id, Payload(field.kind, v)) >>
    [] field.rule = "many" /\ IsNumber(field.kind) ->
         LET s == Elements(field, v) IN
         IF s = << >> THEN << >>
         ELSE << Token(field.id,
                   [packed |-> [i \in DOMAIN s |-> Varint(field.kind, s[i].n)]]) >>
    [] field.rule = "many" /\ ~IsNumber(field.kind) ->
         LET s == Elements(field, v) IN
         [i \in DOMAIN s |->
            Token(field.id, IF s[i].js = "bytes" THEN [tokens |-> s[i].tokens]
                            ELSE Payload(field.kind, s[i]))]
    [] field.rule = "map" ->
         LET keys == SetToSeq(DOMAIN v.f) IN
         [i \in DOMAIN keys |->
            Token(field.id, [key |-> keys[i], value |-> Payload(field.kind, v.f[keys[i]])])]

\* The fields are written in the order of their ids.
Encode(type, v) ==
  LET own == {field \in Schema[type] : Own(v, field.name)}
      fields == SetToSortSeq(own, LAMBDA f, g : f.id < g.id)
  IN  FlattenSeq([i \in DOMAIN fields |-> EncodeField(fields[i], Get(v, fields[i].name))])

-----------------------------------------------------------------------------
(* decode(), by a reader that knows the fields of schema.  The tokens of   *)
(* other fields are skipped.                                               *)
UnZigZag(u) == IF u % 2 = 0 THEN u \div 2 ELSE -((u + 1) \div 2)

ReadNumber(kind, u) ==
  CASE kind = "uint32" -> u % Narrow
    [] kind = "uint64" -> u
    [] kind = "int64" -> Signed(u, Wide)
    [] kind = "sint64" -> UnZigZag(u)
    [] OTHER -> Signed(u % Narrow, Narrow)

RECURSIVE Decode(_, _, _)
ReadValue(schema, kind, payload) ==
  CASE kind = "string" -> String(payload.text)
    [] kind = "bool" -> Boolean(IF payload.varint = 0 THEN 0 ELSE 1)
    [] IsNumber(kind) \/ IsEnum(kind) -> Number(ReadNumber(kind, payload.varint))
    [] IsMessage(kind) -> Decode(schema, kind, payload.tokens)

ReadMany(schema, field, tokens) ==
  Array(IF IsNumber(field.kind)
        THEN LET runs == [i \in DOMAIN tokens |-> tokens[i].payload.packed]
                 us == FlattenSeq(runs)
             IN  [i \in DOMAIN us |-> Number(ReadNumber(field.kind, us[i]))]
        ELSE [i \in DOMAIN tokens |-> ReadValue(schema, field.kind, tokens[i].payload)])

\* The last entry of a key stays.
ReadMap(schema, field, tokens) ==
  Object([key \in {tokens[i].payload.key : i \in DOMAIN tokens} |->
            LET last == CHOOSE i \in DOMAIN tokens :
                          /\ tokens[i].payload.key = key
                          /\ \A j \in DOMAIN tokens : tokens[j].payload.key = key => j <= i
            IN  ReadValue(schema, field.kind, tokens[last].payload.value)])

\* A new message has its own empty arrays and maps; other fields are its own
\* once they are read.
Decode(schema, type, tokens) ==
  LET Of(field) == SelectSeq(tokens, LAMBDA t : t.id = field.id)
      present == {field \in schema[type] : field.rule # "one" \/ Of(field) # << >>}
      names == {field.name : field \in present}
      Named(name) == CHOOSE field \in present : field.name = name
      Read(field) ==
        CASE field.rule = "one" -> ReadValue(schema, field.kind, Last(Of(field)).payload)
          [] field.rule = "many" -> ReadMany(schema, field, Of(field))
          [] field.rule = "map" -> ReadMap(schema, field, Of(field))
  IN  Object([name \in names |-> Read(Named(name))])

-----------------------------------------------------------------------------
(* toJSON(): toObject() with the names of enums and with numbers of 64     *)
(* bits as strings.                                                        *)
RECURSIVE ToObject(_, _)
Shown(kind, v) ==
  CASE kind \in Integers64 -> [js |-> "digits", n |-> v.n]
    [] IsEnum(kind) -> [js |-> "name", n |-> v.n]
    [] IsMessage(kind) -> ToObject(kind, v)
    [] OTHER -> v

\* An object that is not an array has no length: toObject() does not call
\* toArray(), and finds no field in the bytes of a message.
IsShown(field, v) ==
  CASE field.rule = "one" -> TRUE
    [] field.rule = "many" -> v.js = "array" /\ v.s # << >>
    [] field.rule = "map" -> DOMAIN v.f # {}

ShownField(field, v) ==
  CASE field.rule = "one" -> Shown(field.kind, v)
    [] field.rule = "many" ->
         Array([i \in DOMAIN v.s |-> IF v.s[i].js = "bytes" THEN Object(<< >>)
                                     ELSE Shown(field.kind, v.s[i])])
    [] field.rule = "map" ->
         Object([key \in DOMAIN v.f |-> Shown(field.kind, v.f[key])])

ToObject(type, v) ==
  LET fields == {field \in Schema[type] :
                   Own(v, field.name) /\ IsShown(field, Get(v, field.name))}
      Named(name) == CHOOSE field \in fields : field.name = name
  IN  Object([name \in {field.name : field \in fields} |->
                ShownField(Named(name), Get(v, name))])

-----------------------------------------------------------------------------
(* A message on its way: sendReport() and addTrace() verify and encode it, *)
(* debugPrintReports prints it, and a reader receives it, who may be of an *)
(* earlier version that lacks a field.                                     *)
VARIABLES
  type, message,  \* what was built
  phase,          \* "built", "refused", "verified", "encoded", "printed", "received"
  wire,           \* the bytes
  unknown,        \* the field that the reader lacks, "" for none
  decoded,        \* what was read
  printed         \* what was printed

vars == <<type, message, phase, wire, unknown, decoded, printed>>

Init ==
  /\ \E input \in Inputs : type = input[1] /\ message = input[2]
  /\ phase = "built"
  /\ wire = << >> /\ unknown = "" /\ decoded = Null /\ printed = Null

\* Trace.verify() in addTrace(), Report.verify() in sendReport(): what does not
\* conform is not sent.
VerifyMessage ==
  /\ phase = "built"
  /\ phase' = IF Verify(type, message) THEN "verified" ELSE "refused"
  /\ UNCHANGED <<type, message, wire, unknown, decoded, printed>>

EncodeMessage ==
  /\ phase = "verified"
  /\ phase' = "encoded"
  /\ wire' = Encode(type, message)
  /\ UNCHANGED <<type, message, unknown, decoded, printed>>

\* debugPrintReports: what was encoded is decoded and printed.
PrintReport ==
  /\ phase = "encoded"
  /\ phase' = "printed"
  /\ printed' = ToObject(type, Decode(Schema, type, wire))
  /\ UNCHANGED <<type, message, wire, unknown, decoded>>

ReaderSchema(name) == [Schema EXCEPT ![type] = {field \in @ : field.name # name}]

Receive(name) ==
  /\ phase = "encoded"
  /\ phase' = "received"
  /\ unknown' = name
  /\ decoded' = Decode(ReaderSchema(name), type, wire)
  /\ UNCHANGED <<type, message, wire, printed>>

Next ==
  \/ VerifyMessage
  \/ EncodeMessage
  \/ PrintReport
  \/ \E name \in {field.name : field \in Schema[type]} \cup {""} : Receive(name)

Spec == Init /\ [][Next]_vars

-----------------------------------------------------------------------------
RECURSIVE Content(_, _, _), InRange(_, _)
\* What a message says to a reader of schema, however it was built: without
\* fields that are null or empty, and with the elements of toArray() and of bytes.
Content(schema, kind, v) ==
  IF ~IsMessage(kind) THEN v
  ELSE IF v.js = "bytes" THEN Content(schema, kind, v.of)
  ELSE LET Says(field) ==
             /\ Own(v, field.name)
             /\ field.rule = "many" => Get(v, field.name).s # << >>
             /\ field.rule = "map" => DOMAIN Get(v, field.name).f # {}
           fields == {field \in schema[kind] : Says(field)}
           Named(name) == CHOOSE field \in fields : field.name = name
           Of(field, w) ==
             CASE field.rule = "one" -> Content(schema, field.kind, w)
               [] field.rule = "many" ->
                    Array([i \in DOMAIN w.s |-> Content(schema, field.kind, w.s[i])])
               [] field.rule = "map" ->
                    Object([key \in DOMAIN w.f |-> Content(schema, field.kind, w.f[key])])
       IN  Object([name \in {field.name : field \in fields} |-> Of(Named(name), Get(v, name))])

RangeOf(kind) ==
  CASE kind = "uint32" -> 0 .. Narrow - 1
    [] kind = "int32" -> -(Narrow \div 2) .. Narrow \div 2 - 1
    [] kind = "uint64" -> 0 .. Wide - 1
    [] kind \in {"int64", "sint64"} -> -(Wide \div 2) .. Wide \div 2 - 1

\* Every number of a verified message is one that its field can hold.
InRange(kind, v) ==
  LET Of(field, w) ==
        CASE field.rule = "one" -> InRange(field.kind, w)
          [] field.rule = "many" -> \A i \in DOMAIN w.s : InRange(field.kind, w.s[i])
          [] field.rule = "map" -> \A key \in DOMAIN w.f : InRange(field.kind, w.f[key])
  IN  CASE IsNumber(kind) -> v.n \in RangeOf(kind)
        [] v.js = "bytes" -> InRange(kind, v.of)
        [] v.js = "object" ->
             \A field \in Schema[kind] :
               Own(v, field.name) => Of(field, Get(v, field.name))
        [] OTHER -> TRUE

RECURSIVE IsClear(_, _)
\* A message that has at most one member of a oneof, and no value outside of an
\* enum, at any depth.
IsClear(kind, v) ==
  /\ \A f, g \in Schema[kind] :
       f # g /\ f.choice # "" /\ f.choice = g.choice => ~(Own(v, f.name) /\ Own(v, g.name))
  /\ \A f \in Schema[kind] : Own(v, f.name) =>
       LET w == Get(v, f.name) IN
       /\ IsEnum(f.kind) => w.n \in 0 .. Enums[f.kind] - 1
       /\ IsMessage(f.kind) /\ f.rule = "one" => IsClear(f.kind, w)
       /\ IsMessage(f.kind) /\ f.rule = "many" => \A i \in DOMAIN w.s : IsClear(f.kind, w.s[i])
       /\ IsMessage(f.kind) /\ f.rule = "map" => \A key \in DOMAIN w.f : IsClear(f.kind, w.f[key])

\* What was verified and sent is what its reader reads, whether elements were
\* messages, the bytes of messages or came from toArray(), and a reader that lacks
\* a field reads all the others; no reader has to choose between two members of a
\* oneof; and what is printed shows everything that was sent.
MessagesSurvive ==
  /\ phase = "received" /\ InRange(type, message) =>
       Content(Schema, type, decoded) = Content(ReaderSchema(unknown), type, message)
  /\ phase = "received" => IsClear(type, decoded)
  /\ phase = "printed" /\ InRange(type, message) =>
       printed = ToObject(type, Content(Schema, type, message))
=============================================================================

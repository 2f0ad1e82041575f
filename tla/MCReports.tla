------------------------------- MODULE MCReports -------------------------------
(***************************************************************************)
(* What usage reports say, and how they are encoded, each by itself: a     *)
(* behaviour is one of UsageStats or one of ReportFormat, as part says,    *)
(* and leaves the variables of the other as they are.                      *)
(***************************************************************************)
EXTENDS UsageStats, ReportFormat

VARIABLE part

\* The part that a behaviour is not about stays in one initial state.
ReportsInit ==
  /\ part \in {"stats", "format"} /\ StatsInit /\ Init
  /\ part = "format" => ~include
  /\ part = "stats" => type = "Report" /\ message = Object(<< >>)

ReportsNext ==
  /\ \/ part = "stats" /\ StatsNext /\ UNCHANGED vars
     \/ part = "format" /\ Next /\ UNCHANGED statsVars
  /\ UNCHANGED part

ReportsSpec == ReportsInit /\ [][ReportsNext]_<<part, statsVars, vars>>

-----------------------------------------------------------------------------
(* Five traces: of two operations and two clients, with errors in a list,  *)
(* behind an alias and in a query plan, an open resolver, and a cache hit. *)
N(name, original, parent, start, end, errors, children) ==
  [responseName |-> name, originalFieldName |-> original, parentType |-> parent,
   type |-> IF parent = "" THEN "" ELSE "Int", start |-> start, end |-> end,
   errors |-> errors, children |-> children]

SampleNodes == 1 .. 8
\* Node 6: a root with a list of two items that both fail at the same path.
SampleNode ==
  << N("x", "", "Item", 1, 6, 2, << >>),
     N("y", "x", "Item", 2, 3, 1, << >>),
     N("", "", "", 0, 0, 0, << 1 >>),
     N("", "", "", 0, 0, 0, << 2 >>),
     N("items", "", "Query", 1, 3, 0, << 3, 4 >>),
     N("", "", "", 0, 0, 0, << 5 >>),
     \* A resolver that never ended, and a root with an error.
     N("slow", "", "Query", 1, 0, 0, << >>),
     N("", "", "", 0, 0, 1, << 7 >>) >>

SamplePlans == 9 .. 12
P(kind, service, root, node, nodes) ==
  [kind |-> kind, service |-> service, root |-> root, node |-> node, nodes |-> nodes]
SamplePlan == [p \in SamplePlans |->
  CASE p = 9 -> P("fetch", "service:a", 8, 0, << >>)
    [] p = 10 -> P("parallel", "", 0, 0, << 9 >>)
    [] p = 11 -> P("flatten", "", 0, 10, << >>)
    [] p = 12 -> P("sequence", "", 0, 0, << 9, 11 >>)]

T(key, client, duration, endTime, hit, scope, root, plan, flag) ==
  [key |-> key, client |-> client, duration |-> duration, endTime |-> endTime,
   cacheHit |-> hit, scope |-> scope, maxAge |-> 5, root |-> root, queryPlan |-> plan,
   persistedHit |-> flag, persistedRegister |-> ~flag, registered |-> flag,
   forbidden |-> ~flag]

SampleRecorded == 1 .. 5
SampleTrace ==
  << T("q", "c", 3, 61, FALSE, "private", 6, 0, TRUE),
     T("q", "c", 3, 66, FALSE, "public", 6, 12, TRUE),
     T("q", "d", 9, 61, FALSE, "public", 8, 0, FALSE),
     T("r", "c", -1, 119, TRUE, "public", 7, 0, TRUE),
     T("r", "c", 0, 60, FALSE, "none", 7, 0, FALSE) >>

-----------------------------------------------------------------------------
(* Messages of every type with up to two fields set, to sample values of    *)
(* every kind, right and wrong.                                             *)
RECURSIVE Small(_)
\* A message of one field, for use inside others.
Small(t) ==
  LET plain == {f \in Schema[t] : f.rule = "one" /\ ~IsMessage(f.kind)}
      field == CHOOSE f \in plain : \A g \in plain : f.id <= g.id
  IN  IF plain = {} THEN Object(<< >>)
      ELSE Object([name \in {field.name} |->
             CASE field.kind = "string" -> String(1)
               [] field.kind = "bool" -> Boolean(1)
               [] OTHER -> Number(1)])

Samples(kind) ==
  CASE kind = "string" -> {String(1), Number(1)}
    [] kind = "bool" -> {Boolean(0), Boolean(1), String(1)}
    [] kind = "uint32" -> {Number(1), Number(Narrow - 1), Number(-1), Fraction}
    [] kind = "int32" -> {Number(1), Number(-1), Fraction}
    [] kind = "uint64" -> {Number(0), Number(Wide - 1), Number(Wide), Fraction}
    [] kind \in {"int64", "sint64"} -> {Number(2), Number(-1), Number(-(Wide \div 2)), Fraction}
    [] IsEnum(kind) -> {Number(0), Number(Enums[kind] - 1), Number(Enums[kind])}
    [] IsMessage(kind) -> {Object(<< >>), Small(kind), String(1)}

Sequences(S) == {<< >>} \cup {<<x>> : x \in S} \cup {<<x, y>> : x, y \in S}
Maps(S) == {<< >>} \cup [{"k"} -> S] \cup [{"k", "l"} -> S]

FieldSamples(field) ==
  LET values == Samples(field.kind) IN
  {Null} \cup
  CASE field.rule = "one" -> values
    [] field.rule = "map" -> {Object(m) : m \in Maps(values)} \cup {String(1)}
    [] field.rule = "many" ->
         {Array(s) : s \in Sequences(values)} \cup {String(1)}
         \cup (IF field.as = "toArray" THEN {Listed(s) : s \in Sequences(values)} ELSE {})
         \cup (IF field.as = "preEncoded"
               THEN {Array(<<Bytes(Small(field.kind), Encode(field.kind, Small(field.kind))), x>>) :
                       x \in {Small(field.kind), String(1)}}
               ELSE {})

\* Fields are paired with those next to them, by id, and with the last.
Paired(t, f, g) ==
  /\ f.id < g.id
  /\ \/ \A h \in Schema[t] : h.id <= f.id \/ h.id >= g.id
     \/ f.choice # ""

MCInputs ==
  UNION {
    {<<t, Object(<< >>)>>}
    \cup UNION {{<<t, Object([name \in {f.name} |-> v])>> : v \in FieldSamples(f)} : f \in Schema[t]}
    \cup UNION {{<<t, Object([name \in {p[1].name, p[2].name} |->
                               IF name = p[1].name THEN vs[1] ELSE vs[2]])>> :
                   vs \in FieldSamples(p[1]) \X FieldSamples(p[2])} :
                p \in {q \in Schema[t] \X Schema[t] : Paired(t, q[1], q[2])}}
    : t \in DOMAIN Schema}
=============================================================================

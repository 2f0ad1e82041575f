------------------------------ MODULE Execution ------------------------------
(***************************************************************************)
(* The execution of an operation and the plugins that follow its fields:   *)
(* cache control, which gathers a cache policy, and a tracer (the inline   *)
(* trace or usage reporting), which builds a tree of nodes.                *)
(*                                                                         *)
(* graphql-js is the environment.  It resolves the fields of an object at  *)
(* once, and the fields below a field as soon as that has its value.  An   *)
(* error of a field that may not be null makes its parent null at once:    *)
(* graphql-js does not wait for what else runs below that parent, nor does *)
(* it stop it.  The items of a list are there with the field's value, and  *)
(* each is completed by itself: one that is a promise when that is kept.   *)
(***************************************************************************)
EXTENDS CachePolicy, Sequences

CONSTANTS
  Fields,          \* the response paths (sequences of keys) with a resolver
  Items,           \* the response paths of list items
  NonNull,         \* the paths that may not be null
  Composite,       \* the fields of object, interface or union type
  FieldDirective,  \* a field's @cacheControl arguments, or NoDirective
  TypeDirectives,  \* those of its type's definition and extensions, in order
  NoDirective,
  DynamicHints,    \* the hints that resolvers set
  Presets,         \* overall policies found at the start of the execution
  DefaultMaxAge,
  Tracers,         \* the tracers considered: "none", "inline", "usage"
  Dropped          \* paths whose errors rewriteError turns into null, or that a
                   \* federated service reports

Parent(p) == SubSeq(p, 1, Len(p) - 1)

Paths == Fields \cup Items \cup {<<>>}
Arguments == [maxAge : Nat \cup {Undefined}, scope : Scopes \cup {Undefined},
              inherit : BOOLEAN]

ASSUME ExecutionAssumption ==
  /\ Fields \cup Items \subseteq Seq(STRING)
  /\ \A p \in Fields \cup Items : p # <<>> /\ Parent(p) \in Paths
  /\ Fields \cap Items = {}
  /\ \A p \in Items : Parent(p) \in Fields /\ \A f \in Fields : Parent(f) # Parent(p)
  /\ NonNull \subseteq Fields \cup Items /\ Composite \subseteq Fields
  /\ FieldDirective \in [Fields -> Arguments \cup {NoDirective}]
  /\ TypeDirectives \in [Fields -> Seq(Arguments \cup {NoDirective})]
  /\ NewPolicy \in DynamicHints /\ DynamicHints \subseteq Policies
  /\ NewPolicy \in Presets /\ Presets \subseteq Policies
  /\ DefaultMaxAge \in Nat
  /\ Tracers \subseteq {"none", "inline", "usage"}
  /\ Dropped \subseteq Fields \cup Items

VARIABLES
  tracer, preset,
  pc,        \* the request: "executing", "ending", "sent"
  field,     \* each field: "idle", "resolving", "listed" (it has a list of
             \* promises), "done", "failed"
  item,      \* each list item: "idle", "pending", "done", "failed"
  policy,    \* info.cacheControl.cacheHint of each field
  overall,   \* requestContext.overallCachePolicy
  made,      \* how many trace nodes were made for each path
  ended,     \* the fields whose node has an end time
  timing,    \* the tracer's clock: "running", "stopped"
  errors,    \* the fields and items with an error, so far
  response,  \* those whose errors the response has
  placed,    \* the errors in the trace: a path, and the path of the node
  header,    \* the Cache-Control header of the response, or Undefined
  misused    \* history: the fields the tracer was told of when it had stopped

config == <<tracer, preset>>
vars == <<tracer, preset, pc, field, item, policy, overall, made, ended, timing,
          errors, response, placed, header, misused>>

TypeOK ==
  /\ tracer \in Tracers /\ preset \in Presets
  /\ pc \in {"executing", "ending", "sent"}
  /\ field \in [Fields -> {"idle", "resolving", "listed", "done", "failed"}]
  /\ item \in [Items -> {"idle", "pending", "done", "failed"}]
  /\ policy \in [Fields -> Policies] /\ overall \in Policies
  /\ made \in [Paths -> Nat]
  /\ timing \in {"running", "stopped"}
  /\ ended \subseteq Fields /\ errors \subseteq Fields \cup Items
  /\ response \subseteq errors /\ misused \subseteq errors \cap Fields
  /\ placed \subseteq (Fields \cup Items) \X Paths
  /\ header \in Policies \cup {Undefined}

-----------------------------------------------------------------------------
\* cacheAnnotationFromDirectives(): inheritMaxAge wins over maxAge.
Annotation(arguments) ==
  IF arguments.inherit THEN [arguments EXCEPT !.maxAge = Undefined] ELSE arguments

NoAnnotation == [maxAge |-> Undefined, scope |-> Undefined, inherit |-> FALSE]

\* cacheAnnotationFromType(): the first directive of the definition and then
\* of the extensions.
TypeAnnotation(f) ==
  LET found == {i \in DOMAIN TypeDirectives[f] : TypeDirectives[f][i] # NoDirective}
      first == CHOOSE i \in found : \A j \in found : i <= j
  IN  IF f \in Composite /\ found # {} THEN Annotation(TypeDirectives[f][first])
      ELSE NoAnnotation

FieldAnnotation(f) ==
  IF FieldDirective[f] = NoDirective THEN NoAnnotation
  ELSE Annotation(FieldDirective[f])

\* The field's age is the one its type gives, unless it has its own.
KeepsTypeAge(f) ==
  FieldAnnotation(f).inherit /\ TypeAnnotation(f).maxAge = Undefined

Inherits(f) == TypeAnnotation(f).inherit \/ KeepsTypeAge(f)

\* What cache control's willResolveField() finds in the schema.
StaticPolicy(f) ==
  LET fromType == Replace(NewPolicy, TypeAnnotation(f))
  IN  Replace(fromType,
        IF KeepsTypeAge(f)
        THEN [maxAge |-> Undefined, scope |-> FieldAnnotation(f).scope]
        ELSE FieldAnnotation(f))

\* Its end hook: root fields, and composite fields that do not inherit their
\* parent's age, have the default age if nothing gave them one.
FinalPolicy(f, p) ==
  IF p.maxAge = Undefined /\ ((f \in Composite /\ ~Inherits(f)) \/ Len(f) = 1)
  THEN Restrict(p, [maxAge |-> DefaultMaxAge, scope |-> Undefined]) ELSE p

-----------------------------------------------------------------------------
\* The fields that graphql-js resolves when the field or item p has its value, and
\* the items of its list.
Subfields(p) == {f \in Fields : Parent(f) = p}
ItemsOf(f) == {i \in Items : Parent(i) = f}

\* p and the paths above it.
Upwards(p) == {SubSeq(p, 1, n) : n \in 0 .. Len(p)}

Failed(p) == IF p \in Fields THEN field[p] = "failed" ELSE item[p] = "failed"

\* graphql-js has null for p: p failed, or what is below it did, and nothing from
\* there up to p may be null.
Nulled(p) ==
  \E e \in Fields \cup Items :
    /\ Failed(e) /\ p \in Upwards(e)
    /\ \A q \in Upwards(e) : Len(q) > Len(p) => q \in NonNull

\* graphql-js has the outcome of the operation: it waits for nothing below a null,
\* whatever else goes on there.
OutcomeIsKnown ==
  /\ \A f \in Fields :
       field[f] \in {"idle", "resolving", "listed"} => \E p \in Upwards(f) : Nulled(p)
  /\ \A i \in Items : item[i] \in {"idle", "pending"} => \E p \in Upwards(i) : Nulled(p)

\* newNode() for the fields fs; a list item has no resolver, and its node is
\* made with that of its first field.
Nodes(fs) ==
  [p \in Paths |->
     IF p \in fs \/ (p \in Items /\ made[p] = 0 /\ \E f \in fs : Parent(f) = p)
     THEN made[p] + 1 ELSE made[p]]

\* wrapField() up to the call of the resolvers of the fields fs: each plugin's
\* willResolveField().  A tracer whose clock has stopped throws, and what a hook
\* throws is an error of the field.  The others are in states; failures are new.
Resolve(fs, states, failures) ==
  LET refused == IF tracer # "none" /\ timing = "stopped" THEN fs ELSE {}
  IN  /\ field' = [f \in Fields |-> IF f \in refused THEN "failed"
                                    ELSE IF f \in fs THEN "resolving" ELSE states[f]]
      /\ errors' = errors \cup refused \cup failures
      /\ misused' = misused \cup refused
      /\ made' = IF tracer = "none" THEN made ELSE Nodes(fs \ refused)

\* The items of f, which has its value.
Enumerate(f) == item' = [i \in Items |-> IF i \in ItemsOf(f) THEN "pending" ELSE item[i]]

\* The request comes to its execution, and graphql-js resolves the root fields.
Init ==
  /\ tracer \in Tracers /\ preset \in Presets
  /\ pc = "executing"
  /\ field = [f \in Fields |-> IF Len(f) = 1 THEN "resolving" ELSE "idle"]
  /\ item = [i \in Items |-> "idle"]
  /\ policy = [f \in Fields |-> StaticPolicy(f)]
  /\ overall = preset
  /\ made = [p \in Paths |->
               IF p = <<>> \/ (tracer # "none" /\ p \in Fields /\ Len(p) = 1) THEN 1 ELSE 0]
  /\ ended = {}
  /\ timing = "running"
  /\ errors = {} /\ response = {} /\ misused = {}
  /\ placed = {}
  /\ header = Undefined

\* A resolver returns a list with promises in it: graphql-js completes the items,
\* while whenResultIsFinished() waits for the promises.
FieldLists(f) ==
  /\ field[f] = "resolving" /\ ItemsOf(f) # {}
  /\ field' = [field EXCEPT ![f] = "listed"]
  /\ Enumerate(f)
  /\ UNCHANGED <<config, pc, policy, overall, made, ended, timing, errors, response,
                 placed, header, misused>>

\* The end hooks of a field, with its last hint.  A policy that was restricted
\* before the execution is left alone.
EndHooks(f, hint) ==
  /\ policy' = [policy EXCEPT ![f] = FinalPolicy(f, Replace(@, hint))]
  /\ overall' = IF IsRestricted(preset) THEN overall ELSE Restrict(overall, policy'[f])
  /\ ended' = IF tracer = "none" THEN ended ELSE ended \cup {f}

\* A resolver ends: whenResultIsFinished(), for a value, a list, or a promise of
\* either, or for an error.
FieldSettles(f, hint, state) ==
  /\ field[f] = "resolving"
  /\ EndHooks(f, hint)
  /\ IF state = "done" THEN Enumerate(f) ELSE UNCHANGED item
  /\ Resolve(IF state = "done" THEN Subfields(f) ELSE {}, [field EXCEPT ![f] = state],
             IF state = "failed" THEN {f} ELSE {})
  /\ UNCHANGED <<config, pc, timing, response, placed, header>>

\* Promise.all() of a list: its promises have been kept, or one was broken.
ListSettles(f, hint) ==
  /\ field[f] = "listed"
  /\ \/ \E i \in ItemsOf(f) : item[i] = "failed"
     \/ \A i \in ItemsOf(f) : item[i] # "pending"
  /\ EndHooks(f, hint)
  /\ field' = [field EXCEPT ![f] = "done"]
  /\ UNCHANGED <<config, pc, item, made, timing, errors, response, placed, header, misused>>

\* A list item has its value, or an error: a broken promise, null that may not be,
\* or a value that is none of its type.
ItemSettles(i, state) ==
  /\ item[i] = "pending"
  /\ item' = [item EXCEPT ![i] = state]
  /\ Resolve(IF state = "done" THEN Subfields(i) ELSE {}, field,
             IF state = "failed" THEN {i} ELSE {})
  /\ UNCHANGED <<config, pc, policy, overall, ended, timing, response, placed, header>>

\* Wrong on purpose: an error for which there is no node is lost.
PlacesAtNodes(es) == {<<e, e>> : e \in {d \in es \ Dropped : made[d] > 0}}

\* didEncounterErrors() of the tree builder: each error goes to the node of its
\* path, or to the root if there is none.
Places(es) == {<<e, IF made[e] > 0 THEN e ELSE <<>>>> : e \in es \ Dropped}

\* execute() resolves, when the outcome of the operation is known.
ExecutionSettles ==
  /\ pc = "executing" /\ OutcomeIsKnown
  /\ pc' = "ending"
  /\ response' = errors
  /\ placed' = IF tracer = "inline" THEN Places(errors) ELSE placed
  /\ UNCHANGED <<config, field, item, policy, overall, made, ended, timing, errors, header,
                 misused>>

\* Wrong on purpose: a response with errors gets a header, too.
SendResponseAlways ==
  /\ pc = "ending"
  /\ pc' = "sent"
  /\ header' = IF Cacheable(overall) THEN PolicyIfCacheable(overall) ELSE Undefined
  /\ placed' = IF tracer = "usage" THEN Places(response) ELSE placed
  /\ timing' = IF tracer = "inline" THEN "stopped" ELSE timing
  /\ UNCHANGED <<config, field, item, policy, overall, made, ended, errors, response, misused>>

\* willSendResponse(): the header is written, the inline trace ends.
SendResponse ==
  /\ pc = "ending"
  /\ pc' = "sent"
  /\ header' = IF Cacheable(overall) /\ response = {} THEN PolicyIfCacheable(overall)
               ELSE Undefined
  /\ placed' = IF tracer = "usage" THEN Places(response) ELSE placed
  /\ timing' = IF tracer = "inline" THEN "stopped" ELSE timing
  /\ UNCHANGED <<config, field, item, policy, overall, made, ended, errors, response, misused>>

\* Usage reporting awaits shouldIncludeRequest() before its trace ends.
UsageTraceEnds ==
  /\ tracer = "usage" /\ pc = "sent" /\ timing = "running"
  /\ timing' = "stopped"
  /\ UNCHANGED <<config, pc, field, item, policy, overall, made, ended, errors, response,
                 placed, header, misused>>

Next ==
  \/ \E f \in Fields, hint \in DynamicHints, state \in {"done", "failed"} :
       FieldSettles(f, hint, state)
  \/ \E f \in Fields : FieldLists(f)
  \/ \E f \in Fields, hint \in DynamicHints : ListSettles(f, hint)
  \/ \E i \in Items, state \in {"done", "failed"} : ItemSettles(i, state)
  \/ ExecutionSettles
  \/ SendResponse
  \/ UsageTraceEnds

Spec == Init /\ [][Next]_vars

-----------------------------------------------------------------------------
\* The strictest of what the fields fs ask for, all at once.
Strictest(fs) ==
  LET ages == {policy[f].maxAge : f \in fs} \ {Undefined}
  IN  [maxAge |-> IF ages = {} THEN Undefined
                  ELSE CHOOSE a \in ages : \A b \in ages : a <= b,
       scope |-> IF \E f \in fs : policy[f].scope = "PRIVATE" THEN "PRIVATE"
                 ELSE "PUBLIC"]

\* A response is declared cacheable only when all its fields have been resolved,
\* and then for the smallest age and the strictest scope that any of them has,
\* in whatever order they resolved and whatever else still runs; no root field
\* goes without an age.  A policy set before the execution is declared as it is.
HeaderCoversResponse ==
  header # Undefined =>
    IF IsRestricted(preset) THEN header = PolicyIfCacheable(preset)
    ELSE /\ \A f \in Fields : field[f] = "done"
         /\ \A f \in Fields : Len(f) = 1 => policy[f].maxAge # Undefined
         /\ header = Strictest(Fields)

\* The nodes of a trace are a tree: one node for each field that was resolved,
\* and for each list item above one, under the node of its parent; every field
\* that settled has an end time; and of each error of the response that is to be
\* reported, that of a field is at the node of the field, and that of a list item,
\* which has none, at the root.
TraceFollowsExecution ==
  tracer # "none" =>
    /\ \A p \in Paths : made[p] <= 1
    /\ \A p \in Fields \cup Items : made[p] = 1 => made[Parent(p)] = 1
    /\ \A f \in Fields : field[f] # "idle" /\ f \notin misused => made[f] = 1
    /\ ended = {f \in Fields : field[f] \in {"done", "failed"}} \ misused
    /\ pc = "sent" =>
         placed = {<<e, IF e \in Fields THEN e ELSE <<>>>> : e \in response \ Dropped}
=============================================================================

---------------------------- MODULE AnswerProofs ----------------------------
(***************************************************************************)
(* Theorems of Execution, for any shape of an operation, any cache hints   *)
(* of its schema and its resolvers, and any order in which fields settle;  *)
(* of HttpQuery, for any integration, request and batch; and of Answers,   *)
(* which composes them.                                                    *)
(***************************************************************************)
EXTENDS Answers, WellFoundedInduction, TLAPS

SequenceFacts == INSTANCE SequenceTheorems

-----------------------------------------------------------------------------
(* Policies.                                                               *)

LEMMA PolicyFields ==
  ASSUME NEW p \in Policies
  PROVE  /\ p.maxAge \in Nat \cup {Undefined} /\ p.scope \in Scopes \cup {Undefined}
         /\ p = [maxAge |-> p.maxAge, scope |-> p.scope]
  BY DEF Policies

\* A hint has an age and a scope, and maybe other things.
IsHint(hint) ==
  hint.maxAge \in Nat \cup {Undefined} /\ hint.scope \in Scopes \cup {Undefined}

LEMMA PolicyClosure ==
  ASSUME NEW p \in Policies, NEW hint, IsHint(hint)
  PROVE  Restrict(p, hint) \in Policies /\ Replace(p, hint) \in Policies
<1>1. p.maxAge \in Nat \cup {Undefined} /\ p.scope \in Scopes \cup {Undefined}
  BY PolicyFields
<1>. QED
  BY <1>1 DEF Policies, Restrict, Replace, IsHint

LEMMA AnnotationType ==
  ASSUME NEW arguments \in Arguments PROVE IsHint(Annotation(arguments))
  BY DEF Arguments, Annotation, IsHint

\* A set of numbers has a least one: the library's theorem on minimal elements
\* takes sets only.
LEMMA LeastNumber ==
  ASSUME NEW T \in SUBSET Nat, T # {}
  PROVE  \E i \in T : \A j \in T : i <= j
<1>. DEFINE Less == {ss \in Nat \X Nat : ss[1] < ss[2]}
<1>1. IsWellFoundedOn(Less, Nat)
  BY NatLessThanWellFounded DEF OpToRel
<1>2. PICK i \in T : \A j \in T : ~ (<<j, i>> \in Less)
  <2>. HIDE DEF Less
  <2>. QED
    BY <1>1, WFMin
<1>3. ASSUME NEW j \in T PROVE i <= j
  <2>1. ~ (j < i)
    BY <1>2
  <2>. QED
    BY <2>1
<1>. QED
  BY <1>3

LEMMA LeastIs ==
  ASSUME NEW T \in SUBSET Nat, NEW m \in T, \A j \in T : m <= j
  PROVE  (CHOOSE i \in T : \A j \in T : i <= j) = m
<1>. DEFINE least == CHOOSE i \in T : \A j \in T : i <= j
<1>1. least \in T /\ \A j \in T : least <= j
  OBVIOUS
<1>. HIDE DEF least
<1>2. least <= m /\ m <= least /\ least \in Nat /\ m \in Nat
  BY <1>1
<1>3. least = m
  BY <1>2
<1>. QED
  BY <1>3 DEF least

LEMMA StaticType ==
  ASSUME NEW f \in Fields PROVE StaticPolicy(f) \in Policies
<1>1. IsHint(NoAnnotation)
  BY DEF IsHint, NoAnnotation
<1>2. IsHint(FieldAnnotation(f))
  BY <1>1, AnnotationType, ExecutionAssumption DEF FieldAnnotation
<1>3. IsHint(TypeAnnotation(f))
  <2>. DEFINE found == {i \in DOMAIN TypeDirectives[f] :
                          TypeDirectives[f][i] # NoDirective}
  <2>1. CASE found = {}
    BY <1>1, <2>1 DEF TypeAnnotation
  <2>2. CASE found # {}
    <3>1. \E i \in found : \A j \in found : i <= j
      <4>1. found \in SUBSET Nat
        BY ExecutionAssumption
      <4>. HIDE DEF found
      <4>. QED
        BY <2>2, <4>1, LeastNumber
    <3>. QED
      BY <1>1, <3>1, AnnotationType, ExecutionAssumption DEF TypeAnnotation
  <2>. QED
    BY <2>1, <2>2
<1>4. NewPolicy \in Policies
  BY DEF NewPolicy, Policies
<1>5. IsHint([maxAge |-> Undefined, scope |-> FieldAnnotation(f).scope])
  BY <1>2 DEF IsHint
<1>6. Replace(NewPolicy, TypeAnnotation(f)) \in Policies
  BY <1>3, <1>4, PolicyClosure
<1>. QED
  BY <1>2, <1>5, <1>6, PolicyClosure DEF StaticPolicy

LEMMA FinalType ==
  ASSUME NEW f \in Fields, NEW p \in Policies
  PROVE  /\ FinalPolicy(f, p) \in Policies
         /\ Len(f) = 1 => FinalPolicy(f, p).maxAge # Undefined
<1>. DEFINE default == [maxAge |-> DefaultMaxAge, scope |-> Undefined]
<1>1. IsHint(default) /\ DefaultMaxAge # Undefined
  BY ExecutionAssumption, PolicyAssumption DEF IsHint
<1>2. Restrict(p, default) \in Policies
  BY <1>1, PolicyClosure
<1>3. p.maxAge = Undefined => Restrict(p, default).maxAge = DefaultMaxAge
  BY <1>1 DEF Restrict
<1>. QED
  BY <1>1, <1>2, <1>3 DEF FinalPolicy

-----------------------------------------------------------------------------
(* The shape of an operation.                                              *)

LEMMA Shape ==
  /\ <<>> \in Paths /\ <<>> \notin Fields \cup Items
  /\ Fields \cap Items = {} /\ Paths = Fields \cup Items \cup {<<>>}
  /\ \A p \in Fields \cup Items : /\ Len(p) \in Nat /\ Len(p) >= 1
                                  /\ Parent(p) \in Paths
                                  /\ Len(Parent(p)) = Len(p) - 1
  /\ \A p \in Items : Parent(p) \in Fields
<1>1. \A p \in Fields \cup Items : Parent(p) \in Paths /\ p # <<>> /\ p \in Seq(STRING)
  BY ExecutionAssumption
<1>2. ASSUME NEW p \in Fields \cup Items PROVE Len(p) \in Nat /\ Len(p) >= 1
  <2>. DEFINE n == Len(p)
  <2>1. p \in Seq(STRING) /\ p # <<>>
    BY <1>1
  <2>2. n \in Nat /\ (n = 0 => p = <<>>)
    BY <2>1
  <2>. QED
    BY <2>1, <2>2
<1>3. ASSUME NEW p \in Fields \cup Items PROVE Len(Parent(p)) = Len(p) - 1
  <2>. DEFINE n == Len(p) - 1
  <2>1. p \in Seq(STRING) /\ n \in Nat
    BY <1>1, <1>2
  <2>2. 1 \in Int /\ n \in Int /\ \A i \in 1 .. n : p[i] \in STRING
    BY <2>1
  <2>3. Len(SubSeq(p, 1, n)) = IF 1 <= n THEN n - 1 + 1 ELSE 0
    <3>. HIDE DEF n
    <3>. QED
      BY <2>2, SequenceFacts!SubSeqProperties
  <2>4. Len(SubSeq(p, 1, n)) = n
    <3>. HIDE DEF n
    <3>. QED
      BY <2>1, <2>3
  <2>. QED
    BY <2>4 DEF Parent
<1>. QED
  BY <1>1, <1>2, <1>3, ExecutionAssumption DEF Paths

\* What is directly below a field or an item is below nothing else, and no root
\* field is.
LEMMA SubfieldsOf ==
  ASSUME NEW p \in Fields \cup Items, NEW g \in Subfields(p)
  PROVE  g \in Fields \ {p} /\ Len(g) # 1 /\ Parent(g) = p
<1>1. g \in Fields /\ Parent(g) = p
  BY DEF Subfields
<1>2. Len(p) = Len(g) - 1 /\ Len(g) \in Nat /\ Len(p) \in Nat /\ Len(p) >= 1
  BY <1>1, Shape
<1>3. Len(g) # Len(p) /\ Len(g) # 1
  <2>1. ASSUME NEW m \in Nat, NEW n \in Nat, m = n - 1, m >= 1 PROVE n # m /\ n # 1
    BY <2>1
  <2>. QED
    BY <1>2, <2>1
<1>. QED
  BY <1>1, <1>3

-----------------------------------------------------------------------------
(* The invariant.                                                          *)

\* What is below a field or an item begins when that is done, the items of a list
\* when the list is there; a tracer that has not stopped takes every field; and
\* while some field runs, nothing is declared of them all.
FieldInv ==
  /\ \A f \in Fields : \A g \in Subfields(f) : field[f] # "done" => field[g] = "idle"
  /\ \A i \in Items : \A g \in Subfields(i) : item[i] # "done" => field[g] = "idle"
  /\ \A i \in Items : field[Parent(i)] \notin {"listed", "done"} => item[i] = "idle"
  /\ \A e \in Fields \cup Items : Failed(e) <=> e \in errors
  /\ timing = "running" => misused = {}
  /\ pc \in {"executing", "ending"} => timing = "running" /\ header = Undefined
  /\ pc # "executing" /\ response = {} => \A f \in Fields : field[f] = "done"

\* A policy that nothing restricted is that of the fields that settled.
PolicyInv ==
  /\ \A f \in Fields :
       field[f] = "done" /\ Len(f) = 1 => policy[f].maxAge # Undefined
  /\ IF IsRestricted(preset) THEN overall = preset
     ELSE /\ \A f \in Fields : field[f] = "done" =>
               /\ policy[f].maxAge # Undefined =>
                    overall.maxAge # Undefined /\ overall.maxAge <= policy[f].maxAge
               /\ policy[f].scope = "PRIVATE" => overall.scope = "PRIVATE"
          /\ overall.maxAge # Undefined =>
               \E f \in Fields : /\ field[f] \in {"done", "failed"}
                                /\ policy[f].maxAge = overall.maxAge
          /\ overall.scope = "PRIVATE" =>
               \E f \in Fields : /\ field[f] \in {"done", "failed"}
                                /\ policy[f].scope = "PRIVATE"
  /\ header # Undefined =>
       /\ pc = "sent" /\ response = {}
       /\ Cacheable(overall) /\ header = PolicyIfCacheable(overall)

\* Which paths have nodes: fields when they began, items that are done with their
\* first field.
TreeInv ==
  /\ made[<<>>] = 1
  /\ \A f \in Fields : made[f] = IF field[f] = "idle" \/ f \in misused THEN 0 ELSE 1
  /\ \A p \in Items : made[p] \in {0, 1} /\ (made[p] = 1 => item[p] = "done")
  /\ \A p \in Fields \cup Items : made[p] = 1 => made[Parent(p)] = 1

\* Where errors belong.
Placed(es) == {<<e, IF e \in Fields THEN e ELSE <<>>>> : e \in es \ Dropped}

NodeInv ==
  tracer # "none" =>
    /\ TreeInv
    /\ ended = {f \in Fields : field[f] \in {"done", "failed"}} \ misused
    /\ pc = "sent" \/ (pc = "ending" /\ tracer = "inline") => placed = Placed(response)

IInv == TypeOK /\ FieldInv /\ PolicyInv /\ NodeInv

-----------------------------------------------------------------------------
LEMMA InitInv == Init => IInv
<1>. SUFFICES ASSUME Init PROVE IInv
  OBVIOUS
<1>1. policy \in [Fields -> Policies] /\ overall \in Policies
  BY StaticType, ExecutionAssumption DEF Init
<1>2. TypeOK
  BY <1>1, ExecutionAssumption DEF Init, TypeOK
<1>3. FieldInv
  <2>1. \A e \in Fields \cup Items : ~ Failed(e) /\ e \notin errors
    BY DEF Init, Failed
  <2>2. \A p \in Fields \cup Items : \A g \in Subfields(p) : field[g] = "idle"
    BY SubfieldsOf DEF Init
  <2>. QED
    BY <2>1, <2>2 DEF Init, FieldInv
<1>4. PolicyInv
  BY PolicyAssumption DEF Init, PolicyInv, IsRestricted
<1>5. NodeInv
  <2>. SUFFICES ASSUME tracer # "none" PROVE NodeInv
    BY DEF NodeInv
  <2>1. ASSUME NEW p \in Fields \cup Items, made[p] = 1 PROVE made[Parent(p)] = 1
    <3>1. Len(p) = 1 /\ p \in Fields
      <4>1. p \in Paths /\ p # <<>>
        BY Shape
      <4>2. made[p] = IF p = <<>> \/ (tracer # "none" /\ p \in Fields /\ Len(p) = 1)
                      THEN 1 ELSE 0
        BY <4>1 DEF Init
      <4>. QED
        BY <2>1, <4>1, <4>2
    <3>2. Parent(p) \in Paths /\ Len(Parent(p)) = 0
      <4>1. Parent(p) \in Paths /\ Len(Parent(p)) = Len(p) - 1
        BY <3>1, Shape
      <4>. QED
        BY <3>1, <4>1
    <3>3. Parent(p) = <<>>
      BY <3>2, Shape
    <3>. QED
      BY <3>3, Shape DEF Init
  <2>2. \A p \in Paths : made[p] = IF p = <<>> \/ (p \in Fields /\ Len(p) = 1) THEN 1 ELSE 0
    BY DEF Init
  <2>3. \A f \in Fields : made[f] = IF field[f] = "idle" \/ f \in misused THEN 0 ELSE 1
    BY <2>2, Shape DEF Init
  <2>4. \A p \in Items : made[p] = 0
    BY <2>2, Shape
  <2>5. TreeInv
    BY <2>1, <2>2, <2>3, <2>4, Shape DEF TreeInv
  <2>. QED
    BY <2>5 DEF Init, NodeInv
<1>. QED
  BY <1>2, <1>3, <1>4, <1>5 DEF IInv

-----------------------------------------------------------------------------
(* Fields begin.                                                           *)

\* The fields gs are resolved, all but those in new refused by a tracer that has
\* stopped: all, or none.
Began(gs, new, failures) ==
  /\ new \in {gs, {}}
  /\ new # gs => timing = "stopped" /\ tracer # "none"
  /\ \A g \in gs : field'[g] = IF g \in new THEN "resolving" ELSE "failed"
  /\ errors' = errors \cup (gs \ new) \cup failures
  /\ misused' = misused \cup (gs \ new)
  /\ tracer # "none" => made' = Nodes(new)
  /\ tracer = "none" => made' = made

LEMMA Beginning ==
  ASSUME NEW gs \in SUBSET Fields, NEW failures,
         NEW states \in [Fields -> {"idle", "resolving", "listed", "done", "failed"}],
         Resolve(gs, states, failures)
  PROVE  /\ field' \in [Fields -> {"idle", "resolving", "listed", "done", "failed"}]
         /\ \A g \in Fields \ gs : field'[g] = states[g]
         /\ \E new : Began(gs, new, failures)
<1>. DEFINE refused == IF tracer # "none" /\ timing = "stopped" THEN gs ELSE {}
<1>1. /\ field' = [g \in Fields |-> IF g \in refused THEN "failed"
                                   ELSE IF g \in gs THEN "resolving" ELSE states[g]]
      /\ errors' = errors \cup refused \cup failures
      /\ misused' = misused \cup refused
      /\ made' = IF tracer = "none" THEN made ELSE Nodes(gs \ refused)
  BY DEF Resolve
<1>2. /\ field' \in [Fields -> {"idle", "resolving", "listed", "done", "failed"}]
      /\ \A g \in Fields \ gs : field'[g] = states[g]
  BY <1>1
<1>3. CASE tracer # "none" /\ timing = "stopped"
  <2>1. refused = gs /\ gs \ refused = {} /\ gs \ {} = gs
    BY <1>3
  <2>2. Began(gs, {}, failures)
    BY <1>1, <1>3, <2>1 DEF Began
  <2>. QED
    BY <1>2, <2>2
<1>4. CASE ~(tracer # "none" /\ timing = "stopped")
  <2>1. refused = {} /\ gs \ refused = gs /\ gs \ gs = {}
    BY <1>4
  <2>2. Began(gs, gs, failures)
    BY <1>1, <1>4, <2>1 DEF Began
  <2>. QED
    BY <1>2, <2>2
<1>. QED
  BY <1>3, <1>4

\* The nodes of the fields gs, which have none, and of the items above them.
LEMMA NewNodes ==
  ASSUME TypeOK, NEW gs \in SUBSET Fields
  PROVE  /\ Nodes(gs) \in [Paths -> Nat]
         /\ Nodes(gs)[<<>>] = made[<<>>]
         /\ \A g \in Fields : Nodes(gs)[g] = IF g \in gs THEN made[g] + 1 ELSE made[g]
         /\ \A p \in Items :
              Nodes(gs)[p] = IF made[p] = 0 /\ \E g \in gs : Parent(g) = p
                             THEN 1 ELSE made[p]
<1>1. made \in [Paths -> Nat]
  BY DEF TypeOK
<1>2. \A p \in Paths :
        Nodes(gs)[p] =
          IF p \in gs \/ (p \in Items /\ made[p] = 0 /\ \E g \in gs : Parent(g) = p)
          THEN made[p] + 1 ELSE made[p]
  BY DEF Nodes
<1>3. Nodes(gs) \in [Paths -> Nat]
  BY <1>1 DEF Nodes
<1>. QED
  BY <1>1, <1>2, <1>3, Shape

\* The tree grows by the fields gs below q, which has a node itself, or is an item
\* of a list that has.
LEMMA TreeGrows ==
  ASSUME TypeOK, FieldInv, TreeInv, tracer # "none",
         NEW q \in Fields \cup Items, NEW gs \in SUBSET Subfields(q),
         NEW new, NEW failures, Began(gs, new, failures),
         \A g \in gs : field[g] = "idle",
         \A g \in Fields \ gs : field'[g] = "idle" <=> field[g] = "idle",
         gs # {} /\ q \in Fields => made[q] = 1,
         gs # {} /\ q \in Items => made[Parent(q)] = 1 /\ item'[q] = "done",
         \A i \in Items : item[i] = "done" => item'[i] = "done"
  PROVE  TreeInv'
<1>1. /\ made[<<>>] = 1
      /\ \A p \in Items : made[p] \in {0, 1} /\ (made[p] = 1 => item[p] = "done")
      /\ \A g \in Fields : made[g] = IF field[g] = "idle" \/ g \in misused THEN 0 ELSE 1
      /\ \A p \in Fields \cup Items : made[p] = 1 => made[Parent(p)] = 1
  BY DEF TreeInv
<1>2. \A g \in misused : g \in Fields /\ field[g] = "failed"
  BY DEF TypeOK, FieldInv, Failed
<1>3. /\ new \in {gs, {}} /\ made' = Nodes(new) /\ misused' = misused \cup (gs \ new)
      /\ \A g \in gs : field'[g] = IF g \in new THEN "resolving" ELSE "failed"
  BY DEF Began
<1>4. \A g \in gs : g \in Fields /\ Parent(g) = q
  BY SubfieldsOf
<1>5. new \in SUBSET Fields
  BY <1>3, <1>4
<1>6. /\ made'[<<>>] = made[<<>>]
      /\ \A g \in Fields : made'[g] = IF g \in new THEN made[g] + 1 ELSE made[g]
      /\ \A p \in Items : made'[p] = IF made[p] = 0 /\ \E g \in new : Parent(g) = p
                                     THEN 1 ELSE made[p]
  BY <1>3, <1>5, NewNodes
<1>7. \A g \in gs : made[g] = 0 /\ g \notin misused
  BY <1>1, <1>2, <1>4
<1>8. ASSUME NEW g \in Fields
      PROVE  made'[g] = IF field'[g] = "idle" \/ g \in misused' THEN 0 ELSE 1
  <2>1. CASE g \in gs
    BY <1>3, <1>6, <1>7, <2>1
  <2>2. CASE g \notin gs
    BY <1>1, <1>3, <1>6, <2>2
  <2>. QED
    BY <2>1, <2>2
<1>9. \A p \in Items : made'[p] \in {0, 1} /\ (made'[p] = 1 => item'[p] = "done")
  <2>1. ASSUME NEW p \in Items PROVE made'[p] \in {0, 1}
    BY <1>1, <1>6
  <2>2. ASSUME NEW p \in Items, made'[p] = 1 PROVE item'[p] = "done"
    <3>1. CASE made[p] = 1
      BY <1>1, <3>1
    <3>2. CASE made[p] # 1
      <4>1. PICK g \in new : Parent(g) = p
        BY <1>6, <2>2, <3>2
      <4>2. p = q /\ gs # {}
        BY <1>3, <1>4, <4>1
      <4>. QED
        BY <4>2
    <3>. QED
      BY <3>1, <3>2
  <2>. QED
    BY <2>1, <2>2
<1>10. \A p \in Paths : made[p] = 1 => made'[p] = 1
  BY <1>3, <1>6, <1>7, Shape
<1>11. ASSUME NEW p \in Fields \cup Items, made'[p] = 1 PROVE made'[Parent(p)] = 1
  <2>1. Parent(p) \in Paths
    BY Shape
  <2>2. CASE made[p] = 1
    BY <1>1, <1>10, <2>1, <2>2
  <2>3. CASE made[p] # 1 /\ p \in Fields
    <3>1. p \in new /\ p \in gs /\ Parent(p) = q
      BY <1>3, <1>4, <1>6, <1>11, <2>3
    <3>2. CASE q \in Fields
      BY <1>10, <2>1, <3>1, <3>2
    <3>3. CASE q \in Items
      BY <1>1, <1>6, <3>1, <3>3
    <3>. QED
      BY <3>2, <3>3
  <2>4. CASE made[p] # 1 /\ p \in Items
    <3>1. PICK g \in new : Parent(g) = p
      BY <1>6, <1>11, <2>4
    <3>2. p = q /\ gs # {}
      BY <1>3, <1>4, <3>1
    <3>. QED
      BY <1>10, <2>1, <2>4, <3>2
  <2>. QED
    BY <2>2, <2>3, <2>4
<1>12. made'[<<>>] = 1
  BY <1>1, <1>6
<1>. QED
  BY <1>8, <1>9, <1>11, <1>12 DEF TreeInv

-----------------------------------------------------------------------------
(* The end hooks of a field.                                               *)

LEMMA EndHooksType ==
  ASSUME TypeOK, NEW f \in Fields, NEW hint \in DynamicHints, EndHooks(f, hint)
  PROVE  /\ policy' \in [Fields -> Policies] /\ overall' \in Policies
         /\ ended' \subseteq Fields
         /\ Len(f) = 1 => policy'[f].maxAge # Undefined
         /\ \A g \in Fields \ {f} : policy'[g] = policy[g]
<1>1. policy[f] \in Policies /\ IsHint(hint)
  BY ExecutionAssumption DEF TypeOK, Policies, IsHint
<1>2. Replace(policy[f], hint) \in Policies
  BY <1>1, PolicyClosure
<1>3. policy' = [policy EXCEPT ![f] = FinalPolicy(f, Replace(policy[f], hint))]
  BY DEF EndHooks
<1>4. policy' \in [Fields -> Policies]
  BY <1>2, <1>3, FinalType DEF TypeOK
<1>5. policy'[f] = FinalPolicy(f, Replace(policy[f], hint))
  BY <1>3 DEF TypeOK
<1>6. overall' \in Policies
  <2>1. IsHint(policy'[f])
    BY <1>4, PolicyFields DEF IsHint
  <2>. QED
    BY <2>1, PolicyClosure DEF TypeOK, EndHooks
<1>7. ended' \subseteq Fields
  BY DEF TypeOK, EndHooks
<1>. QED
  BY <1>2, <1>3, <1>4, <1>5, <1>6, <1>7, FinalType DEF TypeOK

\* A field that had not settled settles.
LEMMA EndHooksPolicy ==
  ASSUME TypeOK, FieldInv, PolicyInv, NEW f \in Fields, NEW hint \in DynamicHints,
         EndHooks(f, hint), UNCHANGED <<preset, header>>, header = Undefined,
         field[f] \notin {"done", "failed"}, field'[f] \in {"done", "failed"},
         \A g \in Fields : field'[g] = "done" => g = f \/ field[g] = "done",
         \A g \in Fields : field[g] \in {"done", "failed"} => field'[g] = field[g]
  PROVE  PolicyInv'
<1>2. \A g \in Fields : field'[g] = "done" => g = f \/ field[g] = "done"
  OBVIOUS
<1>3. \A g \in Fields : field[g] \in {"done", "failed"} => g # f /\ field'[g] = field[g]
  OBVIOUS
<1>5. /\ policy'[f] \in Policies
      /\ Len(f) = 1 => policy'[f].maxAge # Undefined
      /\ \A g \in Fields \ {f} : policy'[g] = policy[g]
  BY EndHooksType
<1>6. \A g \in Fields : field'[g] = "done" /\ Len(g) = 1 => policy'[g].maxAge # Undefined
  BY <1>2, <1>5 DEF PolicyInv
<1>7. CASE IsRestricted(preset)
  <2>1. overall' = preset' /\ IsRestricted(preset')
    BY <1>7 DEF EndHooks, PolicyInv
  <2>. QED
    BY <1>6, <2>1 DEF PolicyInv
<1>8. CASE ~IsRestricted(preset)
  <2>. DEFINE new == policy'[f]
  <2>1. overall' = Restrict(overall, new)
    BY <1>8 DEF EndHooks
  <2>2. /\ overall.maxAge \in Nat \cup {Undefined}
        /\ overall.scope \in Scopes \cup {Undefined}
        /\ new.maxAge \in Nat \cup {Undefined} /\ new.scope \in Scopes \cup {Undefined}
    <3>1. new \in Policies /\ overall \in Policies
      BY <1>5 DEF TypeOK
    <3>. HIDE DEF new
    <3>. QED
      BY <3>1, PolicyFields
  <2>. HIDE DEF new
  <2>3. /\ new.maxAge # Undefined =>
              overall'.maxAge # Undefined /\ overall'.maxAge <= new.maxAge
        /\ overall.maxAge # Undefined =>
              overall'.maxAge # Undefined /\ overall'.maxAge <= overall.maxAge
        /\ overall'.maxAge # Undefined =>
              overall'.maxAge = overall.maxAge \/ overall'.maxAge = new.maxAge
    BY <2>1, <2>2, PolicyAssumption DEF Restrict
  <2>4. /\ new.scope = "PRIVATE" \/ overall.scope = "PRIVATE" => overall'.scope = "PRIVATE"
        /\ overall'.scope = "PRIVATE" => new.scope = "PRIVATE" \/ overall.scope = "PRIVATE"
    BY <2>1, <2>2, PolicyAssumption DEF Restrict
  <2>5. /\ \A g \in Fields : field[g] = "done" =>
               /\ policy[g].maxAge # Undefined =>
                    overall.maxAge # Undefined /\ overall.maxAge <= policy[g].maxAge
               /\ policy[g].scope = "PRIVATE" => overall.scope = "PRIVATE"
        /\ overall.maxAge # Undefined =>
             \E g \in Fields : /\ field[g] \in {"done", "failed"}
                              /\ policy[g].maxAge = overall.maxAge
        /\ overall.scope = "PRIVATE" =>
             \E g \in Fields : /\ field[g] \in {"done", "failed"}
                              /\ policy[g].scope = "PRIVATE"
    BY <1>8 DEF PolicyInv
  <2>6. ASSUME NEW g \in Fields, field'[g] = "done"
        PROVE  /\ policy'[g].maxAge # Undefined =>
                    overall'.maxAge # Undefined /\ overall'.maxAge <= policy'[g].maxAge
               /\ policy'[g].scope = "PRIVATE" => overall'.scope = "PRIVATE"
    <3>1. CASE g = f
      BY <2>3, <2>4, <3>1 DEF new
    <3>2. CASE g # f
      <4>1. field[g] = "done" /\ policy'[g] = policy[g]
        BY <1>2, <1>5, <2>6, <3>2
      <4>2. policy[g].maxAge \in Nat \cup {Undefined} /\ overall'.maxAge \in Nat \cup {Undefined}
        BY PolicyFields, EndHooksType DEF TypeOK
      <4>. QED
        BY <2>2, <2>3, <2>4, <2>5, <4>1, <4>2
    <3>. QED
      BY <3>1, <3>2
  <2>7. overall'.maxAge # Undefined =>
          \E g \in Fields : /\ field'[g] \in {"done", "failed"}
                           /\ policy'[g].maxAge = overall'.maxAge
    BY <1>3, <1>5, <2>3, <2>5 DEF new
  <2>8. overall'.scope = "PRIVATE" =>
          \E g \in Fields : /\ field'[g] \in {"done", "failed"}
                           /\ policy'[g].scope = "PRIVATE"
    BY <1>3, <1>5, <2>4, <2>5 DEF new
  <2>9. ~IsRestricted(preset')
    BY <1>8
  <2>. QED
    BY <1>6, <2>6, <2>7, <2>8, <2>9 DEF PolicyInv
<1>. QED
  BY <1>7, <1>8

-----------------------------------------------------------------------------
(* A field settles.                                                        *)

\* The fields that begin when p ends like that, which had not begun.
Below(p, state) == IF state = "done" THEN Subfields(p) ELSE {}

\* Who has failed, when the fields gs began and failures are new.
LEMMA ErrorsFollow ==
  ASSUME TypeOK, FieldInv, NEW gs \in SUBSET Fields, NEW new, NEW failures,
         Began(gs, new, failures), failures \subseteq (Fields \cup Items) \ gs,
         \A e \in failures : Failed(e)',
         \A g \in gs : field[g] = "idle",
         \A e \in (Fields \cup Items) \ (gs \cup failures) : Failed(e)' <=> Failed(e),
         \A e \in failures : ~ Failed(e)
  PROVE  /\ \A e \in Fields \cup Items : Failed(e)' <=> e \in errors'
         /\ errors' \subseteq Fields \cup Items /\ errors \subseteq errors'
         /\ misused' \subseteq errors' \cap Fields
         /\ timing = "running" => misused' = {}
<1>1. /\ errors' = errors \cup (gs \ new) \cup failures
      /\ misused' = misused \cup (gs \ new)
      /\ \A g \in gs : field'[g] = IF g \in new THEN "resolving" ELSE "failed"
      /\ timing = "running" => gs \ new = {}
  BY DEF Began
<1>2. \A e \in Fields \cup Items : Failed(e) <=> e \in errors
  BY DEF FieldInv
<1>3. \A g \in gs : ~ Failed(g) /\ (Failed(g)' <=> g \notin new)
  BY <1>1 DEF Failed
<1>4. ASSUME NEW e \in Fields \cup Items PROVE Failed(e)' <=> e \in errors'
  <2>1. CASE e \in gs
    BY <1>1, <1>2, <1>3, <2>1
  <2>2. CASE e \in failures
    BY <1>1, <2>2
  <2>3. CASE e \notin gs \cup failures
    BY <1>1, <1>2, <2>3
  <2>. QED
    BY <2>1, <2>2, <2>3
<1>5. errors' \subseteq Fields \cup Items /\ misused' \subseteq errors' \cap Fields
  BY <1>1 DEF TypeOK
<1>6. timing = "running" => misused' = {}
  BY <1>1 DEF FieldInv
<1>. QED
  BY <1>1, <1>4, <1>5, <1>6

\* A field settles, and those below it begin.
LEMMA Settling ==
  ASSUME TypeOK, FieldInv, NEW f \in Fields, NEW hint \in DynamicHints,
         NEW state \in {"done", "failed"}, FieldSettles(f, hint, state)
  PROVE  /\ field[f] = "resolving" /\ field'[f] = state
         /\ Below(f, state) \subseteq Fields \ {f}
         /\ \A g \in Below(f, state) : field[g] = "idle"
         /\ \A g \in Fields \ Below(f, state) : g # f => field'[g] = field[g]
         /\ \E new : Began(Below(f, state), new, IF state = "failed" THEN {f} ELSE {})
         /\ field' \in [Fields -> {"idle", "resolving", "listed", "done", "failed"}]
         /\ \A i \in Items : item'[i] = IF state = "done" /\ Parent(i) = f THEN "pending"
                                        ELSE item[i]
         /\ \A i \in Items : Parent(i) = f => item[i] = "idle"
         /\ item' \in [Items -> {"idle", "pending", "done", "failed"}]
<1>. DEFINE fs == Below(f, state)
            states == [field EXCEPT ![f] = state]
            failures == IF state = "failed" THEN {f} ELSE {}
<1>1. field[f] = "resolving" /\ Resolve(fs, states, failures)
  BY DEF FieldSettles, Below
<1>2. fs \subseteq Fields \ {f} /\ \A g \in fs : field[g] = "idle"
  BY <1>1, SubfieldsOf DEF Below, FieldInv
<1>3. /\ states \in [Fields -> {"idle", "resolving", "listed", "done", "failed"}]
      /\ \A g \in Fields : states[g] = IF g = f THEN state ELSE field[g]
  BY DEF TypeOK
<1>4. \A i \in Items : Parent(i) = f => item[i] = "idle"
  BY <1>1 DEF FieldInv
<1>5. \A i \in Items : item'[i] = IF state = "done" /\ Parent(i) = f THEN "pending"
                                 ELSE item[i]
  BY DEF FieldSettles, Enumerate, ItemsOf, TypeOK
<1>6. item' \in [Items -> {"idle", "pending", "done", "failed"}]
  BY DEF FieldSettles, Enumerate, TypeOK
<1>. HIDE DEF fs, states, failures
<1>7. /\ field' \in [Fields -> {"idle", "resolving", "listed", "done", "failed"}]
      /\ \A g \in Fields \ fs : field'[g] = states[g]
      /\ \E new : Began(fs, new, failures)
  BY <1>1, <1>2, <1>3, Beginning
<1>8. field'[f] = state /\ \A g \in Fields \ fs : g # f => field'[g] = field[g]
  BY <1>2, <1>3, <1>7
<1>. QED
  BY <1>1, <1>2, <1>4, <1>5, <1>6, <1>7, <1>8 DEF fs, failures

LEMMA FieldSettlesInv ==
  ASSUME IInv, NEW f \in Fields, NEW hint \in DynamicHints,
         NEW state \in {"done", "failed"}, FieldSettles(f, hint, state)
  PROVE  IInv'
<1>. DEFINE fs == Below(f, state)
            failures == IF state = "failed" THEN {f} ELSE {}
<1>. USE DEF IInv
<1>1. /\ EndHooks(f, hint)
      /\ UNCHANGED <<config, pc, timing, response, placed, header>>
  BY DEF FieldSettles
<1>2. /\ field[f] = "resolving" /\ field'[f] = state
      /\ fs \subseteq Fields \ {f} /\ \A g \in fs : field[g] = "idle"
      /\ \A g \in Fields \ fs : g # f => field'[g] = field[g]
      /\ field' \in [Fields -> {"idle", "resolving", "listed", "done", "failed"}]
      /\ \A i \in Items : item'[i] = IF state = "done" /\ Parent(i) = f THEN "pending"
                                     ELSE item[i]
      /\ \A i \in Items : Parent(i) = f => item[i] = "idle"
      /\ item' \in [Items -> {"idle", "pending", "done", "failed"}]
      /\ \E new : Began(fs, new, failures)
  <2>. TypeOK /\ FieldInv
    OBVIOUS
  <2>. HIDE DEF IInv
  <2>. QED
    BY Settling
<1>3. PICK new : Began(fs, new, failures)
  BY <1>2
<1>4. \A g \in fs : field'[g] \in {"resolving", "failed"}
  BY <1>3 DEF Began
<1>5. ~ Failed(f) /\ (state = "failed" => Failed(f)')
  BY <1>2 DEF Failed
<1>6. failures \subseteq (Fields \cup Items) \ fs
  BY <1>2
<1>7. \A e \in (Fields \cup Items) \ (fs \cup failures) : Failed(e)' <=> Failed(e)
  BY <1>2, Shape DEF Failed
<1>8. /\ \A e \in Fields \cup Items : Failed(e)' <=> e \in errors'
      /\ errors' \subseteq Fields \cup Items /\ errors \subseteq errors'
      /\ misused' \subseteq errors' \cap Fields
      /\ timing = "running" => misused' = {}
  <2>. HIDE DEF fs, IInv
  <2>1. TypeOK /\ FieldInv /\ fs \in SUBSET Fields
    BY <1>2 DEF IInv
  <2>2. \A e \in failures : Failed(e)' /\ ~ Failed(e)
    BY <1>5
  <2>. HIDE DEF failures
  <2>. QED
    BY <1>2, <1>3, <1>6, <1>7, <2>1, <2>2, ErrorsFollow
<1>. HIDE DEF failures
<1>9. made' \in [Paths -> Nat]
  BY <1>2, <1>3, NewNodes DEF TypeOK, Began
<1>10. TypeOK'
  BY <1>1, <1>2, <1>8, <1>9, EndHooksType DEF TypeOK, config
<1>11. FieldInv'
  <2>1. ASSUME NEW e \in Fields, NEW g \in Subfields(e), field'[e] # "done"
        PROVE  field'[g] = "idle"
    <3>1. field[e] # "done"
      BY <1>2, <2>1
    <3>2. g \in Fields /\ field[g] = "idle" /\ Parent(g) = e
      BY <3>1, SubfieldsOf DEF FieldInv
    <3>3. g # f /\ g \notin fs
      BY <1>2, <2>1, <3>2, SubfieldsOf DEF Below
    <3>. QED
      BY <1>2, <3>2, <3>3
  <2>2. ASSUME NEW i \in Items, NEW g \in Subfields(i), item'[i] # "done"
        PROVE  field'[g] = "idle"
    <3>1. item[i] # "done"
      BY <1>2, <2>2
    <3>2. g \in Fields /\ field[g] = "idle" /\ Parent(g) = i
      BY <3>1, SubfieldsOf DEF FieldInv
    <3>3. g # f /\ g \notin fs
      BY <1>2, <3>2, SubfieldsOf, Shape DEF Below
    <3>. QED
      BY <1>2, <3>2, <3>3
  <2>3. ASSUME NEW i \in Items, field'[Parent(i)] \notin {"listed", "done"}
        PROVE  item'[i] = "idle"
    <3>1. Parent(i) \in Fields
      BY Shape
    <3>2. CASE Parent(i) = f
      BY <1>2, <2>3, <3>2
    <3>3. CASE Parent(i) # f
      BY <1>2, <1>4, <2>3, <3>1, <3>3 DEF FieldInv
    <3>. QED
      BY <3>2, <3>3
  <2>4. /\ timing' = "running" => misused' = {}
        /\ pc' \in {"executing", "ending"} => timing' = "running" /\ header' = Undefined
    BY <1>1, <1>8 DEF FieldInv
  <2>5. ~(pc' # "executing" /\ response' = {})
    BY <1>1, <1>2 DEF FieldInv
  <2>. QED
    BY <1>8, <2>1, <2>2, <2>3, <2>4, <2>5 DEF FieldInv
<1>12. PolicyInv'
  <2>1. header = Undefined
    BY <1>2 DEF FieldInv, PolicyInv
  <2>2. \A g \in Fields : field'[g] = "done" => g = f \/ field[g] = "done"
    BY <1>2, <1>4
  <2>3. \A g \in Fields : field[g] \in {"done", "failed"} => field'[g] = field[g]
    BY <1>2
  <2>4. field[f] \notin {"done", "failed"} /\ field'[f] \in {"done", "failed"}
    BY <1>2
  <2>5. UNCHANGED <<preset, header>>
    BY <1>1 DEF config
  <2>. QED
    BY <1>1, <2>1, <2>2, <2>3, <2>4, <2>5, EndHooksPolicy
<1>13. NodeInv'
  <2>. SUFFICES ASSUME tracer # "none" PROVE NodeInv'
    BY <1>1 DEF NodeInv, config
  <2>1. TreeInv /\ ended = {g \in Fields : field[g] \in {"done", "failed"}} \ misused
    BY DEF NodeInv
  <2>2. \A g \in misused : g \in Fields /\ field[g] = "failed"
    BY DEF TypeOK, FieldInv, Failed
  <2>3. made[f] = 1
    BY <1>2, <2>1, <2>2 DEF TreeInv
  <2>4. TreeInv'
    <3>1. fs \in SUBSET Subfields(f)
      BY DEF Below
    <3>2. \A g \in Fields \ fs : field'[g] = "idle" <=> field[g] = "idle"
      BY <1>2
    <3>3. \A i \in Items : item[i] = "done" => item'[i] = "done"
      BY <1>2
    <3>4. f \notin Items /\ f \in Fields \cup Items
      BY Shape
    <3>. HIDE DEF fs
    <3>. QED
      BY <1>2, <1>3, <2>1, <2>3, <3>1, <3>2, <3>3, <3>4, TreeGrows
  <2>5. misused' = misused \cup (fs \ new) /\ ended' = ended \cup {f}
    BY <1>1, <1>3 DEF Began, EndHooks
  <2>6. ended' = {g \in Fields : field'[g] \in {"done", "failed"}} \ misused'
    <3>1. ASSUME NEW g \in Fields
          PROVE  g \in ended' <=> field'[g] \in {"done", "failed"} /\ g \notin misused'
      <4>1. CASE g = f
        BY <1>2, <2>2, <2>5, <4>1
      <4>2. CASE g \in fs
        <5>1. field'[g] = (IF g \in new THEN "resolving" ELSE "failed") /\ g \notin misused
          BY <1>2, <1>3, <2>2, <4>2 DEF Began
        <5>. QED
          BY <1>2, <2>1, <2>5, <4>2, <5>1
      <4>3. CASE g # f /\ g \notin fs
        BY <1>2, <2>1, <2>5, <4>3
      <4>. QED
        BY <4>1, <4>2, <4>3
    <3>2. ended' \subseteq Fields
      BY <1>10 DEF TypeOK
    <3>. QED
      BY <3>1, <3>2
  <2>7. pc' = "sent" \/ (pc' = "ending" /\ tracer' = "inline") => placed' = Placed(response')
    BY <1>1 DEF NodeInv, config
  <2>8. Placed(response') = Placed(response)'
    BY DEF Placed
  <2>. QED
    BY <2>4, <2>6, <2>7, <2>8 DEF NodeInv
<1>. QED
  BY <1>10, <1>11, <1>12, <1>13

-----------------------------------------------------------------------------
(* Lists.                                                                  *)

LEMMA FieldListsInv ==
  ASSUME IInv, NEW f \in Fields, FieldLists(f) PROVE IInv'
<1>. USE DEF IInv
<1>1. /\ field[f] = "resolving"
      /\ field' = [field EXCEPT ![f] = "listed"]
      /\ item' = [i \in Items |-> IF i \in ItemsOf(f) THEN "pending" ELSE item[i]]
      /\ UNCHANGED <<config, pc, policy, overall, made, ended, timing, errors, response,
                     placed, header, misused>>
  BY DEF FieldLists, Enumerate
<1>2. /\ \A g \in Fields : field'[g] = IF g = f THEN "listed" ELSE field[g]
      /\ \A i \in Items : item'[i] = IF Parent(i) = f THEN "pending" ELSE item[i]
      /\ \A i \in Items : Parent(i) = f => item[i] = "idle"
  BY <1>1 DEF ItemsOf, TypeOK, FieldInv
<1>3. TypeOK'
  BY <1>1 DEF TypeOK, config
<1>4. \A e \in Fields \cup Items : Failed(e)' <=> Failed(e)
  BY <1>1, <1>2, Shape DEF Failed
<1>5. FieldInv'
  <2>1. /\ \A e \in Fields : \A g \in Subfields(e) : field'[e] # "done" => field'[g] = "idle"
        /\ \A i \in Items : \A g \in Subfields(i) : item'[i] # "done" => field'[g] = "idle"
    BY <1>1, <1>2, SubfieldsOf DEF FieldInv
  <2>2. \A i \in Items : field'[Parent(i)] \notin {"listed", "done"} => item'[i] = "idle"
    BY <1>2, Shape DEF FieldInv
  <2>3. ~(pc' # "executing" /\ response' = {})
    BY <1>1 DEF FieldInv
  <2>. QED
    BY <1>1, <1>4, <2>1, <2>2, <2>3 DEF FieldInv
<1>6. PolicyInv'
  <2>1. header = Undefined
    BY <1>1 DEF FieldInv, PolicyInv
  <2>2. \A g \in Fields : /\ field'[g] = "done" <=> field[g] = "done"
                          /\ field'[g] \in {"done", "failed"} <=> field[g] \in {"done", "failed"}
    BY <1>1, <1>2
  <2>. QED
    BY <1>1, <2>1, <2>2 DEF PolicyInv, config
<1>7. NodeInv'
  <2>. SUFFICES ASSUME tracer # "none" PROVE NodeInv'
    BY <1>1 DEF NodeInv, config
  <2>1. \A g \in Fields : /\ field'[g] = "idle" <=> field[g] = "idle"
                          /\ field'[g] \in {"done", "failed"} <=> field[g] \in {"done", "failed"}
    BY <1>1, <1>2
  <2>2. TreeInv'
    BY <1>1, <1>2, <2>1, Shape DEF NodeInv, TreeInv
  <2>3. ended' = {g \in Fields : field'[g] \in {"done", "failed"}} \ misused'
    BY <1>1, <2>1 DEF NodeInv
  <2>. QED
    BY <1>1, <2>2, <2>3 DEF NodeInv, config, Placed
<1>. QED
  BY <1>3, <1>5, <1>6, <1>7

LEMMA ListSettlesInv ==
  ASSUME IInv, NEW f \in Fields, NEW hint \in DynamicHints, ListSettles(f, hint)
  PROVE  IInv'
<1>. USE DEF IInv
<1>1. /\ field[f] = "listed" /\ EndHooks(f, hint)
      /\ field' = [field EXCEPT ![f] = "done"]
      /\ UNCHANGED <<config, pc, item, made, timing, errors, response, placed, header, misused>>
  BY DEF ListSettles
<1>2. \A g \in Fields : field'[g] = IF g = f THEN "done" ELSE field[g]
  BY <1>1 DEF TypeOK
<1>3. TypeOK'
  BY <1>1, EndHooksType DEF TypeOK, config
<1>4. \A e \in Fields \cup Items : Failed(e)' <=> Failed(e)
  BY <1>1, <1>2, Shape DEF Failed
<1>5. FieldInv'
  <2>1. /\ \A e \in Fields : \A g \in Subfields(e) : field'[e] # "done" => field'[g] = "idle"
        /\ \A i \in Items : \A g \in Subfields(i) : item'[i] # "done" => field'[g] = "idle"
    <3>1. \A p \in Fields \cup Items : \A g \in Subfields(p) : g \in Fields
      BY DEF Subfields
    <3>2. \A e \in Fields : \A g \in Subfields(e) : field'[e] # "done" => field[g] = "idle"
      BY <1>1, <1>2 DEF FieldInv
    <3>3. \A i \in Items : \A g \in Subfields(i) : item'[i] # "done" => field[g] = "idle"
      BY <1>1, <1>2 DEF FieldInv
    <3>. QED
      BY <1>1, <1>2, <3>1, <3>2, <3>3
  <2>2. \A i \in Items : field'[Parent(i)] \notin {"listed", "done"} => item'[i] = "idle"
    BY <1>1, <1>2, Shape DEF FieldInv
  <2>3. ~(pc' # "executing" /\ response' = {})
    BY <1>1 DEF FieldInv
  <2>. QED
    BY <1>1, <1>4, <2>1, <2>2, <2>3 DEF FieldInv
<1>6. PolicyInv'
  <2>1. header = Undefined /\ UNCHANGED <<preset, header>>
    BY <1>1 DEF FieldInv, PolicyInv, config
  <2>2. /\ \A g \in Fields : field'[g] = "done" => g = f \/ field[g] = "done"
        /\ \A g \in Fields : field[g] \in {"done", "failed"} => field'[g] = field[g]
        /\ field[f] \notin {"done", "failed"} /\ field'[f] \in {"done", "failed"}
    BY <1>1, <1>2
  <2>. QED
    BY <1>1, <2>1, <2>2, EndHooksPolicy
<1>7. NodeInv'
  <2>. SUFFICES ASSUME tracer # "none" PROVE NodeInv'
    BY <1>1 DEF NodeInv, config
  <2>1. \A g \in misused : g \in Fields /\ field[g] = "failed"
    BY DEF TypeOK, FieldInv, Failed
  <2>2. TreeInv'
    BY <1>1, <1>2, Shape DEF NodeInv, TreeInv
  <2>3. ended' = ended \cup {f}
    BY <1>1 DEF EndHooks
  <2>4. ended' = {g \in Fields : field'[g] \in {"done", "failed"}} \ misused'
    BY <1>1, <1>2, <2>1, <2>3 DEF NodeInv
  <2>. QED
    BY <1>1, <2>2, <2>4 DEF NodeInv, config, Placed
<1>. QED
  BY <1>3, <1>5, <1>6, <1>7

LEMMA ItemSettlesInv ==
  ASSUME IInv, NEW i \in Items, NEW state \in {"done", "failed"}, ItemSettles(i, state)
  PROVE  IInv'
<1>. DEFINE gs == Below(i, state)
            failures == IF state = "failed" THEN {i} ELSE {}
<1>. USE DEF IInv
<1>1. /\ item[i] = "pending" /\ item' = [item EXCEPT ![i] = state]
      /\ Resolve(gs, field, failures)
      /\ UNCHANGED <<config, pc, policy, overall, ended, timing, response, placed, header>>
  BY DEF ItemSettles, Below
<1>2. \A j \in Items : item'[j] = IF j = i THEN state ELSE item[j]
  BY <1>1 DEF TypeOK
<1>3. gs \subseteq Subfields(i) /\ gs \in SUBSET Fields /\ \A g \in gs : field[g] = "idle"
  BY <1>1, SubfieldsOf DEF Below, FieldInv
<1>4. /\ field' \in [Fields -> {"idle", "resolving", "listed", "done", "failed"}]
      /\ \A g \in Fields \ gs : field'[g] = field[g]
      /\ \E new : Began(gs, new, failures)
  <2>1. field \in [Fields -> {"idle", "resolving", "listed", "done", "failed"}]
    BY DEF TypeOK
  <2>. HIDE DEF gs, failures
  <2>. QED
    BY <1>1, <1>3, <2>1, Beginning
<1>5. PICK new : Began(gs, new, failures)
  BY <1>4
<1>6. \A g \in gs : field'[g] = IF g \in new THEN "resolving" ELSE "failed"
  BY <1>5 DEF Began
<1>7. i \notin Fields /\ ~ Failed(i) /\ (state = "failed" => Failed(i)')
  BY <1>1, <1>2, Shape DEF Failed
<1>8. failures \subseteq (Fields \cup Items) \ gs
  BY <1>3, <1>7
<1>9. \A e \in (Fields \cup Items) \ (gs \cup failures) : Failed(e)' <=> Failed(e)
  BY <1>1, <1>2, <1>4 DEF Failed
<1>10. /\ \A e \in Fields \cup Items : Failed(e)' <=> e \in errors'
       /\ errors' \subseteq Fields \cup Items /\ errors \subseteq errors'
       /\ misused' \subseteq errors' \cap Fields
       /\ timing = "running" => misused' = {}
  <2>1. \A e \in failures : Failed(e)' /\ ~ Failed(e)
    BY <1>7
  <2>2. TypeOK /\ FieldInv
    OBVIOUS
  <2>. HIDE DEF gs, failures, IInv
  <2>. QED
    BY <1>3, <1>5, <1>8, <1>9, <2>1, <2>2, ErrorsFollow
<1>. HIDE DEF failures
<1>11. TypeOK'
  <2>1. made' \in [Paths -> Nat]
    BY <1>3, <1>5, NewNodes DEF TypeOK, Began
  <2>2. item' \in [Items -> {"idle", "pending", "done", "failed"}]
    BY <1>1 DEF TypeOK
  <2>. QED
    BY <1>1, <1>4, <1>10, <2>1, <2>2 DEF TypeOK, config
<1>12. FieldInv'
  <2>1. ASSUME NEW e \in Fields, NEW g \in Subfields(e), field'[e] # "done"
        PROVE  field'[g] = "idle"
    <3>1. g \in Fields /\ Parent(g) = e /\ g \notin gs
      BY <1>3, SubfieldsOf, Shape
    <3>2. field[e] # "done"
      BY <1>3, <1>4, <2>1
    <3>. QED
      BY <1>4, <3>1, <3>2 DEF FieldInv
  <2>2. ASSUME NEW j \in Items, NEW g \in Subfields(j), item'[j] # "done"
        PROVE  field'[g] = "idle"
    <3>1. g \in Fields /\ Parent(g) = j /\ item[j] # "done"
      BY <1>1, <1>2, <2>2, SubfieldsOf
    <3>2. g \notin gs
      <4>1. j = i => state # "done"
        BY <1>2, <2>2
      <4>. QED
        BY <1>3, <3>1, <4>1, SubfieldsOf DEF Below
    <3>. QED
      BY <1>4, <3>1, <3>2 DEF FieldInv
  <2>3. ASSUME NEW j \in Items, field'[Parent(j)] \notin {"listed", "done"}
        PROVE  item'[j] = "idle"
    <3>1. Parent(j) \in Fields
      BY Shape
    <3>2. field[Parent(j)] \notin {"listed", "done"}
      BY <1>3, <1>4, <2>3, <3>1
    <3>. QED
      BY <1>1, <1>2, <3>2 DEF FieldInv
  <2>4. /\ timing' = "running" => misused' = {}
        /\ pc' \in {"executing", "ending"} => timing' = "running" /\ header' = Undefined
    BY <1>1, <1>10 DEF FieldInv
  <2>5. pc' # "executing" /\ response' = {} => \A f \in Fields : field'[f] = "done"
    <3>1. ASSUME NEW f \in Fields, field[f] = "done" PROVE field'[f] = "done"
      BY <1>3, <1>4, <3>1
    <3>. QED
      BY <1>1, <3>1 DEF FieldInv
  <2>. QED
    BY <1>10, <2>1, <2>2, <2>3, <2>4, <2>5 DEF FieldInv
<1>13. \A g \in Fields : field[g] \in {"done", "failed"} => field'[g] = field[g]
  BY <1>3, <1>4
<1>14. \A g \in Fields : field'[g] = "done" => field[g] = "done"
  BY <1>4, <1>6
<1>15. PolicyInv'
  <2>1. \A g \in Fields : field[g] \in {"done", "failed"} => field'[g] \in {"done", "failed"}
    BY <1>13
  <2>. QED
    BY <1>1, <1>14, <2>1 DEF PolicyInv, config
<1>16. NodeInv'
  <2>. SUFFICES ASSUME tracer # "none" PROVE NodeInv'
    BY <1>1 DEF NodeInv, config
  <2>1. TreeInv /\ ended = {g \in Fields : field[g] \in {"done", "failed"}} \ misused
    BY DEF NodeInv
  <2>2. \A g \in misused : g \in Fields /\ field[g] = "failed"
    BY DEF TypeOK, FieldInv, Failed
  <2>3. made[Parent(i)] = 1
    <3>1. Parent(i) \in Fields /\ field[Parent(i)] \in {"listed", "done"}
      BY <1>1, Shape DEF FieldInv
    <3>. QED
      BY <2>1, <2>2, <3>1 DEF TreeInv
  <2>4. TreeInv'
    <3>1. \A g \in Fields \ gs : field'[g] = "idle" <=> field[g] = "idle"
      BY <1>4
    <3>2. gs # {} => item'[i] = "done"
      BY <1>2 DEF Below
    <3>3. \A j \in Items : item[j] = "done" => item'[j] = "done"
      BY <1>1, <1>2
    <3>. HIDE DEF gs
    <3>. QED
      BY <1>3, <1>5, <1>7, <2>1, <2>3, <3>1, <3>2, <3>3, TreeGrows
  <2>5. ended' = {g \in Fields : field'[g] \in {"done", "failed"}} \ misused'
    <3>1. misused' = misused \cup (gs \ new) /\ ended' = ended
      BY <1>1, <1>5 DEF Began
    <3>2. ASSUME NEW g \in Fields
          PROVE  g \in ended' <=> field'[g] \in {"done", "failed"} /\ g \notin misused'
      <4>1. CASE g \in gs
        BY <1>3, <1>6, <2>1, <2>2, <3>1, <4>1
      <4>2. CASE g \notin gs
        BY <1>4, <2>1, <3>1, <4>2
      <4>. QED
        BY <4>1, <4>2
    <3>3. ended' \subseteq Fields
      BY <1>11 DEF TypeOK
    <3>. QED
      BY <3>2, <3>3
  <2>. QED
    BY <1>1, <2>4, <2>5 DEF NodeInv, config, Placed
<1>. QED
  BY <1>11, <1>12, <1>15, <1>16

-----------------------------------------------------------------------------
(* The request ends.                                                       *)

\* The errors that a tracer that runs is told of are where they belong: a field
\* with one has its node, an item has none.
LEMMA AtTheirNodes ==
  ASSUME TypeOK, FieldInv, NodeInv, tracer # "none", timing = "running",
         NEW es \in SUBSET errors
  PROVE  Places(es) = Placed(es)
<1>1. \A e \in es : e \in Fields \cup Items /\ Failed(e) /\ misused = {}
  BY DEF TypeOK, FieldInv
<1>2. ASSUME NEW e \in es, e \in Fields PROVE made[e] > 0
  BY <1>1, <1>2 DEF NodeInv, TreeInv, Failed
<1>3. ASSUME NEW e \in es, e \notin Fields PROVE ~ (made[e] > 0)
  BY <1>1, <1>3 DEF NodeInv, TreeInv, Failed
<1>4. \A e \in es : (IF made[e] > 0 THEN e ELSE <<>>) = (IF e \in Fields THEN e ELSE <<>>)
  BY <1>2, <1>3
<1>. QED
  BY <1>4 DEF Places, Placed

\* Without an error, nothing is null, and the outcome is known when all is done.
LEMMA CleanOutcome ==
  ASSUME TypeOK, FieldInv, OutcomeIsKnown, errors = {}
  PROVE  \A f \in Fields : field[f] = "done"
<1>1. \A p : ~ Nulled(p)
  BY DEF Nulled, FieldInv
<1>2. \A f \in Fields : field[f] \notin {"idle", "resolving", "listed", "failed"}
  BY <1>1 DEF OutcomeIsKnown, FieldInv, Failed
<1>. QED
  BY <1>2 DEF TypeOK

LEMMA ExecutionSettlesInv ==
  ASSUME IInv, ExecutionSettles PROVE IInv'
<1>. USE DEF IInv, ExecutionSettles, config
<1>1. timing = "running" /\ header = Undefined
  BY DEF FieldInv
<1>2. placed' = IF tracer = "inline" THEN Placed(errors) ELSE placed
  BY <1>1, AtTheirNodes
<1>3. TypeOK'
  BY <1>2 DEF TypeOK, Paths, Placed
<1>4. FieldInv'
  BY CleanOutcome DEF FieldInv, Failed
<1>5. PolicyInv'
  BY <1>1 DEF PolicyInv
<1>6. NodeInv'
  BY <1>2 DEF NodeInv, TreeInv, Placed
<1>. QED
  BY <1>3, <1>4, <1>5, <1>6

LEMMA SendResponseInv ==
  ASSUME IInv, SendResponse PROVE IInv'
<1>. USE DEF IInv, SendResponse, config
<1>1. timing = "running"
  BY DEF FieldInv
<1>2. placed' = IF tracer = "usage" THEN Placed(response) ELSE placed
  BY <1>1, AtTheirNodes DEF TypeOK
<1>3. PolicyIfCacheable(overall) \in Policies
  BY DEF TypeOK, Policies, Scopes, PolicyIfCacheable
<1>4. TypeOK'
  BY <1>2, <1>3 DEF TypeOK, Paths, Placed
<1>5. FieldInv'
  BY <1>1 DEF FieldInv, Failed
<1>6. PolicyInv'
  BY DEF PolicyInv
<1>7. tracer \in {"none", "inline", "usage"}
  BY ExecutionAssumption DEF TypeOK
<1>8. NodeInv'
  BY <1>2, <1>7 DEF NodeInv, TreeInv, Placed
<1>. QED
  BY <1>4, <1>5, <1>6, <1>8

LEMMA UsageTraceEndsInv ==
  ASSUME IInv, UsageTraceEnds PROVE IInv'
<1>. USE DEF IInv, UsageTraceEnds, config
<1>1. TypeOK' /\ FieldInv'
  BY DEF TypeOK, FieldInv, Failed
<1>2. PolicyInv' /\ NodeInv'
  BY DEF PolicyInv, NodeInv, TreeInv, Placed
<1>. QED
  BY <1>1, <1>2

LEMMA NextInv == IInv /\ [Next]_vars => IInv'
<1>. SUFFICES ASSUME IInv, [Next]_vars PROVE IInv'
  OBVIOUS
<1>1. ASSUME NEW f \in Fields, NEW hint \in DynamicHints, NEW state \in {"done", "failed"},
             FieldSettles(f, hint, state)
      PROVE  IInv'
  BY <1>1, FieldSettlesInv
<1>2. CASE UNCHANGED vars
  <2>1. TypeOK' /\ FieldInv'
    BY <1>2 DEF IInv, vars, config, TypeOK, FieldInv, Failed
  <2>2. PolicyInv' /\ NodeInv'
    BY <1>2 DEF IInv, vars, config, PolicyInv, NodeInv, TreeInv, Placed
  <2>. QED
    BY <2>1, <2>2 DEF IInv
<1>. QED
  BY <1>1, <1>2, FieldListsInv, ListSettlesInv, ItemSettlesInv, ExecutionSettlesInv,
     SendResponseInv, UsageTraceEndsInv DEF Next

LEMMA Invariant == Spec => []IInv
  BY InitInv, NextInv, PTL DEF Spec

-----------------------------------------------------------------------------
\* Every variable keeps its type: policies of any fields, combined in any order,
\* are policies, and every node is at a path of the operation.
THEOREM TypeCorrect == Spec => []TypeOK
<1>1. IInv => TypeOK
  BY DEF IInv
<1>. QED
  BY <1>1, Invariant, PTL

LEMMA HeaderCovers == IInv => HeaderCoversResponse
<1>. SUFFICES ASSUME IInv, header # Undefined PROVE HeaderCoversResponse
  BY DEF HeaderCoversResponse
<1>1. /\ Cacheable(overall) /\ header = PolicyIfCacheable(overall)
      /\ \A f \in Fields : field[f] = "done"
  BY DEF IInv, PolicyInv, FieldInv
<1>2. CASE IsRestricted(preset)
  BY <1>1, <1>2 DEF IInv, PolicyInv, HeaderCoversResponse
<1>3. CASE ~IsRestricted(preset)
  <2>. DEFINE ages == {policy[f].maxAge : f \in Fields} \ {Undefined}
  <2>1. /\ overall.maxAge \in Nat /\ overall.maxAge # Undefined
        /\ overall.scope \in Scopes \cup {Undefined}
        /\ \A f \in Fields : policy[f].maxAge \in Nat \cup {Undefined}
    <3>1. overall \in Policies /\ \A f \in Fields : policy[f] \in Policies
      BY DEF IInv, TypeOK
    <3>. QED
      BY <1>1, <3>1, PolicyFields DEF Cacheable
  <2>2. overall.maxAge \in ages /\ \A a \in ages : overall.maxAge <= a
    BY <1>1, <1>3, <2>1 DEF IInv, PolicyInv
  <2>3. ages \subseteq Nat
    BY <2>1
  <2>4. (CHOOSE a \in ages : \A b \in ages : a <= b) = overall.maxAge
    <3>. HIDE DEF ages
    <3>. QED
      BY <2>2, <2>3, LeastIs
  <2>5. overall.scope = "PRIVATE" <=> \E f \in Fields : policy[f].scope = "PRIVATE"
    BY <1>1, <1>3 DEF IInv, PolicyInv
  <2>6. header = [maxAge |-> overall.maxAge,
                  scope |-> IF overall.scope = "PRIVATE" THEN "PRIVATE" ELSE "PUBLIC"]
    BY <1>1, <2>1, PolicyAssumption DEF PolicyIfCacheable, Scopes
  <2>7. ages # {}
    BY <2>2
  <2>8. header = Strictest(Fields)
    BY <2>4, <2>5, <2>6, <2>7 DEF Strictest
  <2>9. \A f \in Fields : Len(f) = 1 => policy[f].maxAge # Undefined
    BY <1>1 DEF IInv, PolicyInv
  <2>. QED
    BY <1>1, <1>3, <2>8, <2>9 DEF HeaderCoversResponse
<1>. QED
  BY <1>2, <1>3

\* The Cache-Control header is the strictest policy of all the fields of the
\* response, or the policy that was set before the execution, and no response
\* whose execution had not finished, or failed anywhere, has one.
THEOREM HeaderSafety == Spec => []HeaderCoversResponse
  BY HeaderCovers, Invariant, PTL

\* The trace's nodes are the fields that were resolved and the items above them,
\* once each, in a tree; of the errors of a response, those of fields are where they
\* happened, and those of list items at the root.
THEOREM TraceSafety == Spec => []TraceFollowsExecution
<1>1. IInv => TraceFollowsExecution
  <2>. SUFFICES ASSUME IInv, tracer # "none" PROVE TraceFollowsExecution
    BY DEF TraceFollowsExecution
  <2>1. \A p \in Paths : made[p] <= 1
    BY Shape DEF IInv, NodeInv, TreeInv
  <2>. QED
    BY <2>1 DEF IInv, NodeInv, TreeInv, Placed, TraceFollowsExecution
<1>. QED
  BY <1>1, Invariant, PTL

\* What HttpQuery takes from the pipeline: only a response that was sent, and with
\* all its data, is called cacheable.
THEOREM HeaderMeansData == Spec => [](header # Undefined => pc = "sent" /\ response = {})
<1>1. IInv => (header # Undefined => pc = "sent" /\ response = {})
  BY DEF IInv, PolicyInv
<1>. QED
  BY <1>1, Invariant, PTL

-----------------------------------------------------------------------------
(* HTTP answers.                                                           *)

\* Nothing has been made of the request.
Unread ==
  /\ op = <<>> /\ outcome = <<>> /\ cacheable = {} /\ executed = {}
  /\ httpHeader = Unset /\ status = Unset

Operands == Http!OperationsOf(request)

\* Its operations run, or have.
Begun ==
  /\ \A i \in DOMAIN Operands : ~Http!Malformed(Operands[i])
  /\ DOMAIN op = DOMAIN Operands
  /\ DOMAIN outcome = DOMAIN Operands /\ Len(outcome) = Len(Operands)
  /\ \A i \in executed :
       /\ i \in DOMAIN op
       /\ \/ op[i] = "executing"
          \/ op[i] = "done" /\ outcome[i] \in {"data", "partial", "errors", "thrown"}
  /\ request.payload.kind = "none" =>
       \A i \in DOMAIN op : /\ op[i] # "executing"
                            /\ op[i] = "done" => outcome[i] \notin {"data", "partial"}
  /\ cacheable \subseteq DOMAIN op
  /\ httpHeader = "max-age" => cacheable # {}
  /\ ~Http!IsBatch => Len(Operands) = 1
  /\ Len(Operands) >= 1

\* The status says what one operation has come to; a batch has no other than 200.
StatusFits ==
  IF Http!IsBatch THEN status \in {Unset, 200}
  ELSE IF op[1] # "done" THEN status = Unset
  ELSE \/ outcome[1] \in {"data", "partial"} /\ status = Unset
       \/ outcome[1] = "errors" /\ status \in {Unset, 405}
       \/ outcome[1] = "miss" /\ status = 200

AnswerFits ==
  /\ answer.header \in {Unset, httpHeader}
  /\ \/ answer.outcomes = <<>>
     \/ /\ answer.outcomes = outcome /\ request.payload.kind # "none"
        /\ answer.status = 200
  /\ \A i \in DOMAIN op : op[i] = "done"
  /\ Http!IsBatch => answer.outcomes = outcome
  /\ ~Http!IsBatch =>
       (answer.status = 200 <=> outcome[1] \in {"data", "partial", "miss"})

HttpInv ==
  /\ framework \in Frameworks /\ request \in Http!HttpRequests
  /\ httpPc \in {"arrived", "options", "payload", "running", "answered"}
  /\ httpPc \in {"arrived", "options", "payload"} => Unread /\ answer = Unset
  /\ httpPc \in {"options", "payload"} => request.payload.kind # "invalid"
  /\ httpPc = "running" => Begun /\ StatusFits /\ answer = Unset
  /\ httpPc = "answered" =>
       \/ Unread /\ answer.outcomes = <<>> /\ answer.header = Unset
       \/ Begun /\ AnswerFits

LEMMA HttpInitInv == Http!Init => HttpInv
  BY DEF Http!Init, HttpInv, Unread

LEMMA OperandsType ==
  ASSUME Http!HttpAssumption, request \in Http!HttpRequests
  PROVE  /\ DOMAIN Operands = 1 .. Len(Operands) /\ Len(Operands) \in Nat
         /\ request.payload.kind # "none" => Operands = request.payload.operations
         /\ request.payload.kind = "none" => request.payload.operations = <<>>
         /\ ~Http!IsBatch /\ request.payload.kind # "invalid" => Len(Operands) = 1
         /\ request.payload.kind # "invalid" => Len(Operands) >= 1
<1>1. request.payload \in Http!Payloads
  BY DEF Http!HttpRequests
<1>2. CASE request.payload.kind = "none"
  <2>1. request.payload.operations = <<>> /\ Operands = <<"none">>
    BY <1>1, <1>2 DEF Http!Payloads, Operands, Http!OperationsOf
  <2>. QED
    BY <1>2, <2>1
<1>3. CASE request.payload.kind = "invalid"
  <2>1. request.payload.operations = <<>> /\ Operands = <<>>
    BY <1>1, <1>3 DEF Http!Payloads, Operands, Http!OperationsOf
  <2>. QED
    BY <1>3, <2>1
<1>4. CASE request.payload.kind = "one"
  <2>1. Operands = request.payload.operations /\ Operands \in Http!Single
    BY <1>1, <1>4 DEF Http!Payloads, Operands, Http!OperationsOf
  <2>2. PICK o : Operands = <<o>>
    BY <2>1 DEF Http!Single
  <2>. QED
    BY <1>4, <2>1, <2>2
<1>5. CASE request.payload.kind = "batch"
  <2>1. Operands = request.payload.operations /\ Operands \in Seq(Http!Operations) \ {<<>>}
    BY <1>1, <1>5 DEF Http!Payloads, Http!HttpAssumption, Operands, Http!OperationsOf
  <2>. QED
    BY <1>5, <2>1 DEF Http!IsBatch
<1>. QED
  BY <1>1, <1>2, <1>3, <1>4, <1>5 DEF Http!Payloads


\* What an integration hands to runHttpQuery() has no invalid body.
LEMMA RunsValid ==
  ASSUME Http!HttpAssumption, framework \in Frameworks, request \in Http!HttpRequests,
         Http!Route(framework, request) = Http!Run
  PROVE  request.payload.kind # "invalid"
<1>. SUFFICES ASSUME request.payload.kind = "invalid"
             PROVE  Http!Route(framework, request).to # "run"
  BY DEF Http!Run
<1>1. request.method = "POST" /\ ~Http!WantsLandingPage(request)
  BY DEF Http!HttpRequests, Http!WantsLandingPage
<1>2. \A q : q.payload.kind = "invalid" => Http!Express(q).to # "run"
  BY DEF Http!Express, Http!To, Http!Refuse
<1>3. Http!ExpressAtRoot(request).to # "run"
  <2>. DEFINE q == IF request.path = "other" THEN [request EXCEPT !.path = "graphql"]
                   ELSE request
  <2>1. q.payload.kind = "invalid"
    BY DEF Http!HttpRequests
  <2>2. Http!ExpressAtRoot(request) = Http!Express(q)
    BY DEF Http!ExpressAtRoot
  <2>. HIDE DEF q
  <2>. QED
    BY <1>2, <2>1, <2>2
<1>4. /\ Http!Koa(request).to # "run" /\ Http!Fastify(request).to # "run"
      /\ Http!Hapi(request).to # "run"
  BY <1>1 DEF Http!Koa, Http!Fastify, Http!Hapi, Http!To, Http!Refuse
<1>5. /\ Http!Micro(request).to # "run" /\ Http!Azure(request).to # "run"
      /\ Http!Cloudflare(request).to # "run"
  BY <1>1 DEF Http!Micro, Http!GraphqlMicro, Http!Azure, Http!GraphqlAzureFunction,
              Http!Cloudflare, Http!To, Http!Refuse
<1>6. framework \in Http!AllFrameworks
  BY DEF Http!HttpAssumption
<1>. QED
  BY <1>2, <1>3, <1>4, <1>5, <1>6 DEF Http!Route, Http!AllFrameworks

LEMMA HandleInv ==
  ASSUME Http!HttpAssumption, HttpInv, NEW healthy \in BOOLEAN, Http!Handle(healthy)
  PROVE  HttpInv'
  BY RunsValid DEF HttpInv, Http!Handle, Http!Fail, Unread

LEMMA ResolveOptionsInv ==
  ASSUME HttpInv, NEW code \in {200, 400, 500}, Http!ResolveOptions(code) PROVE HttpInv'
  BY DEF HttpInv, Http!ResolveOptions, Http!Fail, Unread

LEMMA ReadPayloadInv ==
  ASSUME Http!HttpAssumption, HttpInv, Http!ReadPayload PROVE HttpInv'
<1>1. CASE httpPc' = "answered"
  BY <1>1 DEF HttpInv, Http!ReadPayload, Http!Fail, Http!StartAll, Unread
<1>2. CASE httpPc' # "answered"
  <2>1. Http!StartAll(Operands) /\ \A i \in DOMAIN Operands : ~Http!Malformed(Operands[i])
    BY <1>2 DEF Http!ReadPayload, Http!Fail, Operands
  <2>2. /\ UNCHANGED <<framework, request, cacheable, httpHeader, status, executed, answer>>
        /\ httpPc' = "running"
    BY <2>1 DEF Http!ReadPayload, Http!StartAll
  <2>3. /\ framework \in Frameworks /\ request \in Http!HttpRequests
        /\ answer = Unset /\ cacheable = {} /\ executed = {}
        /\ httpHeader = Unset /\ status = Unset /\ request.payload.kind # "invalid"
    BY DEF HttpInv, Http!ReadPayload, Unread
  <2>4. Operands' = Operands /\ Http!IsBatch' = Http!IsBatch
    BY <2>2 DEF Operands, Http!OperationsOf, Http!IsBatch
  <2>5. /\ DOMAIN Operands = 1 .. Len(Operands) /\ Len(Operands) \in Nat
        /\ ~Http!IsBatch => Len(Operands) = 1
        /\ Len(Operands) >= 1
    BY <2>3, OperandsType
  <2>6. /\ DOMAIN op' = DOMAIN Operands /\ \A i \in DOMAIN Operands : op'[i] = "resolving"
        /\ DOMAIN outcome' = DOMAIN Operands /\ Len(outcome') = Len(Operands)
        /\ \A i \in DOMAIN Operands : outcome'[i] = Unset
    BY <2>1, <2>5 DEF Http!StartAll
  <2>7. Http!HttpAssumption => "max-age" # Unset
    BY DEF Http!HttpAssumption
  <2>8. \A i \in DOMAIN Operands' : ~Http!Malformed(Operands'[i])
    BY <2>1, <2>4
  <2>9. Begun'
    BY <2>2, <2>3, <2>4, <2>5, <2>6, <2>7, <2>8 DEF Begun, Http!Malformed
  <2>10. StatusFits'
    BY <2>2, <2>3, <2>4, <2>5, <2>6 DEF StatusFits
  <2>. QED
    BY <2>2, <2>3, <2>9, <2>10 DEF HttpInv
<1>. QED
  BY <1>1, <1>2

\* The responses that an operation may have, and what they set.
LEMMA RespondsInv ==
  ASSUME Http!HttpAssumption, HttpInv, NEW i \in DOMAIN op, NEW what, NEW head, NEW code,
         httpPc = "running", op[i] # "done", Http!Responds(i, what, head, code),
         UNCHANGED <<framework, request, httpPc, answer, executed>>,
         \/ what = "errors" /\ head = Unset /\ code \in {Unset, 405}
         \/ what = "miss" /\ head = "no-cache" /\ code = 200
         \/ /\ what \in {"data", "partial"} /\ code = Unset
            /\ request.payload.kind # "none",
         what = "miss" => i \notin executed,
         code = 405 => ~Http!IsBatch
  PROVE  HttpInv'
<1>. USE DEF HttpInv
<1>1. /\ op' = [op EXCEPT ![i] = "done"]
      /\ outcome' = [outcome EXCEPT ![i] = what]
      /\ cacheable' = IF head = "max-age" THEN cacheable \cup {i} ELSE cacheable
      /\ httpHeader' = IF head # Unset THEN head ELSE httpHeader
      /\ status' = IF code # Unset THEN code ELSE status
  BY DEF Http!Responds
<1>2. Operands' = Operands /\ Http!IsBatch' = Http!IsBatch
  BY DEF Operands, Http!OperationsOf, Http!IsBatch
<1>3. Begun /\ StatusFits
  OBVIOUS
<1>4. Len(outcome') = Len(Operands)
  <2>1. DOMAIN outcome' = DOMAIN Operands
    BY <1>1, <1>3 DEF Begun
  <2>. QED
    BY <1>1, <2>1, OperandsType
<1>5. /\ \A j \in DOMAIN op : op'[j] = IF j = i THEN "done" ELSE op[j]
      /\ \A j \in DOMAIN op : outcome'[j] = IF j = i THEN what ELSE outcome[j]
      /\ DOMAIN op' = DOMAIN Operands /\ DOMAIN outcome' = DOMAIN Operands
  BY <1>1, <1>3 DEF Begun
<1>6. \A j \in executed : j \in DOMAIN op' /\
         (\/ op'[j] = "executing"
          \/ op'[j] = "done" /\ outcome'[j] \in {"data", "partial", "errors", "thrown"})
  BY <1>3, <1>5 DEF Begun
<1>7. httpHeader' = "max-age" => cacheable' # {}
  BY <1>1, <1>3 DEF Begun
<1>8. Begun'
  BY <1>1, <1>2, <1>3, <1>4, <1>5, <1>6, <1>7 DEF Begun
<1>9. StatusFits'
  <2>. SUFFICES ASSUME ~Http!IsBatch PROVE StatusFits'
    BY <1>1, <1>2, <1>3 DEF StatusFits
  <2>1. i = 1 /\ status = Unset
    BY <1>3, OperandsType DEF Begun, StatusFits
  <2>. QED
    BY <1>1, <1>2, <1>5, <2>1 DEF StatusFits, Http!HttpAssumption
<1>. QED
  BY <1>8, <1>9

LEMMA ResolvedInv ==
  ASSUME Http!HttpAssumption, HttpInv, NEW i \in DOMAIN op, Http!Resolved(i)
  PROVE  HttpInv'
<1>. USE DEF HttpInv, Http!Resolved
<1>1. httpPc = "running" /\ op[i] = "resolving" /\ i \notin executed
  BY DEF Begun
<1>2. CASE Http!Responds(i, "errors", Unset, Unset) /\ UNCHANGED executed
  BY <1>1, <1>2, RespondsInv DEF Http!HttpAssumption
<1>3. CASE Http!Responds(i, "miss", "no-cache", 200) /\ UNCHANGED executed
  BY <1>1, <1>3, RespondsInv
<1>4. CASE /\ request.payload.kind # "none"
           /\ op' = [op EXCEPT ![i] = "executing"]
           /\ executed' = executed \cup {i}
           /\ UNCHANGED <<outcome, cacheable, httpHeader, status>>
  <2>1. Operands' = Operands /\ Http!IsBatch' = Http!IsBatch
    BY DEF Operands, Http!OperationsOf, Http!IsBatch
  <2>2. Begun'
    BY <1>1, <1>4, <2>1 DEF Begun
  <2>3. StatusFits'
    BY <1>1, <1>4, <2>1, OperandsType DEF Begun, StatusFits
  <2>. QED
    BY <1>1, <2>2, <2>3
<1>. QED
  BY <1>2, <1>3, <1>4

LEMMA RefusedInv ==
  ASSUME Http!HttpAssumption, HttpInv, NEW i \in DOMAIN op, Http!Refused(i)
  PROVE  HttpInv'
<1>1. httpPc = "running" /\ op[i] = "resolving" /\ i \notin executed
  BY DEF HttpInv, Begun, Http!Refused
<1>2. ~Http!IsBatch
  BY DEF HttpInv, Http!HttpRequests, Http!Refused, Http!IsBatch
<1>. QED
  BY <1>1, <1>2, RespondsInv DEF Http!Refused

LEMMA ExecutedInv ==
  ASSUME Http!HttpAssumption, HttpInv, NEW i \in DOMAIN op,
         NEW what \in Http!Outcomes, NEW head \in Http!Headers \ {"no-cache"},
         Http!Executed(i, what, head)
  PROVE  HttpInv'
<1>1. request.payload.kind # "none"
  BY DEF HttpInv, Begun, Http!Executed
<1>2. what = "errors" => head = Unset
  BY DEF Http!Executed, Http!Headers
<1>. QED
  BY <1>1, <1>2, RespondsInv DEF Http!Executed, Http!HttpAssumption

LEMMA ThrowsInv ==
  ASSUME Http!HttpAssumption, HttpInv, NEW i \in DOMAIN op, Http!Throws(i)
  PROVE  HttpInv'
<1>. USE DEF HttpInv, Http!Throws
<1>1. /\ httpPc = "running" /\ Begun /\ StatusFits
      /\ op' = [op EXCEPT ![i] = "done"] /\ outcome' = [outcome EXCEPT ![i] = "thrown"]
      /\ UNCHANGED <<request, cacheable, httpHeader, status, executed>>
  OBVIOUS
<1>2. Operands' = Operands /\ Http!IsBatch' = Http!IsBatch
  BY DEF Operands, Http!OperationsOf, Http!IsBatch
<1>3. /\ \A j \in DOMAIN op : op'[j] = IF j = i THEN "done" ELSE op[j]
      /\ \A j \in DOMAIN op : outcome'[j] = IF j = i THEN "thrown" ELSE outcome[j]
      /\ DOMAIN op' = DOMAIN Operands /\ DOMAIN outcome' = DOMAIN Operands
  BY <1>1 DEF Begun
<1>4. Len(outcome') = Len(Operands)
  BY <1>1, <1>3, OperandsType
<1>5. \A j \in executed : j \in DOMAIN op' /\
         (\/ op'[j] = "executing"
          \/ op'[j] = "done" /\ outcome'[j] \in {"data", "partial", "errors", "thrown"})
  BY <1>1, <1>3 DEF Begun
<1>6. Begun'
  BY <1>1, <1>2, <1>3, <1>4, <1>5 DEF Begun
<1>7. CASE Http!IsBatch
  BY <1>1, <1>2, <1>6, <1>7 DEF StatusFits
<1>8. CASE ~Http!IsBatch
  <2>1. Http!Fail(500, Unset) /\ i = 1
    BY <1>1, <1>8, OperandsType DEF Begun
  <2>2. \A j \in DOMAIN op' : op'[j] = "done"
    BY <1>1, <1>3, <1>8, OperandsType DEF Begun
  <2>3. AnswerFits'
    BY <1>1, <1>2, <1>3, <2>1, <2>2 DEF Http!Fail, AnswerFits
  <2>. QED
    BY <1>6, <2>1, <2>3 DEF Http!Fail
<1>. QED
  BY <1>7, <1>8

LEMMA AnswerInv ==
  ASSUME Http!HttpAssumption, HttpInv, Http!Answer PROVE HttpInv'
<1>. USE DEF HttpInv, Http!Answer
<1>1. /\ httpPc = "running" /\ Begun /\ StatusFits /\ httpPc' = "answered"
      /\ \A i \in DOMAIN op : op[i] = "done"
      /\ UNCHANGED <<framework, request, op, outcome, cacheable, httpHeader, status, executed>>
  BY DEF Http!Fail, Http!Ops
<1>2. Operands' = Operands /\ Http!IsBatch' = Http!IsBatch
  BY DEF Operands, Http!OperationsOf, Http!IsBatch
<1>3. Begun'
  BY <1>1, <1>2 DEF Begun
<1>4. CASE Http!IsBatch
  <2>1. request.payload.kind # "none"
    BY <1>4 DEF Http!IsBatch
  <2>. QED
    BY <1>1, <1>2, <1>3, <1>4, <2>1 DEF AnswerFits, StatusFits
<1>5. CASE ~Http!IsBatch
  <2>1. 1 \in DOMAIN op /\ op[1] = "done"
    BY <1>1, <1>5, OperandsType DEF Begun
  <2>2. \/ outcome[1] \in {"data", "partial"} /\ status = Unset
        \/ outcome[1] = "errors" /\ status \in {Unset, 405}
        \/ outcome[1] = "miss" /\ status = 200
    BY <1>1, <1>5, <2>1 DEF StatusFits
  <2>3. outcome[1] \in {"data", "partial"} => request.payload.kind # "none"
    BY <1>1, <2>1 DEF Begun
  <2>4. AnswerFits'
    BY <1>1, <1>2, <1>5, <2>1, <2>2, <2>3
       DEF AnswerFits, Http!Fail, Http!HttpAssumption
  <2>. QED
    BY <1>1, <1>3, <2>4
<1>. QED
  BY <1>4, <1>5

LEMMA HttpNextInv ==
  ASSUME Http!HttpAssumption, HttpInv, [Http!Next]_(Http!vars) PROVE HttpInv'
<1>1. CASE UNCHANGED Http!vars
  <2>1. Operands' = Operands /\ Http!IsBatch' = Http!IsBatch
    BY <1>1 DEF Http!vars, Operands, Http!OperationsOf, Http!IsBatch
  <2>2. Unread' = Unread /\ Begun' = Begun
    BY <1>1, <2>1 DEF Http!vars, Unread, Begun
  <2>3. StatusFits' = StatusFits /\ AnswerFits' = AnswerFits
    BY <1>1, <2>1 DEF Http!vars, StatusFits, AnswerFits
  <2>. QED
    BY <1>1, <2>2, <2>3 DEF Http!vars, HttpInv
<1>. QED
  BY <1>1, HandleInv, ResolveOptionsInv, ReadPayloadInv, ResolvedInv, RefusedInv,
     ExecutedInv, ThrowsInv, AnswerInv DEF Http!Next, Http!Ops

\* An answer is whole.
LEMMA HttpWhole == ASSUME Http!HttpAssumption, HttpInv PROVE Http!AnswersAreWhole
<1>. SUFFICES ASSUME answer # Unset PROVE Http!AnswersAreWhole
  BY DEF Http!AnswersAreWhole
<1>1. httpPc = "answered"
  BY DEF HttpInv
<1>2. CASE Unread /\ answer.outcomes = <<>> /\ answer.header = Unset
  BY <1>2 DEF Http!AnswersAreWhole, Unread, Http!HttpAssumption
<1>3. CASE Begun /\ AnswerFits
  <2>1. /\ DOMAIN Operands = 1 .. Len(Operands) /\ Len(Operands) \in Nat
        /\ request.payload.kind # "none" => Operands = request.payload.operations
        /\ request.payload.kind = "none" => request.payload.operations = <<>>
    BY OperandsType DEF HttpInv
  <2>2. \A i \in DOMAIN request.payload.operations :
          ~Http!Malformed(request.payload.operations[i])
    BY <1>3, <2>1 DEF Begun
  <2>3. answer.outcomes # <<>> =>
          /\ Len(answer.outcomes) = Len(request.payload.operations)
          /\ \A i \in DOMAIN answer.outcomes :
               op[i] = "done" /\ answer.outcomes[i] = outcome[i]
          /\ answer.status = 200
    BY <1>3, <2>1 DEF Begun, AnswerFits
  <2>6. Http!IsBatch => answer.outcomes # <<>>
    <3>1. outcome # <<>>
      <4>1. 1 \in DOMAIN outcome /\ DOMAIN <<>> = {}
        BY <1>3, <2>1 DEF Begun
      <4>. QED
        BY <4>1
    <3>. QED
      BY <1>3, <3>1 DEF AnswerFits
  <2>7. \A i \in executed : outcome[i] # "miss"
    BY <1>1, <1>3 DEF Begun, AnswerFits, HttpInv
  <2>4. ~Http!IsBatch => (answer.status = 200 <=> outcome[1] \in {"data", "partial", "miss"})
    BY <1>3 DEF AnswerFits
  <2>5. answer.header = "max-age" =>
          IF Http!IsBatch THEN cacheable # {} ELSE cacheable = DOMAIN op
    <3>1. ~Http!IsBatch => DOMAIN op = {1}
      BY <1>3, <2>1 DEF Begun
    <3>2. answer.header = "max-age" => cacheable # {} /\ cacheable \subseteq DOMAIN op
      BY <1>3 DEF Begun, AnswerFits, Http!HttpAssumption
    <3>. QED
      BY <3>1, <3>2
  <2>. QED
    BY <2>2, <2>3, <2>4, <2>5, <2>6, <2>7 DEF Http!AnswersAreWhole, Http!Ops
<1>. QED
  BY <1>1, <1>2, <1>3 DEF HttpInv

-----------------------------------------------------------------------------
(* The execution within a request.                                         *)

\* What a request has of its first operation is what the execution sent.
SentInv ==
  1 \in cacheable =>
    /\ op[1] = "done" /\ outcome[1] = "data"
    /\ pc = "sent" /\ header # Undefined /\ response = {}

AllInv == IInv /\ HttpInv /\ SentInv

\* A step of a request and one of an execution are one of each, or none.
LEMMA StepsApart ==
  [AnswersNext]_<<vars, httpVars>> => [Next]_vars /\ [Http!Next]_(Http!vars)
  BY DEF AnswersNext, HttpStep, ExecutionStep, httpVars, Http!vars

LEMMA SentStays ==
  ASSUME AllInv, [AnswersNext]_<<vars, httpVars>> PROVE SentInv'
<1>. USE DEF AllInv
<1>1. CASE ExecutionStep
  <2>1. UNCHANGED httpVars /\ [Next]_vars
    BY <1>1 DEF ExecutionStep
  <2>2. pc = "sent" => UNCHANGED <<pc, header, response>>
    BY <2>1 DEF Next, vars, FieldSettles, FieldLists,
         ListSettles, ItemSettles, ExecutionSettles, SendResponse, UsageTraceEnds, config
  <2>. QED
    BY <2>1, <2>2 DEF SentInv, httpVars
<1>2. CASE HttpStep
  <2>1. /\ Http!Next /\ UNCHANGED vars
        /\ (op # <<>> /\ op[1] = "executing" /\ op'[1] = "done" /\ outcome'[1] # "thrown")
             => RespondsAsSent
    BY <1>2 DEF HttpStep
  <2>2. /\ httpPc = "running" => Begun
        /\ httpPc \in {"arrived", "options", "payload"} => cacheable = {}
    BY DEF HttpInv, Unread
  <2>3. ASSUME 1 \in cacheable PROVE SentInv'
    <3>1. op[1] = "done" /\ outcome[1] = "data"
      BY <2>3 DEF SentInv
    <3>2. ASSUME NEW i \in DOMAIN op,
                 \/ Http!Resolved(i) \/ Http!Refused(i) \/ Http!Throws(i)
                 \/ \E what \in Http!Outcomes, head \in Http!Headers \ {"no-cache"} :
                      Http!Executed(i, what, head)
          PROVE  op'[1] = op[1] /\ outcome'[1] = outcome[1]
      <4>1. httpPc = "running" /\ op[i] # "done"
        BY <3>2 DEF Http!Resolved, Http!Refused, Http!Throws, Http!Executed
      <4>2. i # 1 /\ 1 \in DOMAIN op /\ 1 \in DOMAIN outcome
        BY <2>2, <2>3, <3>1, <4>1 DEF Begun
      <4>3. /\ \E to : op' = [op EXCEPT ![i] = to]
            /\ outcome' = outcome \/ \E what : outcome' = [outcome EXCEPT ![i] = what]
        BY <3>2 DEF Http!Resolved, Http!Refused, Http!Throws, Http!Executed, Http!Responds
      <4>. QED
        BY <4>2, <4>3
    <3>3. op'[1] = op[1] /\ outcome'[1] = outcome[1]
      <4>1. CASE \/ \E healthy \in BOOLEAN : Http!Handle(healthy)
                 \/ \E code \in {200, 400, 500} : Http!ResolveOptions(code)
                 \/ Http!Answer
        BY <4>1 DEF Http!Handle, Http!ResolveOptions, Http!Answer
      <4>2. CASE Http!ReadPayload
        BY <2>2, <2>3, <4>2 DEF Http!ReadPayload
      <4>. QED
        BY <2>1, <3>2, <4>1, <4>2 DEF Http!Next, Http!Ops
    <3>. QED
      BY <2>1, <2>3, <3>1, <3>3 DEF SentInv, vars
  <2>4. ASSUME 1 \notin cacheable, 1 \in cacheable' PROVE SentInv'
    <3>1. PICK i \in DOMAIN op :
            \/ Http!Resolved(i) \/ Http!Refused(i) \/ Http!Throws(i)
            \/ \E what \in Http!Outcomes, head \in Http!Headers \ {"no-cache"} :
                 Http!Executed(i, what, head)
      BY <2>1, <2>4 DEF Http!Next, Http!Ops, Http!Handle, Http!ResolveOptions,
           Http!ReadPayload, Http!Answer
    <3>2. PICK what : Http!Executed(i, what, "max-age") /\ i = 1
      BY <2>4, <3>1, AnswersAssumption
         DEF Http!Resolved, Http!Refused, Http!Throws, Http!Executed, Http!Responds,
             Http!HttpAssumption
    <3>3. 1 \in DOMAIN op /\ 1 \in DOMAIN outcome
      BY <2>2, <3>1, <3>2 DEF Http!Executed, Begun
    <3>4. /\ op[1] = "executing" /\ op'[1] = "done" /\ outcome'[1] = "data"
      BY <3>2, <3>3 DEF Http!Executed, Http!Responds
    <3>5. RespondsAsSent
      BY <2>1, <3>3, <3>4
    <3>. QED
      BY <2>1, <2>4, <3>4, <3>5 DEF RespondsAsSent, SentInv, vars
  <2>. QED
    BY <2>3, <2>4 DEF SentInv
<1>3. CASE UNCHANGED <<vars, httpVars>>
  BY <1>3 DEF SentInv, vars, httpVars
<1>. QED
  BY <1>1, <1>2, <1>3 DEF AnswersNext

LEMMA AnswersInvariant == AnswersSpec => []AllInv
<1>1. AnswersInit => AllInv
  <2>1. AnswersInit => cacheable = {}
    BY DEF AnswersInit, Http!Init
  <2>. QED
    BY <2>1, InitInv, HttpInitInv DEF AnswersInit, AllInv, SentInv
<1>2. AllInv /\ [AnswersNext]_<<vars, httpVars>> => AllInv'
  BY StepsApart, SentStays, NextInv, HttpNextInv, AnswersAssumption DEF AllInv
<1>. QED
  BY <1>1, <1>2, PTL DEF AnswersSpec

\* The composition refines both: what holds of an execution or of a request by
\* itself, holds here.
THEOREM Composed == AnswersSpec => Spec /\ Http!Spec
<1>1. AnswersInit => Init /\ Http!Init
  BY DEF AnswersInit
<1>. QED
  BY <1>1, StepsApart, PTL DEF AnswersSpec, Spec, Http!Spec

\* Whatever the integration, the batch and the order in which the fields of the
\* first operation settle, the answer is whole, and what it says of caching is
\* what all the fields allow.
THEOREM WholeAnswers == AnswersSpec => []AnswersAreWhole
<1>1. AllInv => AnswersAreWhole
  <2>. SUFFICES ASSUME AllInv PROVE AnswersAreWhole
    OBVIOUS
  <2>1. Http!AnswersAreWhole
    BY HttpWhole, AnswersAssumption DEF AllInv
  <2>2. ASSUME answer # Unset, ~Http!IsBatch, answer.header = "max-age"
        PROVE  1 \in cacheable
    <3>1. cacheable = DOMAIN op
      BY <2>1, <2>2 DEF Http!AnswersAreWhole, Http!Ops
    <3>2. Begun
      BY <2>2, AnswersAssumption DEF AllInv, HttpInv, Http!HttpAssumption
    <3>. QED
      BY <3>1, <3>2, <2>2 DEF Begun
  <2>3. 1 \in cacheable =>
          /\ outcome[1] = "data" /\ header # Undefined
          /\ \A f \in Fields : field[f] = "done"
    BY DEF AllInv, IInv, FieldInv, SentInv
  <2>4. HeaderCoversResponse
    BY HeaderCovers DEF AllInv
  <2>. QED
    BY <2>1, <2>2, <2>3, <2>4 DEF AnswersAreWhole, HeaderCoversResponse
<1>. QED
  BY <1>1, AnswersInvariant, PTL
=============================================================================

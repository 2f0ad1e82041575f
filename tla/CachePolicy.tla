----------------------------- MODULE CachePolicy -----------------------------
(***************************************************************************)
(* Cache policies: how long a response may be kept, and for whom.  A hint  *)
(* is a policy too; what it leaves undefined it says nothing about.        *)
(***************************************************************************)
EXTENDS Naturals

CONSTANT Undefined

ASSUME PolicyAssumption == Undefined \notin Nat \cup {"PUBLIC", "PRIVATE"}

Scopes == {"PUBLIC", "PRIVATE"}
Policies == [maxAge : Nat \cup {Undefined}, scope : Scopes \cup {Undefined}]

NewPolicy == [maxAge |-> Undefined, scope |-> Undefined]

\* restrict(): the smaller age; once private, always private.
Restrict(policy, hint) ==
  [maxAge |-> IF /\ hint.maxAge # Undefined
                 /\ policy.maxAge = Undefined \/ hint.maxAge < policy.maxAge
              THEN hint.maxAge ELSE policy.maxAge,
   scope |-> IF hint.scope # Undefined /\ policy.scope # "PRIVATE"
             THEN hint.scope ELSE policy.scope]

\* replace(): what the hint defines.
Replace(policy, hint) ==
  [maxAge |-> IF hint.maxAge # Undefined THEN hint.maxAge ELSE policy.maxAge,
   scope |-> IF hint.scope # Undefined THEN hint.scope ELSE policy.scope]

Cacheable(policy) == policy.maxAge \notin {Undefined, 0}

\* policyIfCacheable(), of a cacheable policy.
PolicyIfCacheable(policy) ==
  [maxAge |-> policy.maxAge,
   scope |-> IF policy.scope = Undefined THEN "PUBLIC" ELSE policy.scope]

IsRestricted(hint) == hint.maxAge # Undefined \/ hint.scope # Undefined
=============================================================================

---------------------------- MODULE CachingProofs ----------------------------
(***************************************************************************)
(* Theorems of CachePolicy, ResponseCache and RestDataSource, for any      *)
(* requests, sessions, operations, policies, calls, data sources and       *)
(* headers, and each kind of cache.                                        *)
(***************************************************************************)
EXTENDS Caching, TLAPS

\* The fields of an operation restrict its policy in whatever order they are
\* resolved: the order makes no difference, and a hint given twice has no effect.
THEOREM RestrictInAnyOrder ==
  ASSUME NEW p \in Policies, NEW a \in Policies, NEW b \in Policies
  PROVE  /\ Restrict(Restrict(p, a), b) = Restrict(Restrict(p, b), a)
         /\ Restrict(Restrict(p, a), a) = Restrict(p, a)
<1>1. Restrict(Restrict(p, a), b).maxAge = Restrict(Restrict(p, b), a).maxAge
  BY PolicyAssumption DEF Restrict, Policies
<1>2. Restrict(Restrict(p, a), b).scope = Restrict(Restrict(p, b), a).scope
  BY PolicyAssumption DEF Restrict, Policies, Scopes
<1>3. Restrict(Restrict(p, a), b) = Restrict(Restrict(p, b), a)
  BY <1>1, <1>2 DEF Restrict
<1>4. Restrict(Restrict(p, a), a) = Restrict(p, a)
  BY PolicyAssumption DEF Restrict, Policies, Scopes
<1>. QED
  BY <1>3, <1>4

\* A hint only ever makes a policy stricter: what is private stays private, and
\* an age never grows, nor is it lost.
THEOREM RestrictTightens ==
  ASSUME NEW p \in Policies, NEW hint \in Policies
  PROVE  /\ Restrict(p, hint) \in Policies
         /\ p.scope = "PRIVATE" => Restrict(p, hint).scope = "PRIVATE"
         /\ p.maxAge # Undefined =>
              /\ Restrict(p, hint).maxAge \in Nat
              /\ Restrict(p, hint).maxAge <= p.maxAge
BY PolicyAssumption DEF Restrict, Policies, Scopes

-----------------------------------------------------------------------------
\* A value that is kept under a key may be kept there.
Fit(key, value) ==
  /\ value.data.base = key.base
  /\ Cacheable(value.data.policy)
  /\ value.cachePolicy = PolicyIfCacheable(value.data.policy)
  /\ value.data.executed <= value.cacheTime /\ value.cacheTime <= now
  /\ IF value.data.policy.scope = "PRIVATE"
     THEN /\ hook /\ key.mode = "Private"
          /\ key.session = value.data.who /\ value.data.who # NoSession
     ELSE /\ key.mode # "Private"
          /\ hook => (key.mode = "NoSession" <=> value.data.who = NoSession)

\* What is in the in-memory cache has not outlived its policy when it expires.
Expires(entry) ==
  /\ entry.until \in Nat
  /\ entry.until <= entry.value.cacheTime + entry.value.data.policy.maxAge

StoreInv ==
  /\ \A w \in writes : Fit(w.key, w.value) /\ (kind = "lru" => w.value.cacheTime = now)
  /\ \A k \in Keys : store[k] # Absent =>
       Fit(k, store[k].value) /\ (kind = "lru" => Expires(store[k]))

\* What request r was answered with from the cache.
HitInv(r) ==
  /\ MayHave(r, result[r]) /\ result[r] \in Results
  /\ age[r] \in Int /\ result[r].executed + age[r] <= now
  /\ kind = "lru" => age[r] <= result[r].policy.maxAge
  /\ overall[r] = PolicyIfCacheable(result[r].policy)

RequestInv(r) ==
  /\ pc[r] # "idle" =>
       base[r] \in Bases /\ sessionId[r] = IF hook THEN who[r] ELSE NoSession
  /\ pc[r] = "private" => sessionId[r] # NoSession
  /\ pc[r] \in {"idle", "private", "shared", "executing"} =>
       ~hit[r] /\ overall[r] = NewPolicy
  /\ pc[r] = "sending" /\ ~hit[r] =>
       /\ result[r] \in Results /\ result[r].base = base[r] /\ result[r].who = who[r]
       /\ result[r].policy = overall[r] /\ result[r].executed <= now
  /\ hit[r] => HitInv(r)

IInv == TypeOK /\ StoreInv /\ \A r \in Requests : RequestInv(r)

-----------------------------------------------------------------------------
LEMMA NewPolicyType == NewPolicy \in Policies
BY DEF NewPolicy, Policies

LEMMA InitInv == Init => IInv
<1>. SUFFICES ASSUME Init PROVE IInv
  OBVIOUS
<1>1. TypeOK
  BY NewPolicyType DEF Init, TypeOK, Who
<1>2. StoreInv
  BY DEF Init, StoreInv
<1>3. \A r \in Requests : RequestInv(r)
  BY DEF Init, RequestInv
<1>. QED
  BY <1>1, <1>2, <1>3 DEF IInv

\* The policy that a cacheable response is kept with.
LEMMA PolicyKept ==
  ASSUME NEW p \in Policies, Cacheable(p)
  PROVE  /\ PolicyIfCacheable(p) \in Policies
         /\ PolicyIfCacheable(p).maxAge = p.maxAge
         /\ p.maxAge \in Nat \ {0}
         /\ Replace(NewPolicy, PolicyIfCacheable(p)) = PolicyIfCacheable(p)
BY PolicyAssumption DEF Cacheable, PolicyIfCacheable, Policies, Scopes, Replace, NewPolicy

\* What a lookup finds was written under its key, and is not out of date.
LEMMA LookupFinds ==
  ASSUME IInv, NEW key \in Keys, Value(kind, store[key], now) # Absent
  PROVE  LET value == Value(kind, store[key], now)
         IN  /\ value \in Values /\ Fit(key, value)
             /\ kind = "lru" => now - value.cacheTime <= value.data.policy.maxAge
<1>. DEFINE value == Value(kind, store[key], now)
<1>1. Live(kind, store[key], now) /\ value = store[key].value /\ store[key] # Absent
  BY DEF Value, Live
<1>2. store[key] \in Entries
  BY <1>1 DEF IInv, TypeOK
<1>3. value \in Values /\ Fit(key, value)
  BY <1>1, <1>2 DEF IInv, StoreInv, Entries
<1>4. ASSUME kind = "lru" PROVE now - value.cacheTime <= value.data.policy.maxAge
  <2>1. Expires(store[key])
    BY <1>1, <1>4 DEF IInv, StoreInv
  <2>2. now <= store[key].until
    BY <1>1, <1>4, <2>1, KeyValueAssumption DEF Live, Expires
  <2>3. value.cacheTime \in Nat /\ value.data.policy \in Policies
    BY <1>3 DEF Values, Results
  <2>4. value.data.policy.maxAge \in Nat
    BY <1>3, <2>3, PolicyKept DEF Fit
  <2>. QED
    BY <1>1, <2>1, <2>2, <2>3, <2>4 DEF Expires, IInv, TypeOK
<1>. QED
  BY <1>3, <1>4

\* Nothing that was kept, or answered, becomes wrong by what a request does.
LEMMA StoreKept ==
  ASSUME StoreInv, UNCHANGED <<config, writes, store, now>>
  PROVE  StoreInv'
BY DEF StoreInv, Fit, Expires, config

LEMMA RequestKept ==
  ASSUME NEW r \in Requests, RequestInv(r), TypeOK, now' \in Nat, now <= now',
         UNCHANGED <<config, base[r], sessionId[r], pc[r], hit[r], age[r], result[r],
                     overall[r]>>
  PROVE  RequestInv(r)'
<1>1. HitInv(r) => HitInv(r)'
  BY DEF HitInv, MayHave, config, Results, TypeOK
<1>. QED
  BY <1>1 DEF RequestInv, config, Results, TypeOK

-----------------------------------------------------------------------------
\* The keys that a request looks up, and may write to.
LEMMA KeyType ==
  ASSUME IInv, NEW r \in Requests, pc[r] # "idle", NEW mode \in Modes
  PROVE  /\ Key(r, mode) \in Keys
         /\ Key(r, mode).base = base[r] /\ Key(r, mode).mode = mode
         /\ mode = "Private" => Key(r, mode).session = sessionId[r]
BY DEF Key, Keys, Who, IInv, TypeOK, RequestInv

\* A lookup under a key whose values r may have.
LEMMA FoundInv ==
  ASSUME IInv, NEW r \in Requests, pc[r] \in {"private", "shared"},
         NEW mode \in Modes, NEW next \in {"shared", "executing"},
         mode = (IF pc[r] = "private" THEN "Private" ELSE SharedMode(r)),
         Found(r, Key(r, mode), next),
         UNCHANGED <<config, base, sessionId, writes, store, now>>
  PROVE  IInv'
<1>. USE DEF IInv
<1>. DEFINE key == Key(r, mode)
            value == Value(kind, store[key], now)
<1>1. /\ base[r] \in Bases /\ sessionId[r] = IF hook THEN who[r] ELSE NoSession
      /\ pc[r] = "private" => sessionId[r] # NoSession
      /\ ~hit[r] /\ overall[r] = NewPolicy
  BY DEF RequestInv
<1>2. /\ key \in Keys /\ key.base = base[r] /\ key.mode = mode
      /\ mode = "Private" => key.session = sessionId[r]
  BY KeyType
<1>3. StoreInv'
  BY StoreKept
<1>4. ASSUME NEW q \in Requests, q # r PROVE RequestInv(q)'
  <2>1. UNCHANGED <<config, base[q], sessionId[q], pc[q], hit[q], age[q], result[q],
                    overall[q]>>
    BY <1>4 DEF Found, TypeOK
  <2>. QED
    BY <2>1, RequestKept DEF TypeOK
<1>5. CASE value = Absent
  <2>1. pc' = [pc EXCEPT ![r] = next] /\ UNCHANGED <<hit, age, result, overall>>
    BY <1>5 DEF Found
  <2>2. TypeOK'
    BY <2>1 DEF TypeOK, config
  <2>3. RequestInv(r)'
    BY <1>1, <2>1 DEF RequestInv, config, TypeOK
  <2>. QED
    BY <1>3, <1>4, <2>2, <2>3
<1>6. CASE value # Absent
  <2>1. /\ pc' = [pc EXCEPT ![r] = "sending"] /\ hit' = [hit EXCEPT ![r] = TRUE]
        /\ age' = [age EXCEPT ![r] = now - value.cacheTime]
        /\ result' = [result EXCEPT ![r] = value.data]
        /\ overall' = [overall EXCEPT ![r] = Replace(NewPolicy, value.cachePolicy)]
    BY <1>1, <1>6 DEF Found
  <2>2. /\ value \in Values /\ Fit(key, value)
        /\ kind = "lru" => now - value.cacheTime <= value.data.policy.maxAge
    BY <1>2, <1>6, LookupFinds
  <2>. HIDE DEF value, key
  <2>3. /\ value.data \in Results /\ value.data.policy \in Policies
        /\ value.cacheTime \in Nat /\ value.data.executed \in Nat
    BY <2>2 DEF Values, Results
  <2>4. /\ value.cachePolicy = PolicyIfCacheable(value.data.policy)
        /\ Replace(NewPolicy, value.cachePolicy) = PolicyIfCacheable(value.data.policy)
        /\ PolicyIfCacheable(value.data.policy) \in Policies
    BY <2>2, <2>3, PolicyKept DEF Fit
  <2>5. TypeOK'
    BY <2>1, <2>3, <2>4 DEF TypeOK, config
  <2>6. MayHave(r, value.data)
    <3>1. CASE value.data.policy.scope = "PRIVATE"
      <4>1. hook /\ mode = "Private" /\ value.data.who = sessionId[r]
            /\ value.data.who # NoSession
        BY <1>2, <2>2, <3>1 DEF Fit
      <4>. QED
        BY <1>1, <1>2, <2>2, <3>1, <4>1 DEF Fit, MayHave
    <3>2. CASE value.data.policy.scope # "PRIVATE"
      <4>1. mode = SharedMode(r) /\ (hook => (mode = "NoSession" <=> value.data.who = NoSession))
        BY <1>2, <2>2, <3>2 DEF Fit
      <4>2. hook => (mode = "NoSession" <=> who[r] = NoSession)
        BY <1>1, <4>1 DEF SharedMode
      <4>. QED
        BY <1>2, <2>2, <3>2, <4>1, <4>2 DEF Fit, MayHave
    <3>. QED
      BY <3>1, <3>2
  <2>7. /\ result'[r] = value.data /\ age'[r] = now - value.cacheTime /\ hit'[r]
        /\ overall'[r] = PolicyIfCacheable(value.data.policy) /\ pc'[r] = "sending"
    BY <2>1, <2>4 DEF TypeOK
  <2>8. HitInv(r)'
    <3>1. MayHave(r, result[r])'
      BY <2>6, <2>7 DEF MayHave, config
    <3>2. value.data.executed <= value.cacheTime /\ now \in Nat
      BY <2>2 DEF Fit, TypeOK
    <3>. QED
      BY <2>2, <2>3, <2>7, <3>1, <3>2 DEF HitInv, config
  <2>9. RequestInv(r)'
    BY <1>1, <2>7, <2>8 DEF RequestInv, config
  <2>. QED
    BY <1>3, <1>4, <2>5, <2>9
<1>. QED
  BY <1>5, <1>6

\* What a response writes may be read by whom it is kept for.
LEMMA SendInv ==
  ASSUME IInv, NEW r \in Requests, NEW write \in BOOLEAN, Send(r, write)
  PROVE  IInv'
<1>. USE DEF IInv
<1>. DEFINE new(mode) == [key |-> Key(r, mode),
                          value |-> [data |-> result[r], cacheTime |-> now,
                                     cachePolicy |-> PolicyIfCacheable(overall[r])]]
<1>1. /\ pc[r] = "sending" /\ pc' = [pc EXCEPT ![r] = "sent"]
      /\ UNCHANGED <<config, base, sessionId, hit, age, result, overall, store, now>>
  BY DEF Send
<1>2. /\ base[r] \in Bases /\ sessionId[r] = IF hook THEN who[r] ELSE NoSession
  BY <1>1 DEF RequestInv
<1>3. ASSUME NEW w \in writes', w \notin writes
      PROVE  /\ w \in [key : Keys, value : Values]
             /\ Fit(w.key, w.value) /\ w.value.cacheTime = now
  <2>1. ~hit[r] /\ Cacheable(overall[r]) /\ \E mode \in WriteModes(r) : w = new(mode)
    BY <1>3 DEF Send
  <2>2. PICK mode \in WriteModes(r) : w = new(mode)
    BY <2>1
  <2>3. /\ result[r] \in Results /\ result[r].base = base[r] /\ result[r].who = who[r]
        /\ result[r].policy = overall[r] /\ result[r].executed <= now
    BY <1>1, <2>1 DEF RequestInv
  <2>4. mode \in Modes
    BY DEF WriteModes, SharedMode, Modes
  <2>5. /\ Key(r, mode) \in Keys /\ Key(r, mode).base = base[r] /\ Key(r, mode).mode = mode
        /\ mode = "Private" => Key(r, mode).session = sessionId[r]
    BY <1>1, <2>4, KeyType
  <2>6. PolicyIfCacheable(overall[r]) \in Policies
    BY <2>1, PolicyKept DEF TypeOK
  <2>7. /\ w.key = Key(r, mode) /\ w.value.data = result[r] /\ w.value.cacheTime = now
        /\ w.value.cachePolicy = PolicyIfCacheable(overall[r])
    BY <2>2
  <2>8. w \in [key : Keys, value : Values]
    BY <2>2, <2>3, <2>5, <2>6 DEF Values, TypeOK
  <2>9. IF overall[r].scope = "PRIVATE"
        THEN /\ hook /\ mode = "Private" /\ sessionId[r] = who[r] /\ who[r] # NoSession
        ELSE /\ mode # "Private"
             /\ hook => (mode = "NoSession" <=> who[r] = NoSession)
    BY <1>2, <2>2 DEF WriteModes, SharedMode
  <2>10. Fit(w.key, w.value)
    BY <2>1, <2>3, <2>5, <2>7, <2>9 DEF Fit, TypeOK
  <2>. QED
    BY <2>7, <2>8, <2>10
<1>4. TypeOK'
  <2>1. writes' \subseteq [key : Keys, value : Values]
    BY <1>3 DEF TypeOK
  <2>. QED
    BY <1>1, <2>1 DEF TypeOK, config
<1>5. StoreInv'
  <2>1. \A w \in writes' : Fit(w.key, w.value) /\ (kind = "lru" => w.value.cacheTime = now)
    BY <1>3 DEF StoreInv
  <2>. QED
    BY <1>1, <2>1 DEF StoreInv, Fit, Expires, config
<1>6. ASSUME NEW q \in Requests, q # r PROVE RequestInv(q)'
  <2>1. UNCHANGED <<config, base[q], sessionId[q], pc[q], hit[q], age[q], result[q],
                    overall[q]>>
    BY <1>1, <1>6 DEF TypeOK
  <2>. QED
    BY <1>1, <2>1, RequestKept DEF TypeOK
<1>7. RequestInv(r)'
  <2>1. HitInv(r) => HitInv(r)'
    BY <1>1 DEF HitInv, MayHave, config
  <2>. QED
    BY <1>1, <2>1 DEF RequestInv, config, TypeOK
<1>. QED
  BY <1>4, <1>5, <1>6, <1>7

\* A write reaches the store: under its key, for as long as its policy says.
LEMMA LandInv ==
  ASSUME IInv, NEW w \in writes, Land(w)
  PROVE  IInv'
<1>. USE DEF IInv
<1>. DEFINE ttl == w.value.cachePolicy.maxAge
            entry == Entry(kind, w.value, ttl, now)
<1>1. /\ writes' = writes \ {w} /\ store' = [store EXCEPT ![w.key] = entry]
      /\ UNCHANGED <<config, base, sessionId, pc, hit, age, result, overall, now>>
  BY DEF Land
<1>2. /\ w.key \in Keys /\ w.value \in Values
      /\ Fit(w.key, w.value) /\ (kind = "lru" => w.value.cacheTime = now)
  BY DEF TypeOK, StoreInv
<1>3. ttl \in Nat \ {0} /\ ttl = w.value.data.policy.maxAge
  BY <1>2, PolicyKept DEF Fit, Values, Results
<1>4. /\ entry \in Entries /\ entry.value = w.value
      /\ kind = "lru" => entry.until = now + ttl
  <2>1. /\ LifeTime(kind, ttl) \in Nat \cup {Never}
        /\ kind = "lru" => LifeTime(kind, ttl) = ttl
    BY <1>3, KeyValueAssumption DEF LifeTime, TypeOK, Kinds
  <2>2. Never \notin Nat
    BY KeyValueAssumption
  <2>. HIDE DEF ttl
  <2>. QED
    BY <1>2, <1>3, <2>1, <2>2 DEF Entry, Entries, TypeOK
<1>. HIDE DEF ttl, entry
<1>5. TypeOK'
  BY <1>1, <1>2, <1>4 DEF TypeOK, config
<1>6. StoreInv'
  <2>1. kind = "lru" => Expires(entry)
    BY <1>2, <1>3, <1>4 DEF Expires, TypeOK, Values
  <2>2. \A k \in Keys : store'[k] # Absent =>
          Fit(k, store'[k].value) /\ (kind = "lru" => Expires(store'[k]))
    BY <1>1, <1>2, <1>4, <2>1 DEF StoreInv, TypeOK
  <2>3. \A x \in writes' : Fit(x.key, x.value) /\ (kind = "lru" => x.value.cacheTime = now)
    BY <1>1 DEF StoreInv
  <2>. QED
    BY <1>1, <2>2, <2>3 DEF StoreInv, Fit, Expires, config
<1>7. \A r \in Requests : RequestInv(r)'
  BY <1>1, RequestKept DEF TypeOK
<1>. QED
  BY <1>5, <1>6, <1>7

LEMMA ExecuteInv ==
  ASSUME IInv, NEW r \in Requests, NEW p \in CachePolicies, Execute(r, p)
  PROVE  IInv'
<1>. USE DEF IInv
<1>. DEFINE new == [base |-> base[r], who |-> who[r], policy |-> p, executed |-> now]
<1>1. /\ pc[r] = "executing" /\ overall' = [overall EXCEPT ![r] = p]
      /\ UNCHANGED <<config, base, sessionId, hit, age, writes, store, now>>
      /\ \/ pc' = [pc EXCEPT ![r] = "sending"] /\ result' = [result EXCEPT ![r] = new]
         \/ pc' = [pc EXCEPT ![r] = "sent"] /\ UNCHANGED result
  BY DEF Execute
<1>2. /\ base[r] \in Bases /\ sessionId[r] = IF hook THEN who[r] ELSE NoSession
      /\ ~hit[r] /\ p \in Policies
  BY <1>1, ResponseCacheAssumption DEF RequestInv
<1>3. new \in Results
  BY <1>2 DEF Results, TypeOK
<1>4. TypeOK'
  BY <1>1, <1>2, <1>3 DEF TypeOK, config
<1>5. StoreInv'
  BY <1>1, StoreKept
<1>6. ASSUME NEW q \in Requests, q # r PROVE RequestInv(q)'
  <2>1. UNCHANGED <<config, base[q], sessionId[q], pc[q], hit[q], age[q], result[q],
                    overall[q]>>
    BY <1>1, <1>6 DEF TypeOK
  <2>. QED
    BY <1>1, <2>1, RequestKept DEF TypeOK
<1>7. RequestInv(r)'
  BY <1>1, <1>2, <1>3 DEF RequestInv, config, TypeOK
<1>. QED
  BY <1>4, <1>5, <1>6, <1>7

LEMMA BeginInv ==
  ASSUME IInv, NEW r \in Requests, NEW b \in Bases, NEW skip \in BOOLEAN, Begin(r, b, skip)
  PROVE  IInv'
<1>. USE DEF IInv
<1>. DEFINE id == IF hook THEN who[r] ELSE NoSession
<1>1. /\ pc[r] = "idle" /\ base' = [base EXCEPT ![r] = b]
      /\ sessionId' = [sessionId EXCEPT ![r] = id]
      /\ UNCHANGED <<config, hit, age, result, overall, writes, store, now>>
  BY DEF Begin
<1>2. id \in Who /\ ~hit[r] /\ overall[r] = NewPolicy /\ sessionId'[r] = id
  BY <1>1 DEF RequestInv, TypeOK, Who
<1>3. PICK next \in {"executing", "shared", "private"} :
        pc' = [pc EXCEPT ![r] = next] /\ (next = "private" => id # NoSession)
  BY <1>2 DEF Begin
<1>4. TypeOK'
  BY <1>1, <1>2, <1>3 DEF TypeOK, config
<1>5. StoreInv'
  BY <1>1, StoreKept
<1>6. ASSUME NEW q \in Requests, q # r PROVE RequestInv(q)'
  <2>1. UNCHANGED <<config, base[q], sessionId[q], pc[q], hit[q], age[q], result[q],
                    overall[q]>>
    BY <1>1, <1>3, <1>6 DEF TypeOK
  <2>. QED
    BY <1>1, <2>1, RequestKept DEF TypeOK
<1>7. RequestInv(r)'
  BY <1>1, <1>2, <1>3 DEF RequestInv, config, TypeOK
<1>. QED
  BY <1>4, <1>5, <1>6, <1>7

LEMMA NextInv == IInv /\ [Next]_vars => IInv'
<1>. SUFFICES ASSUME IInv, [Next]_vars PROVE IInv'
  OBVIOUS
<1>1. ASSUME NEW r \in Requests, NEW b \in Bases, NEW skip \in BOOLEAN, Begin(r, b, skip)
      PROVE  IInv'
  BY <1>1, BeginInv
<1>2. ASSUME NEW r \in Requests, LookupPrivate(r) PROVE IInv'
  BY <1>2, FoundInv DEF LookupPrivate, Modes
<1>3. ASSUME NEW r \in Requests, LookupShared(r) PROVE IInv'
  <2>1. SharedMode(r) \in Modes
    BY DEF SharedMode, Modes
  <2>. QED
    BY <1>3, <2>1, FoundInv DEF LookupShared
<1>4. ASSUME NEW r \in Requests, LookupFails(r) PROVE IInv'
  <2>. USE DEF IInv
  <2>1. /\ pc[r] \in {"private", "shared"} /\ pc' = [pc EXCEPT ![r] = "failed"]
        /\ UNCHANGED <<config, base, sessionId, hit, age, result, overall, writes, store, now>>
    BY <1>4 DEF LookupFails
  <2>2. TypeOK'
    BY <2>1 DEF TypeOK, config
  <2>3. StoreInv'
    BY <2>1, StoreKept
  <2>4. ASSUME NEW q \in Requests, q # r PROVE RequestInv(q)'
    <3>1. UNCHANGED <<config, base[q], sessionId[q], pc[q], hit[q], age[q], result[q],
                      overall[q]>>
      BY <2>1, <2>4 DEF TypeOK
    <3>. QED
      BY <2>1, <3>1, RequestKept DEF TypeOK
  <2>5. RequestInv(r)'
    BY <2>1 DEF RequestInv, config, TypeOK
  <2>. QED
    BY <2>2, <2>3, <2>4, <2>5
<1>5. ASSUME NEW r \in Requests, NEW p \in CachePolicies, Execute(r, p) PROVE IInv'
  BY <1>5, ExecuteInv
<1>6. ASSUME NEW r \in Requests, NEW write \in BOOLEAN, Send(r, write) PROVE IInv'
  BY <1>6, SendInv
<1>7. ASSUME NEW w \in writes, Land(w) PROVE IInv'
  BY <1>7, LandInv
<1>8. ASSUME NEW w \in writes, Lose(w) PROVE IInv'
  <2>. USE DEF IInv
  <2>1. /\ writes' = writes \ {w}
        /\ UNCHANGED <<config, base, sessionId, pc, hit, age, result, overall, store, now>>
    BY <1>8 DEF Lose
  <2>2. TypeOK'
    BY <2>1 DEF TypeOK, config
  <2>3. StoreInv'
    BY <2>1 DEF StoreInv, Fit, Expires, config
  <2>4. \A r \in Requests : RequestInv(r)'
    BY <2>1, RequestKept DEF TypeOK
  <2>. QED
    BY <2>2, <2>3, <2>4
<1>9. ASSUME NEW k \in Keys, Evict(k) PROVE IInv'
  <2>. USE DEF IInv
  <2>1. /\ store' = [store EXCEPT ![k] = Absent]
        /\ UNCHANGED <<config, base, sessionId, pc, hit, age, result, overall, writes, now>>
    BY <1>9 DEF Evict
  <2>2. TypeOK'
    BY <2>1 DEF TypeOK, config
  <2>3. \A j \in Keys : store'[j] # Absent => store'[j] = store[j]
    BY <2>1 DEF TypeOK
  <2>4. StoreInv'
    BY <2>1, <2>3 DEF StoreInv, Fit, Expires, config
  <2>5. \A r \in Requests : RequestInv(r)'
    BY <2>1, RequestKept DEF TypeOK
  <2>. QED
    BY <2>2, <2>4, <2>5
<1>10. CASE Tick
  <2>. USE DEF IInv
  <2>1. /\ now' = now + 1 /\ now \in Nat /\ (kind = "lru" => writes = {})
        /\ UNCHANGED <<config, base, sessionId, pc, hit, age, result, overall, writes, store>>
    BY <1>10 DEF Tick, TypeOK
  <2>2. TypeOK'
    BY <2>1 DEF TypeOK, config
  <2>3. ASSUME NEW key, NEW value \in Values, Fit(key, value) PROVE Fit(key, value)'
    BY <2>1, <2>3 DEF Fit, Values, config
  <2>4. \A w \in writes : w.value \in Values
    BY DEF TypeOK
  <2>5. \A k \in Keys : store[k] # Absent => store[k].value \in Values
    BY DEF TypeOK, Entries
  <2>6. StoreInv'
    BY <2>1, <2>3, <2>4, <2>5 DEF StoreInv, Expires, config
  <2>7. \A r \in Requests : RequestInv(r)'
    BY <2>1, RequestKept
  <2>. QED
    BY <2>2, <2>6, <2>7
<1>11. CASE UNCHANGED vars
  <2>1. \A r \in Requests : RequestInv(r)'
    BY <1>11, RequestKept DEF vars, IInv, TypeOK
  <2>2. StoreInv'
    BY <1>11, StoreKept DEF vars, IInv
  <2>. QED
    BY <1>11, <2>1, <2>2 DEF vars, IInv, TypeOK, config
<1>. QED
  BY <1>1, <1>2, <1>3, <1>4, <1>5, <1>6, <1>7, <1>8, <1>9, <1>10, <1>11 DEF Next

LEMMA Invariance == Spec => []IInv
  BY InitInv, NextInv, PTL DEF Spec

-----------------------------------------------------------------------------
\* Every variable keeps its type, with any cache and any policies.
THEOREM TypeCorrect == Spec => []TypeOK
  BY Invariance, PTL DEF IInv

\* Whatever sessions share a cache, and however their lookups, executions and
\* late writes interleave, no request is answered with what is private to another
\* session, and none that is logged in with what was cached for those that are not.
THEOREM Private == Spec => []PrivateStaysPrivate
<1>1. IInv => PrivateStaysPrivate
  BY DEF IInv, RequestInv, HitInv, PrivateStaysPrivate
<1>. QED
  BY <1>1, Invariance, PTL

\* What a request is answered with from the cache has not outlived its policy,
\* and has the policy and the age that it is sent with.
THEOREM Fresh == Spec => []HitsAreFresh
<1>1. IInv => HitsAreFresh
  BY DEF IInv, RequestInv, HitInv, HitsAreFresh
<1>. QED
  BY <1>1, Invariance, PTL

-----------------------------------------------------------------------------
(* The REST data source: its variables keep their types.                   *)

LEMMA RestTypes ==
  /\ Override \in [Calls -> Nat \cup {Unset}] /\ Source \in [Calls -> DataSources]
  /\ Headers \subseteq [maxAge : Nat, etag : BOOLEAN]
  /\ Absent \notin Calls /\ RestMaxNow \in Nat /\ CacheKinds \subseteq Kinds
  BY CachingAssumption DEF Rest!RestAssumption, Rest!Kinds, Kinds

\* What a call that has a response holds of it: an unmodified one is the version
\* that it revalidated.
ReplyInv ==
  \A c \in Calls :
    /\ restPc[c] = "handled" =>
         /\ method[c] \in Rest!Methods /\ reply[c] \in Rest!Replies
         /\ ~reply[c].modified => stale[c] \in Rest!Values /\ stale[c].body = reply[c].version
    /\ restPc[c] = "storing" => stale[c] \in Rest!Values
    /\ restPc[c] # "idle" => method[c] \in Rest!Methods

\* A call follows those that were performed before it.
BeforeInv ==
  \A d \in Calls :
    /\ restPc[d] = "idle" => before[d] = {} /\ shares[d] = Absent
    /\ \A c \in before[d] : restPc[c] # "idle"

RestTypeInv == Rest!TypeOK /\ ReplyInv /\ BeforeInv

LEMMA RestInitType == Rest!Init => RestTypeInv
  BY DEF Rest!Init, RestTypeInv, ReplyInv, BeforeInv, Rest!TypeOK

\* What a call can find in the store.
LEMMA FoundValue ==
  ASSUME Rest!TypeOK, restStore # Absent,
         NEW v, v = Rest!Value(restKind, restStore, restNow), v # Absent
  PROVE  v = restStore.value /\ v \in Rest!Values
  BY DEF Rest!TypeOK, Rest!Value

\* What a call is given to store.
LEMMA ReceivedType ==
  ASSUME RestTypeInv, NEW c \in Calls, restPc[c] = "handled"
  PROVE  /\ Rest!Received(c) \in Rest!Values
         /\ Rest!Received(c).body = reply[c].version /\ Rest!Received(c).at = restNow
         /\ Rest!Received(c).error = reply[c].error
<1>1. reply[c] \in Rest!Replies /\ method[c] \in Rest!Methods /\ restNow \in Nat
  BY DEF RestTypeInv, ReplyInv, Rest!TypeOK
<1>2. /\ reply[c].headers \in Headers /\ reply[c].version \in Nat
      /\ reply[c].error \in BOOLEAN /\ Override[c] \in Nat \cup {Unset}
  BY <1>1, RestTypes DEF Rest!Replies
<1>3. ~reply[c].modified => stale[c] \in Rest!Values /\ stale[c].body = reply[c].version
  BY DEF RestTypeInv, ReplyInv
<1>. QED
  BY <1>1, <1>2, <1>3 DEF Rest!Received, Rest!Values

\* What the store keeps of it.
LEMMA EntryType ==
  ASSUME RestTypeInv, NEW v \in Rest!Values
  PROVE  /\ Rest!Entry(restKind, v, Rest!KeepFor(v), restNow)
              \in [value : Rest!Values, until : Nat \cup {Never}]
         /\ Rest!Entry(restKind, v, Rest!KeepFor(v), restNow).value = v
<1>1. v.headers.maxAge \in Nat /\ v.ttlOverride \in Nat \cup {Unset} /\ restNow \in Nat
  BY RestTypes DEF RestTypeInv, Rest!TypeOK, Rest!Values
<1>2. Rest!KeepFor(v) \in Nat
  BY <1>1 DEF Rest!KeepFor, Rest!Allowed, Rest!Overridden
<1>3. restKind \in {"lru", "redis", "memcached"}
  BY RestTypes DEF RestTypeInv, Rest!TypeOK, Kinds
<1>4. \A ttl \in Nat : Rest!LifeTime(restKind, ttl) \in Nat \cup {Never}
  BY <1>3, KeyValueAssumption DEF Rest!LifeTime
<1>. QED
  BY <1>1, <1>2, <1>4 DEF Rest!Entry

LEMMA RestNextType == RestTypeInv /\ [Rest!Next]_(Rest!vars) => RestTypeInv'
<1>. SUFFICES ASSUME RestTypeInv, [Rest!Next]_(Rest!vars) PROVE RestTypeInv'
  OBVIOUS
<1>. USE RestTypes
<1>1. ASSUME NEW c \in Calls, NEW m \in Rest!Methods, Rest!Perform(c, m) PROVE RestTypeInv'
  <2>. USE <1>1 DEF Rest!Perform
  <2>1. restPc[c] = "idle" /\ restPc' = [restPc EXCEPT ![c] = restPc'[c]]
          /\ restPc'[c] \in {"reading", "shared"}
    BY DEF RestTypeInv, Rest!TypeOK
  <2>2. Rest!TypeOK'
    <3>1. /\ restPc' \in [Calls -> {"idle", "reading", "sent", "handled", "storing", "done",
                                  "shared"}]
          /\ method' \in [Calls -> Rest!Methods \cup {Absent}]
      BY <2>1 DEF RestTypeInv, Rest!TypeOK
    <3>2. /\ memo' \in [DataSources -> Calls \cup {Absent}]
          /\ shares' \in [Calls -> Calls \cup {Absent}]
      BY <2>1 DEF RestTypeInv, Rest!TypeOK
    <3>3. before' \in [Calls -> SUBSET Calls]
      BY DEF RestTypeInv, Rest!TypeOK
    <3>. QED
      BY <3>1, <3>2, <3>3 DEF RestTypeInv, Rest!TypeOK
  <2>3. ReplyInv'
    BY <2>1 DEF RestTypeInv, ReplyInv, Rest!TypeOK
  <2>4. BeforeInv'
    BY <2>1 DEF RestTypeInv, BeforeInv, Rest!TypeOK
  <2>. QED
    BY <2>2, <2>3, <2>4 DEF RestTypeInv
<1>2. ASSUME NEW c \in Calls, Rest!Read(c) PROVE RestTypeInv'
  <2>. USE <1>2 DEF Rest!Read
  <2>. DEFINE v == IF restStore = Absent THEN Absent
                   ELSE Rest!Value(restKind, restStore, restNow)
  <2>1. v # Absent => v \in Rest!Values
    BY FoundValue DEF RestTypeInv
  <2>2. \/ /\ v # Absent /\ restPc' = [restPc EXCEPT ![c] = "done"]
           /\ restResult' = [restResult EXCEPT ![c] = Rest!Result(v.error, v.body)]
           /\ cached' = cached \cup
                {[version |-> v.body, error |-> v.error, time |-> restNow,
                  allowed |-> Rest!Allowed(v)]}
           /\ stale' = stale
        \/ /\ restPc' = [restPc EXCEPT ![c] = "sent"]
           /\ stale' = [stale EXCEPT ![c] = v]
           /\ UNCHANGED <<restResult, cached>>
    OBVIOUS
  <2>3. /\ restPc[c] = "reading"
        /\ UNCHANGED <<restKind, method, memo, shares, reply, restStore, version, restNow,
                       before, written, confirmed>>
    OBVIOUS
  <2>. HIDE DEF v, Rest!Read
  <2>4. v # Absent => /\ v.body \in Nat /\ v.error \in BOOLEAN /\ Rest!Allowed(v) \in Nat
                      /\ Rest!Result(v.error, v.body) \in Nat \cup {Failed}
    <3>1. ASSUME NEW w \in Rest!Values
          PROVE  /\ w.body \in Nat /\ w.error \in BOOLEAN /\ Rest!Allowed(w) \in Nat
                 /\ Rest!Result(w.error, w.body) \in Nat \cup {Failed}
      BY DEF Rest!Values, Rest!Allowed, Rest!Overridden, Rest!Result
    <3>. QED
      BY <2>1, <3>1
  <2>5. Rest!TypeOK'
    BY <2>1, <2>2, <2>3, <2>4 DEF RestTypeInv, Rest!TypeOK
  <2>6. ReplyInv' /\ BeforeInv'
    BY <2>2, <2>3 DEF RestTypeInv, ReplyInv, BeforeInv, Rest!TypeOK
  <2>. QED
    BY <2>5, <2>6 DEF RestTypeInv
<1>3. ASSUME NEW c \in Calls, Rest!ReadFails(c) PROVE RestTypeInv'
  BY <1>3 DEF Rest!ReadFails, Rest!Fail, Rest!Forget, Rest!history, RestTypeInv, ReplyInv,
              BeforeInv, Rest!TypeOK
<1>4. ASSUME NEW c \in Calls, NEW headers \in Headers, NEW error \in BOOLEAN,
             Rest!Handle(c, headers, error)
      PROVE  RestTypeInv'
  <2>. USE <1>4 DEF Rest!Handle
  <2>. DEFINE modified == error \/ ~Rest!Conditional(c) \/ stale[c].error
                            \/ stale[c].body # version
              answer == [modified |-> modified, error |-> error, version |-> version',
                         headers |-> headers]
  <2>1. restPc[c] = "sent" /\ method[c] \in Rest!Methods
    BY DEF RestTypeInv, ReplyInv
  <2>2. version' \in Nat /\ reply' = [reply EXCEPT ![c] = answer]
    BY DEF RestTypeInv, Rest!TypeOK
  <2>3. answer \in Rest!Replies
    BY <2>2 DEF Rest!Replies
  <2>4. ~answer.modified => stale[c] \in Rest!Values /\ stale[c].body = answer.version
    BY DEF Rest!Conditional, RestTypeInv, Rest!TypeOK
  <2>. HIDE DEF answer
  <2>5. Rest!TypeOK'
    BY <2>2, <2>3 DEF RestTypeInv, Rest!TypeOK
  <2>6. ReplyInv'
    BY <2>1, <2>2, <2>3, <2>4 DEF RestTypeInv, ReplyInv, Rest!TypeOK
  <2>7. BeforeInv'
    BY <2>1 DEF RestTypeInv, BeforeInv, Rest!TypeOK
  <2>. QED
    BY <2>5, <2>6, <2>7 DEF RestTypeInv
<1>5. ASSUME NEW c \in Calls, Rest!FetchFails(c) PROVE RestTypeInv'
  <2>. USE <1>5 DEF Rest!FetchFails, Rest!Fail, Rest!Forget, Rest!history
  <2>1. Rest!TypeOK'
    BY DEF RestTypeInv, Rest!TypeOK
  <2>2. ReplyInv' /\ BeforeInv'
    BY DEF RestTypeInv, ReplyInv, BeforeInv, Rest!TypeOK
  <2>. QED
    BY <2>1, <2>2 DEF RestTypeInv
<1>6. ASSUME NEW c \in Calls, Rest!Receive(c) PROVE RestTypeInv'
  <2>. USE <1>6 DEF Rest!Receive, Rest!Forget
  <2>1. /\ Rest!Received(c) \in Rest!Values /\ Rest!Received(c).body \in Nat
        /\ reply[c].version \in Nat /\ reply[c].error \in BOOLEAN /\ restNow \in Nat
    BY ReceivedType DEF RestTypeInv, ReplyInv, Rest!TypeOK, Rest!Replies
  <2>2. Rest!Result(Rest!Received(c).error, Rest!Received(c).body) \in Nat \cup {Failed}
    BY <2>1 DEF Rest!Result
  <2>3. Rest!TypeOK'
    BY <2>1, <2>2 DEF RestTypeInv, Rest!TypeOK
  <2>4. ReplyInv'
    BY <2>1 DEF RestTypeInv, ReplyInv, Rest!TypeOK
  <2>5. BeforeInv'
    BY DEF RestTypeInv, BeforeInv, Rest!TypeOK
  <2>. QED
    BY <2>3, <2>4, <2>5 DEF RestTypeInv
<1>7. ASSUME NEW c \in Calls, Rest!Store(c) PROVE RestTypeInv'
  <2>. USE <1>7 DEF Rest!Store, Rest!Fail, Rest!Forget, Rest!history
  <2>1. /\ stale[c] \in Rest!Values
        /\ Rest!Result(stale[c].error, stale[c].body) \in Nat \cup {Failed}
    BY DEF RestTypeInv, ReplyInv, Rest!Values, Rest!Result
  <2>2. restStore' = restStore \/
          restStore' \in [value : Rest!Values, until : Nat \cup {Never}]
    BY <2>1, EntryType
  <2>3. Rest!TypeOK'
    BY <2>1, <2>2 DEF RestTypeInv, Rest!TypeOK
  <2>4. ReplyInv' /\ BeforeInv'
    BY DEF RestTypeInv, ReplyInv, BeforeInv, Rest!TypeOK
  <2>. QED
    BY <2>3, <2>4 DEF RestTypeInv
<1>8. CASE Rest!Evict
  BY <1>8 DEF Rest!Evict, Rest!history, RestTypeInv, ReplyInv, BeforeInv,
              Rest!TypeOK
<1>9. CASE Rest!Tick
  BY <1>9 DEF Rest!Tick, Rest!history, RestTypeInv, ReplyInv, BeforeInv,
              Rest!TypeOK
<1>10. CASE UNCHANGED Rest!vars
  BY <1>10 DEF Rest!vars, RestTypeInv, ReplyInv, BeforeInv,
              Rest!TypeOK
<1>. QED
  BY <1>1, <1>2, <1>3, <1>4, <1>5, <1>6, <1>7, <1>8, <1>9, <1>10 DEF Rest!Next

-----------------------------------------------------------------------------
(* One fetch between writes.                                               *)

\* The calls of a data source that made a promise which could be shared.
Makers(s) == {c \in Calls : /\ restPc[c] # "idle" /\ method[c] = "GET"
                           /\ Source[c] = s /\ shares[c] = Absent}

Writes(s) == {w \in Calls : restPc[w] # "idle" /\ method[w] = "POST" /\ Source[w] = s}

\* A data source without a promise has been written to since it made one; one with a
\* promise has not.
MemoInv ==
  \A s \in DataSources :
    IF memo[s] = Absent
    THEN \A c \in Makers(s) : \E w \in Writes(s) : c \in before[w]
    ELSE \A w \in Writes(s) : memo[s] \notin before[w]

LEMMA PerformFetches ==
  ASSUME RestTypeInv, MemoInv, OneFetchBetweenWrites,
         NEW c \in Calls, NEW m \in Rest!Methods, Rest!Perform(c, m)
  PROVE  MemoInv' /\ OneFetchBetweenWrites'
<1>. DEFINE s == Source[c]
<1>1. /\ restPc[c] = "idle" /\ method' = [method EXCEPT ![c] = m]
      /\ before' = [before EXCEPT ![c] = {d \in Calls : Source[d] = s /\ restPc[d] # "idle"}]
      /\ IF m = "GET" /\ memo[s] # Absent
         THEN /\ restPc' = [restPc EXCEPT ![c] = "shared"]
              /\ shares' = [shares EXCEPT ![c] = memo[s]] /\ UNCHANGED memo
         ELSE /\ restPc' = [restPc EXCEPT ![c] = "reading"]
              /\ memo' = [memo EXCEPT ![s] = IF m = "GET" THEN c ELSE Absent]
              /\ UNCHANGED shares
  BY DEF Rest!Perform
<1>2. s \in DataSources /\ c # Absent
  BY RestTypes
<1>. HIDE DEF s
<1>3. /\ \A d \in Calls \ {c} : /\ restPc'[d] = restPc[d] /\ method'[d] = method[d]
                               /\ shares'[d] = shares[d] /\ before'[d] = before[d]
      /\ restPc'[c] # "idle" /\ method'[c] = m
      /\ before'[c] = {d \in Calls : Source[d] = s /\ restPc[d] # "idle"}
  BY <1>1 DEF RestTypeInv, Rest!TypeOK
<1>4. \A d \in Calls \ {c} : c \notin before[d]
  BY <1>1 DEF RestTypeInv, BeforeInv
<1>5. \A t \in DataSources : Makers(t) \subseteq Makers(t)' /\ Makers(t)' \subseteq Makers(t) \cup {c}
  BY <1>1, <1>3 DEF Makers
<1>6. \A t \in DataSources : Writes(t) \subseteq Writes(t)' /\ c \notin Writes(t)
  BY <1>1, <1>3 DEF Writes
<1>7. ASSUME NEW t \in DataSources, memo'[t] # Absent, NEW w \in Writes(t)'
      PROVE  memo'[t] \notin before'[w]
  <2>1. w \in Calls /\ method'[w] = "POST" /\ Source[w] = t /\ restPc'[w] # "idle"
    BY DEF Writes
  <2>2. w # c
    <3>. SUFFICES ASSUME w = c PROVE FALSE
      OBVIOUS
    <3>1. m = "POST" /\ t = s
      BY <1>3, <2>1 DEF s
    <3>. QED
      BY <1>1, <1>2, <1>7, <3>1 DEF RestTypeInv, Rest!TypeOK
  <2>3. w \in Writes(t) /\ before'[w] = before[w]
    BY <1>3, <2>1, <2>2 DEF Writes
  <2>4. memo'[t] \in {memo[t], c}
    BY <1>1, <1>2, <1>7 DEF RestTypeInv, Rest!TypeOK
  <2>. QED
    BY <1>4, <1>7, <2>2, <2>1, <2>3, <2>4 DEF MemoInv
<1>8. MemoInv'
  <2>. SUFFICES ASSUME NEW t \in DataSources, memo'[t] = Absent, NEW d \in Makers(t)'
               PROVE  \E w \in Writes(t)' : d \in before'[w]
    BY <1>7 DEF MemoInv
  <2>1. CASE m = "POST" /\ t = s
    <3>1. /\ c \in Writes(t)' /\ d # c /\ restPc[d] # "idle"
          /\ d \in Calls /\ Source[d] = s
      BY <1>1, <1>3, <1>5, <2>1 DEF Writes, Makers, s
    <3>. QED
      BY <1>3, <3>1
  <2>2. CASE ~(m = "POST" /\ t = s)
    <3>1. memo[t] = Absent /\ d \in Makers(t)
      <4>1. memo[t] = Absent
        BY <1>1, <1>2, <2>2 DEF Rest!Methods, RestTypeInv, Rest!TypeOK
      <4>2. d # c
        <5>. SUFFICES ASSUME d = c PROVE FALSE
          OBVIOUS
        <5>1. m = "GET" /\ t = s /\ shares'[c] = Absent
          BY <1>3 DEF Makers, s
        <5>. QED
          BY <1>1, <1>2, <4>1, <5>1 DEF RestTypeInv, Rest!TypeOK
      <4>. QED
        BY <1>5, <4>1, <4>2
    <3>2. PICK w \in Writes(t) : d \in before[w]
      BY <3>1 DEF MemoInv
    <3>. QED
      BY <1>3, <1>6, <3>2 DEF Writes
  <2>. QED
    BY <2>1, <2>2
<1>9. ASSUME NEW e \in Calls, shares'[e] # Absent, NEW w \in before'[e],
              shares'[e] \in before'[w], method'[w] = "POST"
       PROVE  FALSE
  <2>1. CASE e # c
    <3>1. w \in before[e] /\ w # c /\ w \in Calls /\ shares'[e] = shares[e]
      BY <1>3, <1>4, <2>1 DEF RestTypeInv, Rest!TypeOK
    <3>. QED
      BY <1>3, <1>9, <3>1 DEF OneFetchBetweenWrites, Rest!OneFetchBetweenWrites
  <2>2. CASE e = c
    <3>1. w \in Calls /\ Source[w] = s /\ restPc[w] # "idle" /\ w # c
      BY <1>1, <1>3, <1>9, <2>2
    <3>2. w \in Writes(s) /\ before'[w] = before[w]
      BY <1>3, <1>9, <3>1 DEF Writes
    <3>3. shares[c] = Absent
      BY <1>1 DEF RestTypeInv, BeforeInv
    <3>4. shares'[c] = memo[s] /\ memo[s] # Absent
      BY <1>1, <1>9, <2>2, <3>3 DEF RestTypeInv, Rest!TypeOK
    <3>. QED
      BY <1>2, <1>9, <2>2, <3>2, <3>4 DEF MemoInv
  <2>. QED
    BY <2>1, <2>2
<1>10. OneFetchBetweenWrites'
  <2>. SUFFICES ASSUME NEW e \in Calls, NEW d \in before'[e],
                       method'[d] = "GET", method'[e] = "GET",
                       shares'[d] = Absent, shares'[e] = Absent
               PROVE  \E w \in before'[e] : d \in before'[w] /\ method'[w] = "POST"
    BY <1>9 DEF OneFetchBetweenWrites, Rest!OneFetchBetweenWrites
  <2>1. CASE e # c
    <3>1. d \in before[e] /\ d # c /\ d \in Calls
      BY <1>3, <1>4, <2>1 DEF RestTypeInv, Rest!TypeOK
    <3>2. PICK w \in before[e] : d \in before[w] /\ method[w] = "POST"
      BY <1>3, <2>1, <3>1 DEF OneFetchBetweenWrites, Rest!OneFetchBetweenWrites
    <3>3. w \in Calls /\ w # c
      BY <1>4, <2>1, <3>2 DEF RestTypeInv, Rest!TypeOK
    <3>. QED
      BY <1>3, <2>1, <3>2, <3>3
  <2>2. CASE e = c
    <3>1. d \in Calls /\ Source[d] = s /\ restPc[d] # "idle" /\ d # c /\ m = "GET"
      BY <1>1, <1>3, <2>2
    <3>2. memo[s] = Absent /\ d \in Makers(s)
      <4>1. memo[s] # Absent => shares'[c] = memo[s]
        BY <1>1, <3>1 DEF RestTypeInv, Rest!TypeOK
      <4>. QED
        BY <1>3, <2>2, <3>1, <4>1 DEF Makers, s
    <3>3. PICK w \in Writes(s) : d \in before[w]
      BY <1>2, <3>2 DEF MemoInv
    <3>4. w \in Calls /\ restPc[w] # "idle" /\ w # c
      BY <1>1, <3>3 DEF Writes
    <3>. QED
      BY <1>3, <2>2, <3>3, <3>4 DEF Writes, s
  <2>. QED
    BY <2>1, <2>2
<1>. QED
  BY <1>8, <1>10

\* No other step makes a promise, or removes one.
LEMMA FetchesKept ==
  ASSUME RestTypeInv, MemoInv, OneFetchBetweenWrites,
         UNCHANGED <<method, memo, shares, before>>,
         \A c \in Calls : restPc'[c] = "idle" <=> restPc[c] = "idle"
  PROVE  MemoInv' /\ OneFetchBetweenWrites'
  BY DEF MemoInv, Makers, Writes, OneFetchBetweenWrites, Rest!OneFetchBetweenWrites

LEMMA RestNextFetches ==
  ASSUME RestTypeInv, MemoInv, OneFetchBetweenWrites, [Rest!Next]_(Rest!vars)
  PROVE  MemoInv' /\ OneFetchBetweenWrites'
<1>1. ASSUME NEW c \in Calls, NEW m \in Rest!Methods, Rest!Perform(c, m)
      PROVE  MemoInv' /\ OneFetchBetweenWrites'
  BY <1>1, PerformFetches
<1>2. CASE \A c \in Calls, m \in Rest!Methods : ~Rest!Perform(c, m)
  <2>1. UNCHANGED <<method, memo, shares, before>>
    BY <1>2 DEF Rest!Next, Rest!vars, Rest!history, Rest!Read, Rest!ReadFails, Rest!Handle,
                Rest!FetchFails, Rest!Receive, Rest!Store, Rest!Evict, Rest!Tick
  <2>2. \A c \in Calls : restPc'[c] = "idle" <=> restPc[c] = "idle"
    BY <1>2 DEF Rest!Next, Rest!vars, Rest!Read, Rest!ReadFails, Rest!Handle,
                Rest!FetchFails, Rest!Receive, Rest!Store, Rest!Evict, Rest!Tick,
                Rest!Fail, RestTypeInv, Rest!TypeOK
  <2>. QED
    BY <2>1, <2>2, FetchesKept
<1>. QED
  BY <1>1, <1>2

-----------------------------------------------------------------------------
(* Answers from the cache are fresh.                                       *)

\* The origin said what a cached value has when it was received.
Confirmed(value) ==
  /\ value.at <= restNow
  /\ \E word \in confirmed : /\ word.version = value.body
                               /\ word.error = value.error /\ word.time = value.at

FreshInv ==
  /\ restStore # Absent => Confirmed(restStore.value)
  /\ \A c \in Calls : restPc[c] = "storing" => Confirmed(stale[c])
  /\ AnswersAreFresh

LEMMA ReadFresh ==
  ASSUME RestTypeInv, FreshInv, NEW c \in Calls, Rest!Read(c) PROVE FreshInv'
<1>. DEFINE v == IF restStore = Absent THEN Absent
                 ELSE Rest!Value(restKind, restStore, restNow)
<1>1. /\ restPc[c] = "reading"
      /\ UNCHANGED <<restStore, restNow, confirmed>>
      /\ \/ /\ v # Absent /\ Rest!Fresh(v, method[c])
            /\ restPc' = [restPc EXCEPT ![c] = "done"]
            /\ cached' = cached \cup
                 {[version |-> v.body, error |-> v.error, time |-> restNow,
                  allowed |-> Rest!Allowed(v)]}
            /\ UNCHANGED stale
         \/ /\ restPc' = [restPc EXCEPT ![c] = "sent"]
            /\ stale' = [stale EXCEPT ![c] = v]
            /\ UNCHANGED cached
  BY DEF Rest!Read
<1>2. v # Absent => Confirmed(v) /\ v \in Rest!Values
  BY FoundValue DEF FreshInv, RestTypeInv
<1>. HIDE DEF v
<1>3. \A d \in Calls : restPc'[d] = "storing" => restPc[d] = "storing" /\ stale'[d] = stale[d]
  BY <1>1 DEF RestTypeInv, Rest!TypeOK
<1>4. CASE UNCHANGED cached
  BY <1>1, <1>3, <1>4 DEF FreshInv, Confirmed, AnswersAreFresh, Rest!AnswersAreFresh
<1>5. CASE /\ v # Absent /\ Rest!Fresh(v, method[c])
           /\ cached' = cached \cup
                {[version |-> v.body, error |-> v.error, time |-> restNow,
                  allowed |-> Rest!Allowed(v)]}
  <2>1. restNow - v.at < Rest!Allowed(v)
    BY <1>5 DEF Rest!Fresh, Rest!Satisfies, Rest!Allowed
  <2>2. PICK word \in confirmed :
          word.version = v.body /\ word.error = v.error /\ word.time = v.at
    BY <1>2, <1>5 DEF Confirmed
  <2>3. word.time <= restNow /\ restNow - word.time < Rest!Allowed(v)
    BY <1>2, <1>5, <2>1, <2>2 DEF Confirmed
  <2>4. AnswersAreFresh'
    BY <1>1, <1>5, <2>2, <2>3 DEF FreshInv, AnswersAreFresh, Rest!AnswersAreFresh
  <2>. QED
    BY <1>1, <1>3, <2>4 DEF FreshInv, Confirmed
<1>. QED
  BY <1>1, <1>4, <1>5

LEMMA ReceiveFresh ==
  ASSUME RestTypeInv, FreshInv, NEW c \in Calls, Rest!Receive(c) PROVE FreshInv'
<1>1. /\ restPc[c] = "handled" /\ UNCHANGED <<restStore, restNow, cached>>
      /\ confirmed' = confirmed \cup
           {[version |-> reply[c].version, error |-> reply[c].error, time |-> restNow]}
      /\ \A d \in Calls : restPc'[d] = "storing" =>
           \/ restPc[d] = "storing" /\ stale'[d] = stale[d]
           \/ d = c /\ stale'[c] = Rest!Received(c)
  BY DEF Rest!Receive, Rest!Forget, RestTypeInv, Rest!TypeOK
<1>2. /\ Rest!Received(c).body = reply[c].version /\ Rest!Received(c).at = restNow
      /\ Rest!Received(c).error = reply[c].error
  BY <1>1, ReceivedType
<1>3. restNow <= restNow
  BY DEF RestTypeInv, Rest!TypeOK
<1>4. ASSUME NEW d \in Calls \ {c}, restPc'[d] = "storing" PROVE Confirmed(stale[d])'
  <2>1. restPc[d] = "storing" /\ stale'[d] = stale[d]
    BY <1>1, <1>4
  <2>2. Confirmed(stale[d])
    BY <2>1 DEF FreshInv
  <2>3. confirmed \subseteq confirmed' /\ restNow' = restNow
    BY <1>1
  <2>. QED
    BY <2>1, <2>2, <2>3 DEF Confirmed
<1>5. ASSUME restPc'[c] = "storing" PROVE Confirmed(stale[c])'
  <2>1. /\ stale'[c].body = reply[c].version /\ stale'[c].at = restNow
        /\ stale'[c].error = reply[c].error
        /\ restNow' = restNow
    BY <1>1, <1>2, <1>5
  <2>. DEFINE word == [version |-> reply[c].version, error |-> reply[c].error,
                      time |-> restNow]
  <2>2. /\ word \in confirmed' /\ word.version = reply[c].version
        /\ word.error = reply[c].error /\ word.time = restNow
    BY <1>1
  <2>. HIDE DEF word
  <2>. QED
    BY <1>3, <2>1, <2>2 DEF Confirmed
<1>6. restStore' # Absent => Confirmed(restStore.value)'
  BY <1>1 DEF FreshInv, Confirmed
<1>7. AnswersAreFresh'
  BY <1>1 DEF FreshInv, AnswersAreFresh, Rest!AnswersAreFresh
<1>. QED
  BY <1>4, <1>5, <1>6, <1>7 DEF FreshInv

LEMMA StoreFresh ==
  ASSUME RestTypeInv, FreshInv, NEW c \in Calls, Rest!Store(c) PROVE FreshInv'
<1>1. /\ restPc[c] = "storing" /\ UNCHANGED <<restNow, confirmed, cached>>
      /\ \A d \in Calls : restPc'[d] = "storing" =>
           restPc[d] = "storing" /\ stale'[d] = stale[d]
  BY DEF Rest!Store, Rest!Fail, Rest!Forget, Rest!history, RestTypeInv, Rest!TypeOK
<1>2. restStore' = restStore \/ restStore'.value = stale[c]
  BY <1>1, EntryType DEF Rest!Store, RestTypeInv, ReplyInv
<1>3. restStore' # Absent => Confirmed(restStore.value)'
  BY <1>1, <1>2 DEF FreshInv, Confirmed
<1>. QED
  BY <1>1, <1>3 DEF FreshInv, Confirmed, AnswersAreFresh, Rest!AnswersAreFresh

\* No other step brings a value, or an answer from the cache.
LEMMA FreshKept ==
  ASSUME RestTypeInv, FreshInv, restNow' \in Nat, restNow <= restNow',
         UNCHANGED <<confirmed, cached>>, restStore' \in {restStore, Absent},
         \A c \in Calls : restPc'[c] = "storing" =>
           restPc[c] = "storing" /\ stale'[c] = stale[c]
  PROVE  FreshInv'
<1>1. \A value : value.at \in Nat /\ Confirmed(value) => value.at <= restNow'
  BY DEF Confirmed, RestTypeInv, Rest!TypeOK
<1>2. \A c \in Calls : restPc[c] = "storing" => stale[c].at \in Nat
  BY DEF RestTypeInv, ReplyInv, Rest!Values
<1>3. restStore # Absent => restStore.value.at \in Nat
  BY DEF RestTypeInv, Rest!TypeOK, Rest!Values
<1>. QED
  BY <1>1, <1>2, <1>3 DEF FreshInv, Confirmed, AnswersAreFresh, Rest!AnswersAreFresh

LEMMA RestNextFresh ==
  ASSUME RestTypeInv, FreshInv, [Rest!Next]_(Rest!vars) PROVE FreshInv'
<1>1. CASE \E c \in Calls : Rest!Read(c) \/ Rest!Receive(c) \/ Rest!Store(c)
  BY <1>1, ReadFresh, ReceiveFresh, StoreFresh
<1>2. CASE ~ \E c \in Calls : Rest!Read(c) \/ Rest!Receive(c) \/ Rest!Store(c)
  <2>1. /\ UNCHANGED <<confirmed, cached>> /\ restStore' \in {restStore, Absent}
        /\ restNow' \in {restNow, restNow + 1}
    BY <1>2 DEF Rest!Next, Rest!vars, Rest!history, Rest!Perform, Rest!ReadFails, Rest!Handle,
                Rest!FetchFails, Rest!Evict, Rest!Tick
  <2>2. \A c \in Calls : restPc'[c] = "storing" =>
           restPc[c] = "storing" /\ stale'[c] = stale[c]
    BY <1>2 DEF Rest!Next, Rest!vars, Rest!Perform, Rest!ReadFails, Rest!Handle,
                Rest!FetchFails, Rest!Evict, Rest!Tick, Rest!Fail, Rest!Forget,
                RestTypeInv, Rest!TypeOK
  <2>3. restNow' \in Nat /\ restNow <= restNow'
    BY <2>1 DEF RestTypeInv, Rest!TypeOK
  <2>. QED
    BY <2>1, <2>2, <2>3, FreshKept
<1>. QED
  BY <1>1, <1>2

-----------------------------------------------------------------------------
RestInv == RestTypeInv /\ MemoInv /\ OneFetchBetweenWrites /\ FreshInv

LEMMA RestInvariance == Rest!Spec => []RestInv
<1>1. Rest!Init => RestInv
  <2>. SUFFICES ASSUME Rest!Init PROVE RestInv
    OBVIOUS
  <2>1. \A c \in Calls : before[c] = {} /\ restPc[c] = "idle" /\ shares[c] = Absent
    BY DEF Rest!Init
  <2>2. MemoInv /\ OneFetchBetweenWrites
    BY <2>1 DEF MemoInv, Makers, Writes, OneFetchBetweenWrites, Rest!OneFetchBetweenWrites
  <2>3. FreshInv
    BY <2>1 DEF Rest!Init, FreshInv, AnswersAreFresh, Rest!AnswersAreFresh
  <2>. QED
    BY <2>2, <2>3, RestInitType DEF RestInv
<1>2. RestInv /\ [Rest!Next]_(Rest!vars) => RestInv'
  BY RestNextType, RestNextFetches, RestNextFresh DEF RestInv
<1>. QED
  BY <1>1, <1>2, PTL DEF Rest!Spec

\* Every variable of the REST data source keeps its type, for any calls, data
\* sources, ttls and headers.
THEOREM RestTypeCorrect == Rest!Spec => []Rest!TypeOK
<1>1. RestInv => Rest!TypeOK
  BY DEF RestInv, RestTypeInv
<1>. QED
  BY <1>1, RestInvariance, PTL

\* Between two writes a data source fetches once, however its calls and their
\* answers overlap: a GET shares a promise made since the last write, or makes one.
THEOREM OneFetch == Rest!Spec => []OneFetchBetweenWrites
<1>1. RestInv => OneFetchBetweenWrites
  BY DEF RestInv
<1>. QED
  BY <1>1, RestInvariance, PTL

\* HTTPCache answers from the cache only with what the origin confirmed no longer
\* ago than the ttl or the age allows, in any kind of cache and though entries
\* live on to be revalidated.
THEOREM FreshAnswers == Rest!Spec => []AnswersAreFresh
<1>1. RestInv => AnswersAreFresh
  BY DEF RestInv, FreshInv
<1>. QED
  BY <1>1, RestInvariance, PTL

=============================================================================

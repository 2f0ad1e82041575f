---------------------------- MODULE KeyValueCache ----------------------------
(***************************************************************************)
(* The key-value caches that the server's features share: the in-memory    *)
(* LRU cache, Redis and memcached.  A store holds for each key an entry or *)
(* nothing.  Time is in seconds.                                           *)
(***************************************************************************)
EXTENDS Integers

CONSTANTS
  Absent,      \* what a store has for a key it does not hold
  Unset,       \* no options, or none with a ttl
  NoTtl,       \* a ttl that is no number: null, or {ttl: undefined}
  Never,       \* an entry that does not expire
  DefaultTtl   \* defaultSetOptions of Redis and memcached

Kinds == {"lru", "redis", "memcached"}
Ttls == Nat \cup {Unset, NoTtl}

ASSUME KeyValueAssumption ==
  /\ DefaultTtl \in Nat \ {0}
  /\ Unset \notin Int /\ NoTtl \notin Int /\ Never \notin Int /\ Unset # NoTtl

\* The seconds an entry lives.  The LRU cache takes every falsy ttl as none; for the
\* others, an explicit ttl hides the default even if it is undefined.
LifeTime(kind, ttl) ==
  CASE kind = "lru" -> IF ttl \in {Unset, NoTtl, 0} THEN Never ELSE ttl
    [] kind = "redis" -> IF ttl = NoTtl THEN Never
                         ELSE IF ttl = Unset THEN DefaultTtl ELSE ttl
    [] kind = "memcached" -> IF ttl \in {NoTtl, 0} THEN Never
                             ELSE IF ttl = Unset THEN DefaultTtl ELSE ttl

\* Wrong on purpose: a ttl in milliseconds is taken for one in seconds.
EntryLongLived(kind, value, ttl, now) ==
  [value |-> value,
   until |-> IF LifeTime(kind, ttl) = Never THEN Never ELSE now + 1000 * LifeTime(kind, ttl)]

\* What set() leaves for its key.
Entry(kind, value, ttl, now) ==
  [value |-> value,
   until |-> IF LifeTime(kind, ttl) = Never THEN Never ELSE now + LifeTime(kind, ttl)]

\* Whether get() still answers with an entry: the LRU cache to the last
\* millisecond of it, the others until it ends.
Live(kind, entry, now) ==
  /\ entry # Absent
  /\ \/ entry.until = Never
     \/ IF kind = "lru" THEN now <= entry.until ELSE now < entry.until

\* get() of an entry: the value, or undefined.
Value(kind, entry, now) == IF Live(kind, entry, now) THEN entry.value ELSE Absent
=============================================================================

---------------------------- MODULE BoundedCache ----------------------------
(***************************************************************************)
(* src/src/cache.rs: the per-project secret cache.  The variables are the  *)
(* fields of Inner, guarded by one mutex, so every method is one atomic    *)
(* step; `now' is the monotonic clock (Instant) in ticks.                  *)
(*                                                                         *)
(* A secret name maps to an entry [value, fetched_at, ttl] when it is in   *)
(* DOMAIN map.  Expiry is lazy: only a get of that name drops the entry.   *)
(***************************************************************************)
EXTENDS Integers, FiniteSets, Functions

CONSTANTS Names,        \* secret names
          Values,       \* secret values
          Caps,         \* legal values of max_entries
          TTLs,         \* legal time-to-live durations, in ticks
          TicksPerSec,  \* ticks in one second (Duration::as_secs truncates)
          MaxTime       \* bound: the clock stops here

\* Configuration and manifest validation admit only positive caps and TTLs.
ASSUME CacheAssumption ==
  /\ Caps \subseteq Nat \ {0}
  /\ TTLs \subseteq Nat \ {0}
  /\ TicksPerSec \in Nat \ {0}
  /\ MaxTime \in Nat

VARIABLES map, max_entries, default_ttl, now

vars == <<map, max_entries, default_ttl, now>>

Entry == [value : Values, fetched_at : Nat, ttl : Nat]

len == Cardinality(DOMAIN map)

duration_since(t, earlier) == IF t >= earlier THEN t - earlier ELSE 0

MutExpiredLate(e, t) == duration_since(t, e.fetched_at) > e.ttl

is_expired(e, t) == duration_since(t, e.fetched_at) >= e.ttl

remaining_ttl(e, t) ==
  LET age == duration_since(t, e.fetched_at)
  IN IF e.ttl >= age THEN e.ttl - age ELSE 0

\* What get(name) returns: the hit itself, or Miss.
Miss == [hit |-> FALSE]

Lookup(name) ==
  IF name \in DOMAIN map /\ ~is_expired(map[name], now)
  THEN [hit |-> TRUE,
        value |-> map[name].value,
        ttl_seconds |-> remaining_ttl(map[name], now) \div TicksPerSec]
  ELSE Miss

Remove(m, name) == Restrict(m, DOMAIN m \ {name})

Put(m, name, e) ==
  [k \in DOMAIN m \cup {name} |-> IF k = name THEN e ELSE m[k]]

MutEvictNewest(m) ==
  IF DOMAIN m = {} THEN {m}
  ELSE {Remove(m, k) : k \in {x \in DOMAIN m :
          \A y \in DOMAIN m : m[x].fetched_at >= m[y].fetched_at}}

\* The maps evict_oldest may leave: one entry with the least fetched_at is
\* dropped, which one of several equally old depends on the hash order.
evict_oldest(m) ==
  IF DOMAIN m = {} THEN {m}
  ELSE {Remove(m, k) : k \in {x \in DOMAIN m :
          \A y \in DOMAIN m : m[x].fetched_at <= m[y].fetched_at}}
-----------------------------------------------------------------------------
Init ==
  /\ map = << >>
  /\ max_entries \in Caps
  /\ default_ttl \in TTLs
  /\ now = 0

get(name) ==
  /\ map' = IF name \in DOMAIN map /\ is_expired(map[name], now)
            THEN Remove(map, name) ELSE map
  /\ UNCHANGED <<max_entries, default_ttl, now>>

\* ttl.unwrap_or(inner.default_ttl): the production caller passes None.
NoTTL == -1

TTLOpts == TTLs \cup {NoTTL}

unwrap_ttl(opt) == IF opt = NoTTL THEN default_ttl ELSE opt

NewEntry(value, opt) ==
  [value |-> value, fetched_at |-> now, ttl |-> unwrap_ttl(opt)]

MutInsertNoCap(name, value, opt) ==
  /\ map' = Put(map, name, NewEntry(value, opt))
  /\ UNCHANGED <<max_entries, default_ttl, now>>

MutInsertAlwaysEvicts(name, value, opt) ==
  /\ \E m \in IF len >= max_entries THEN evict_oldest(map) ELSE {map} :
       map' = Put(m, name, NewEntry(value, opt))
  /\ UNCHANGED <<max_entries, default_ttl, now>>

MutInsertStampsDeadline(name, value, opt) ==
  /\ \E m \in IF name \notin DOMAIN map /\ len >= max_entries
              THEN evict_oldest(map) ELSE {map} :
       map' = Put(m, name, [NewEntry(value, opt) EXCEPT
                              !.fetched_at = now + unwrap_ttl(opt)])
  /\ UNCHANGED <<max_entries, default_ttl, now>>

\* A key that is already present is replaced and nothing is evicted.
insert(name, value, opt) ==
  /\ \E m \in IF name \notin DOMAIN map /\ len >= max_entries
              THEN evict_oldest(map) ELSE {map} :
       map' = Put(m, name, NewEntry(value, opt))
  /\ UNCHANGED <<max_entries, default_ttl, now>>

clear ==
  /\ map' = << >>
  /\ UNCHANGED <<max_entries, default_ttl, now>>

MutSetConfigRewrites(max, ttl) ==
  /\ max_entries' = max
  /\ default_ttl' = ttl
  /\ map' = [k \in DOMAIN map |-> [map[k] EXCEPT !.ttl = ttl]]
  /\ UNCHANGED now

set_config(max, ttl) ==
  /\ max_entries' = max
  /\ default_ttl' = ttl
  /\ UNCHANGED <<map, now>>

Tick ==
  /\ now < MaxTime
  /\ now' = now + 1
  /\ UNCHANGED <<map, max_entries, default_ttl>>

Next ==
  \/ \E n \in Names : get(n)
  \/ \E n \in Names, v \in Values, t \in TTLOpts : insert(n, v, t)
  \/ clear
  \/ \E c \in Caps, t \in TTLs : set_config(c, t)
  \/ Tick

Spec == Init /\ [][Next]_vars
-----------------------------------------------------------------------------
(* Types, and that no entry was fetched in the future. *)
TypeOK ==
  /\ DOMAIN map \subseteq Names
  /\ IsFiniteSet(DOMAIN map)
  /\ map \in [DOMAIN map -> Entry]
  /\ \A k \in DOMAIN map : map[k].fetched_at <= now
  /\ max_entries \in Caps
  /\ default_ttl \in TTLs
  /\ now \in Nat

(* A hit is live: BoundedCache::get returns an entry only strictly before  *)
(* its expiry, and ttl_seconds is the remaining lifetime rounded down.     *)
HitIsLive ==
  \A n \in Names : Lookup(n).hit =>
    LET left == map[n].fetched_at + map[n].ttl - now
        s    == Lookup(n).ttl_seconds
    IN left > 0 /\ s * TicksPerSec <= left /\ left < (s + 1) * TicksPerSec

(* The cache grows only up to its cap: no step of any method takes len to  *)
(* a larger value above the max_entries in force, whatever set_config did  *)
(* before.                                                                 *)
GrowsOnlyToCap == [][len' > len => len' <= max_entries]_vars

(* Whatever cap changes happened, the cache holds no more entries than the *)
(* largest legal cap.                                                      *)
NeverAboveLargestCap == \E c \in Caps : len <= c

(* Drop-oldest: an entry that leaves while others stay was either expired  *)
(* or fetched no later than each survivor, so evict_oldest never drops a   *)
(* live entry in favour of an older one.                                   *)
OldestLeavesFirst ==
  [][\A k \in DOMAIN map \ DOMAIN map' :
       \/ is_expired(map[k], now)
       \/ \A j \in DOMAIN map \cap DOMAIN map' :
            map[k].fetched_at <= map'[j].fetched_at]_vars

(* Refreshing a key that is present evicts no other key, also at the cap   *)
(* (the `replaced' test of BoundedCache::insert).                          *)
RefreshEvictsNothing ==
  [][(\E k \in DOMAIN map \cap DOMAIN map' : map'[k] # map[k])
       => DOMAIN map \subseteq DOMAIN map']_vars

(* An entry keeps its value, stamp and TTL for as long as it stays, unless *)
(* it is re-fetched now: set_config applies to new inserts only.           *)
EntryChangesOnlyByRefetch ==
  [][\A k \in DOMAIN map \cap DOMAIN map' :
       map'[k] # map[k] => map'[k].fetched_at = now /\ default_ttl' = default_ttl]_vars
=============================================================================

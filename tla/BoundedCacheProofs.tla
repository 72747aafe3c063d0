------------------------- MODULE BoundedCacheProofs -------------------------
(***************************************************************************)
(* What BoundedCache guarantees for every set of names and values, every   *)
(* set of legal caps and TTLs and every clock.  TypeOK is inductive, and   *)
(* with it the shape of an insert (lemma InsertShape) gives the rest.      *)
(***************************************************************************)
EXTENDS BoundedCache, FiniteSetTheorems, TLAPS

(* Removing a key: domain, finiteness, size and what stays. *)
LEMMA RemoveFacts ==
  ASSUME NEW m, NEW k \in DOMAIN m, IsFiniteSet(DOMAIN m)
  PROVE  /\ DOMAIN Remove(m, k) = DOMAIN m \ {k}
         /\ IsFiniteSet(DOMAIN Remove(m, k))
         /\ Cardinality(DOMAIN Remove(m, k)) = Cardinality(DOMAIN m) - 1
         /\ \A j \in DOMAIN m \ {k} : Remove(m, k)[j] = m[j]
<1>1. DOMAIN Remove(m, k) = DOMAIN m \ {k}
  BY DEF Remove, Restrict
<1>2. \A j \in DOMAIN m \ {k} : Remove(m, k)[j] = m[j]
  BY DEF Remove, Restrict
<1> QED
  BY <1>1, <1>2, FS_RemoveElement

(* An insert either puts the entry into the map as it is, with room for it *)
(* or with the key present, or first drops one of the oldest entries.      *)
LEMMA InsertShape ==
  ASSUME TypeOK, NEW n \in Names, NEW v \in Values, NEW t \in TTLOpts,
         insert(n, v, t)
  PROVE  \/ /\ map' = Put(map, n, NewEntry(v, t))
            /\ n \in DOMAIN map \/ len < max_entries
         \/ \E k \in DOMAIN map :
              /\ \A y \in DOMAIN map : map[k].fetched_at <= map[y].fetched_at
              /\ n \notin DOMAIN map
              /\ map' = Put(Remove(map, k), n, NewEntry(v, t))
<1>1. len \in Nat /\ max_entries \in Nat \ {0}
  BY FS_CardinalityType, CacheAssumption DEF TypeOK, len
<1>2. CASE n \notin DOMAIN map /\ len >= max_entries
  <2>1. DOMAIN map # {}
    BY <1>1, <1>2, FS_EmptySet DEF len
  <2>2. PICK m \in evict_oldest(map) : map' = Put(m, n, NewEntry(v, t))
    BY <1>2 DEF insert, NewEntry
  <2> QED
    BY <1>2, <2>1, <2>2 DEF evict_oldest
<1>3. CASE ~(n \notin DOMAIN map /\ len >= max_entries)
  BY <1>1, <1>3 DEF insert, NewEntry
<1> QED
  BY <1>2, <1>3

(* insert leaves a well-formed map. *)
LEMMA InsertType ==
  ASSUME TypeOK, NEW n \in Names, NEW v \in Values, NEW t \in TTLOpts,
         insert(n, v, t)
  PROVE  TypeOK'
<1>1. NewEntry(v, t) \in Entry /\ NewEntry(v, t).fetched_at = now
  BY CacheAssumption DEF TypeOK, NewEntry, unwrap_ttl, TTLOpts, Entry
<1>2. ASSUME NEW m, DOMAIN m \subseteq DOMAIN map, IsFiniteSet(DOMAIN m),
             \A j \in DOMAIN m : m[j] = map[j],
             map' = Put(m, n, NewEntry(v, t))
      PROVE  TypeOK'
  <2>1. /\ DOMAIN map' = DOMAIN m \cup {n}
        /\ IsFiniteSet(DOMAIN map')
        /\ map'[n] = NewEntry(v, t)
        /\ \A j \in DOMAIN m \ {n} : map'[j] = map[j]
    <3>1. DOMAIN map' = DOMAIN m \cup {n}
      BY <1>2 DEF Put
    <3>2. IsFiniteSet(DOMAIN map')
      BY <1>2, <3>1, FS_AddElement
    <3>3. map'[n] = NewEntry(v, t) /\ \A j \in DOMAIN m \ {n} : map'[j] = map[j]
      BY <1>2, <3>1 DEF Put
    <3> QED
      BY <3>1, <3>2, <3>3
  <2>2. map' = [k \in DOMAIN map' |-> map'[k]]
    BY <1>2 DEF Put
  <2>3. \A j \in DOMAIN map' : map'[j] \in Entry /\ map'[j].fetched_at <= now
    BY <1>1, <1>2, <2>1 DEF TypeOK
  <2> QED
    BY <1>2, <2>1, <2>2, <2>3 DEF TypeOK, insert
<1>3. CASE map' = Put(map, n, NewEntry(v, t))
  BY <1>2, <1>3 DEF TypeOK
<1>4. ASSUME NEW k \in DOMAIN map, map' = Put(Remove(map, k), n, NewEntry(v, t))
      PROVE  TypeOK'
  <2>1. /\ DOMAIN Remove(map, k) \subseteq DOMAIN map
        /\ IsFiniteSet(DOMAIN Remove(map, k))
        /\ \A j \in DOMAIN Remove(map, k) : Remove(map, k)[j] = map[j]
    BY RemoveFacts DEF TypeOK
  <2> QED
    BY <1>2, <1>4, <2>1
<1> QED
  BY <1>3, <1>4, InsertShape

(* get drops at most the one expired entry it looked at. *)
LEMMA GetShape ==
  ASSUME TypeOK, NEW n \in Names, get(n)
  PROVE  \/ map' = map
         \/ n \in DOMAIN map /\ is_expired(map[n], now) /\ map' = Remove(map, n)
BY DEF get

(* get leaves a well-formed map. *)
LEMMA GetType ==
  ASSUME TypeOK, NEW n \in Names, get(n)
  PROVE  TypeOK'
<1>1. CASE map' = map
  BY <1>1 DEF get, TypeOK
<1>2. CASE n \in DOMAIN map /\ map' = Remove(map, n)
  <2>1. DOMAIN map' = DOMAIN map \ {n}
    BY <1>2 DEF Remove, Restrict
  <2>2. IsFiniteSet(DOMAIN map')
    BY <2>1, FS_RemoveElement DEF TypeOK
  <2>3. map' = [j \in DOMAIN map' |-> map[j]]
    BY <1>2, <2>1 DEF Remove, Restrict
  <2> QED
    BY <2>1, <2>2, <2>3 DEF TypeOK, get
<1> QED
  BY <1>1, <1>2, GetShape

(* Every method keeps the types and stamps no entry in the future. *)
LEMMA TypeStep == TypeOK /\ [Next]_vars => TypeOK'
<1> SUFFICES ASSUME TypeOK, [Next]_vars PROVE TypeOK'
  OBVIOUS
<1>1. ASSUME NEW n \in Names, get(n) PROVE TypeOK'
  BY <1>1, GetType
<1>2. ASSUME NEW n \in Names, NEW v \in Values, NEW t \in TTLOpts, insert(n, v, t)
      PROVE  TypeOK'
  BY <1>2, InsertType
<1>3. CASE clear
  BY <1>3, FS_EmptySet DEF clear, TypeOK
<1>4. ASSUME NEW c \in Caps, NEW t \in TTLs, set_config(c, t) PROVE TypeOK'
  BY <1>4 DEF set_config, TypeOK
<1>5. CASE Tick
  <2>1. \A k \in DOMAIN map : map[k].fetched_at \in Nat
    BY DEF TypeOK, Entry
  <2> QED
    BY <1>5, <2>1 DEF Tick, TypeOK
<1>6. CASE UNCHANGED vars
  BY <1>6 DEF vars, TypeOK
<1> QED
  BY <1>1, <1>2, <1>3, <1>4, <1>5, <1>6 DEF Next

(* The cache is well formed in every reachable state, for every constant. *)
THEOREM TypeCorrect == Spec => []TypeOK
<1>1. Init => TypeOK
  BY FS_EmptySet DEF Init, TypeOK
<1> QED
  BY <1>1, TypeStep, PTL DEF Spec

(* No expired entry is ever returned, and ttl_seconds is the remaining     *)
(* lifetime rounded down to whole seconds.                                 *)
THEOREM HitsAreLive == Spec => []HitIsLive
<1>1. TypeOK => HitIsLive
  <2> SUFFICES ASSUME TypeOK, NEW n \in Names, Lookup(n).hit
               PROVE  LET left == map[n].fetched_at + map[n].ttl - now
                          s    == Lookup(n).ttl_seconds
                      IN left > 0 /\ s * TicksPerSec <= left
                           /\ left < (s + 1) * TicksPerSec
    BY DEF HitIsLive
  <2>1. n \in DOMAIN map /\ ~is_expired(map[n], now)
    BY DEF Lookup, Miss
  <2>2. /\ map[n].fetched_at \in Nat /\ map[n].ttl \in Nat /\ now \in Nat
        /\ map[n].fetched_at <= now
    BY <2>1 DEF TypeOK, Entry
  <2>3. ~(now - map[n].fetched_at >= map[n].ttl)
    BY <2>1, <2>2 DEF is_expired, duration_since
  <2>4. remaining_ttl(map[n], now) = map[n].fetched_at + map[n].ttl - now
    BY <2>2, <2>3 DEF remaining_ttl, duration_since
  <2>5. Lookup(n).ttl_seconds =
          (map[n].fetched_at + map[n].ttl - now) \div TicksPerSec
    BY <2>1, <2>4 DEF Lookup
  <2>6. \A x \in Nat : /\ (x \div TicksPerSec) * TicksPerSec <= x
                        /\ x < (x \div TicksPerSec + 1) * TicksPerSec
    BY CacheAssumption
  <2> QED
    BY <2>2, <2>3, <2>5, <2>6
<1> QED
  BY <1>1, TypeCorrect, PTL

(* An insert keeps the number of entries, or adds one below the cap. *)
LEMMA InsertLen ==
  ASSUME TypeOK, NEW n \in Names, NEW v \in Values, NEW t \in TTLOpts,
         insert(n, v, t)
  PROVE  len' = len \/ (len' = len + 1 /\ len < max_entries)
<1>1. len \in Nat /\ IsFiniteSet(DOMAIN map)
  BY FS_CardinalityType DEF TypeOK, len
<1>2. CASE /\ map' = Put(map, n, NewEntry(v, t))
           /\ n \in DOMAIN map \/ len < max_entries
  <2>1. DOMAIN map' = DOMAIN map \cup {n}
    BY <1>2 DEF Put
  <2> QED
    BY <1>1, <1>2, <2>1, FS_AddElement DEF len
<1>3. ASSUME NEW k \in DOMAIN map, n \notin DOMAIN map,
             map' = Put(Remove(map, k), n, NewEntry(v, t))
      PROVE  len' = len
  <2>1. DOMAIN map' = (DOMAIN map \ {k}) \cup {n}
    BY <1>3 DEF Put, Remove, Restrict
  <2>2. /\ IsFiniteSet(DOMAIN map \ {k})
        /\ Cardinality(DOMAIN map \ {k}) = len - 1
    BY <1>1, <1>3, FS_RemoveElement DEF len
  <2>3. Cardinality((DOMAIN map \ {k}) \cup {n}) = len - 1 + 1
    BY <1>3, <2>2, FS_AddElement
  <2> QED
    BY <1>1, <2>1, <2>3 DEF len
<1> QED
  BY <1>2, <1>3, InsertShape

(* No other method adds an entry. *)
LEMMA OthersDoNotGrow ==
  ASSUME TypeOK,
         \/ \E n \in Names : get(n)
         \/ clear
         \/ \E c \in Caps, t \in TTLs : set_config(c, t)
         \/ Tick
         \/ UNCHANGED vars
  PROVE  DOMAIN map' \subseteq DOMAIN map /\ len' <= len
<1>1. DOMAIN map' \subseteq DOMAIN map
  <2>1. ASSUME NEW n \in Names, get(n) PROVE DOMAIN map' \subseteq DOMAIN map
    BY <2>1, GetShape DEF Remove, Restrict
  <2>2. CASE clear
    <3>1. DOMAIN map' = {}
      BY <2>2 DEF clear
    <3> QED
      BY <3>1
  <2>3. CASE UNCHANGED map
    BY <2>3
  <2> QED
    BY <2>1, <2>2, <2>3 DEF set_config, Tick, vars
<1>2. IsFiniteSet(DOMAIN map)
  BY DEF TypeOK
<1>3. Cardinality(DOMAIN map') <= Cardinality(DOMAIN map)
  BY <1>1, <1>2, FS_Subset
<1> QED
  BY <1>1, <1>3 DEF len

(* The cache grows only up to the cap in force: InsertLen on every step. *)
THEOREM Growth == Spec => GrowsOnlyToCap
<1>1. TypeOK /\ [Next]_vars => [len' > len => len' <= max_entries]_vars
  <2> SUFFICES ASSUME TypeOK, [Next]_vars
               PROVE  len' > len => len' <= max_entries
    OBVIOUS
  <2>1. len \in Nat /\ max_entries \in Nat
    BY FS_CardinalityType, CacheAssumption DEF TypeOK, len
  <2>2. len' \in Nat
    BY TypeStep, FS_CardinalityType DEF TypeOK, len
  <2>3. ASSUME NEW n \in Names, NEW v \in Values, NEW t \in TTLOpts, insert(n, v, t)
        PROVE  len' > len => len' <= max_entries
    BY <2>1, <2>3, InsertLen
  <2> QED
    BY <2>1, <2>2, <2>3, OthersDoNotGrow DEF Next
<1> QED
  BY <1>1, TypeCorrect, PTL DEF Spec, GrowsOnlyToCap

(* Across any sequence of cap changes the size stays within the largest    *)
(* legal cap (1024 entries in the shipped configuration).                  *)
THEOREM LargestCap == Spec => []NeverAboveLargestCap
<1>1. Init => NeverAboveLargestCap
  BY FS_EmptySet, CacheAssumption DEF Init, NeverAboveLargestCap, len
<1>2. TypeOK /\ NeverAboveLargestCap /\ [Next]_vars => NeverAboveLargestCap'
  <2> SUFFICES ASSUME TypeOK, NEW c \in Caps, len <= c, [Next]_vars
               PROVE  \E d \in Caps : len' <= d
    BY DEF NeverAboveLargestCap
  <2>1. len \in Nat /\ max_entries \in Caps /\ Caps \subseteq Nat
    BY FS_CardinalityType, CacheAssumption DEF TypeOK, len
  <2>2. len' \in Nat
    BY TypeStep, FS_CardinalityType DEF TypeOK, len
  <2>3. ASSUME NEW n \in Names, NEW v \in Values, NEW t \in TTLOpts, insert(n, v, t)
        PROVE  len' <= c \/ len' <= max_entries
    BY <2>1, <2>3, InsertLen
  <2> QED
    BY <2>1, <2>2, <2>3, OthersDoNotGrow DEF Next
<1> QED
  BY <1>1, <1>2, TypeCorrect, PTL DEF Spec

(* What an insert does to the keys that are in the map before and after:   *)
(* all but the inserted one keep their entry.                              *)
LEMMA InsertKeeps ==
  ASSUME TypeOK, NEW n \in Names, NEW v \in Values, NEW t \in TTLOpts,
         insert(n, v, t)
  PROVE  /\ \A j \in (DOMAIN map \cap DOMAIN map') \ {n} : map'[j] = map[j]
         /\ n \in DOMAIN map' /\ map'[n].fetched_at = now
         /\ n \in DOMAIN map => DOMAIN map \subseteq DOMAIN map'
         /\ \A k \in DOMAIN map \ DOMAIN map' :
              \A y \in DOMAIN map : map[k].fetched_at <= map[y].fetched_at
<1> DEFINE Kept ==
             /\ \A j \in (DOMAIN map \cap DOMAIN map') \ {n} : map'[j] = map[j]
             /\ n \in DOMAIN map' /\ map'[n].fetched_at = now
             /\ n \in DOMAIN map => DOMAIN map \subseteq DOMAIN map'
             /\ \A k \in DOMAIN map \ DOMAIN map' :
                  \A y \in DOMAIN map : map[k].fetched_at <= map[y].fetched_at
<1>1. ASSUME map' = Put(map, n, NewEntry(v, t)) PROVE Kept
  BY <1>1 DEF Put, NewEntry
<1>2. ASSUME NEW k \in DOMAIN map, n \notin DOMAIN map,
             \A y \in DOMAIN map : map[k].fetched_at <= map[y].fetched_at,
             map' = Put(Remove(map, k), n, NewEntry(v, t))
      PROVE  Kept
  <2>1. /\ \A j \in (DOMAIN map \cap DOMAIN map') \ {n} : map'[j] = map[j]
        /\ n \in DOMAIN map' /\ map'[n].fetched_at = now
        /\ \A x \in DOMAIN map \ DOMAIN map' : x = k
    BY <1>2 DEF Put, Remove, Restrict, NewEntry
  <2> QED
    BY <1>2, <2>1
<1> HIDE DEF Kept
<1>3. Kept
  BY <1>1, <1>2, InsertShape
<1> QED
  BY <1>3 DEF Kept

(* Every other step keeps every entry that stays, and drops only expired   *)
(* entries or all of them.                                                 *)
LEMMA OthersKeep ==
  ASSUME TypeOK,
         \/ \E n \in Names : get(n)
         \/ clear
         \/ \E c \in Caps, t \in TTLs : set_config(c, t)
         \/ Tick
         \/ UNCHANGED vars
  PROVE  /\ \A j \in DOMAIN map \cap DOMAIN map' : map'[j] = map[j]
         /\ \A k \in DOMAIN map \ DOMAIN map' :
              is_expired(map[k], now) \/ DOMAIN map' = {}
<1>1. ASSUME NEW n \in Names, n \in DOMAIN map, is_expired(map[n], now),
             map' = Remove(map, n)
      PROVE  /\ \A j \in DOMAIN map \cap DOMAIN map' : map'[j] = map[j]
             /\ \A k \in DOMAIN map \ DOMAIN map' : is_expired(map[k], now)
  BY <1>1 DEF Remove, Restrict
<1>2. clear => DOMAIN map' = {}
  BY DEF clear
<1> QED
  BY <1>1, <1>2, GetShape DEF set_config, Tick, vars

(* Drop-oldest eviction never sacrifices a live entry to an older one. *)
THEOREM OldestFirst == Spec => OldestLeavesFirst
<1>1. TypeOK /\ [Next]_vars =>
        [\A k \in DOMAIN map \ DOMAIN map' :
           \/ is_expired(map[k], now)
           \/ \A j \in DOMAIN map \cap DOMAIN map' :
                map[k].fetched_at <= map'[j].fetched_at]_vars
  <2> SUFFICES ASSUME TypeOK, [Next]_vars,
                      NEW k \in DOMAIN map \ DOMAIN map',
                      NEW j \in DOMAIN map \cap DOMAIN map',
                      ~is_expired(map[k], now)
               PROVE  map[k].fetched_at <= map'[j].fetched_at
    OBVIOUS
  <2>1. ASSUME NEW n \in Names, NEW v \in Values, NEW t \in TTLOpts, insert(n, v, t)
        PROVE  map[k].fetched_at <= map'[j].fetched_at
    <3>1. map[k].fetched_at <= map[j].fetched_at /\ map[k].fetched_at <= now
      BY <2>1, InsertKeeps DEF TypeOK
    <3> QED
      BY <2>1, <3>1, InsertKeeps
  <2> QED
    BY <2>1, OthersKeep DEF Next
<1> QED
  BY <1>1, TypeCorrect, PTL DEF Spec, OldestLeavesFirst

(* Refreshing a present key evicts nothing, also when the cache is full. *)
THEOREM RefreshInPlace == Spec => RefreshEvictsNothing
<1>1. TypeOK /\ [Next]_vars =>
        [(\E k \in DOMAIN map \cap DOMAIN map' : map'[k] # map[k])
           => DOMAIN map \subseteq DOMAIN map']_vars
  <2> SUFFICES ASSUME TypeOK, [Next]_vars,
                      NEW k \in DOMAIN map \cap DOMAIN map', map'[k] # map[k]
               PROVE  DOMAIN map \subseteq DOMAIN map'
    OBVIOUS
  <2>1. ASSUME NEW n \in Names, NEW v \in Values, NEW t \in TTLOpts, insert(n, v, t)
        PROVE  DOMAIN map \subseteq DOMAIN map'
    BY <2>1, InsertKeeps
  <2> QED
    BY <2>1, OthersKeep DEF Next
<1> QED
  BY <1>1, TypeCorrect, PTL DEF Spec, RefreshEvictsNothing

(* A cached entry changes only when it is fetched again: a reload's        *)
(* set_config never rewrites the TTL of an entry in place.                 *)
THEOREM EntriesStable == Spec => EntryChangesOnlyByRefetch
<1>1. TypeOK /\ [Next]_vars =>
        [\A k \in DOMAIN map \cap DOMAIN map' :
           map'[k] # map[k] =>
             map'[k].fetched_at = now /\ default_ttl' = default_ttl]_vars
  <2> SUFFICES ASSUME TypeOK, [Next]_vars,
                      NEW k \in DOMAIN map \cap DOMAIN map', map'[k] # map[k]
               PROVE  map'[k].fetched_at = now /\ default_ttl' = default_ttl
    OBVIOUS
  <2>1. ASSUME NEW n \in Names, NEW v \in Values, NEW t \in TTLOpts, insert(n, v, t)
        PROVE  map'[k].fetched_at = now /\ default_ttl' = default_ttl
    BY <2>1, InsertKeeps DEF insert
  <2> QED
    BY <2>1, OthersKeep DEF Next
<1> QED
  BY <1>1, TypeCorrect, PTL DEF Spec, EntryChangesOnlyByRefetch
=============================================================================

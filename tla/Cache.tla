------------------------------- MODULE Cache -------------------------------
(***************************************************************************)
(* The in-memory metadata cache of the gateway (internal/cache/cache.go).  *)
(*                                                                         *)
(* The Go map `items` from key to *Item{Value, Expiration} is a total      *)
(* function from Keys that holds NoItem where the map has no entry.  Time  *)
(* (time.Now().UnixNano()) is the discrete clock `now`; a TTL is a number  *)
(* of ticks.  Every exported method takes the cache's RWMutex for its      *)
(* whole body, so each is one atomic step here.                            *)
(***************************************************************************)
EXTENDS Naturals, FiniteSets

CONSTANTS
    Keys,       \* the cache keys the program uses
    Values,     \* the values it stores
    NoValue,    \* a value that is not in Values (marks an absent entry)
    EmptyKey,   \* the key "" (evictOldest never deletes it)
    MaxSize,    \* c.maxSize (CACHE_MAX_SIZE)
    TTLs,       \* the TTLs SetWithTTL is called with
    MaxTime     \* bound on the clock, for model checking

(* CACHE_MAX_SIZE is at least 1 and no key of the program is "": both are  *)
(* needed for the size bound (see README, hazards).                        *)
ASSUME CacheAssumption ==
    /\ IsFiniteSet(Keys)
    /\ MaxSize \in Nat \ {0}
    /\ TTLs \subseteq Nat
    /\ MaxTime \in Nat
    /\ NoValue \notin Values
    /\ EmptyKey \notin Keys

VARIABLES
    items,      \* c.items
    now,        \* time.Now()
    stopped     \* c.stopCleanup has been closed (Stop)

cacheVars == <<items, now, stopped>>

Item == [value : Values, expiration : Nat]

NoItem == [value |-> NoValue, expiration |-> 0]

TypeOK ==
    /\ items \in [Keys -> Item \cup {NoItem}]
    /\ now \in Nat
    /\ stopped \in BOOLEAN

(* The keys the map holds, expired or not: len(c.items) counts them all.   *)
Cached == {k \in Keys : items[k] # NoItem}

(* Get(key) finds the entry and it has not expired (now > Expiration is a  *)
(* miss).                                                                  *)
Hit(k) == items[k] # NoItem /\ now <= items[k].expiration

(* The map without key k (delete(c.items, k)).                             *)
Without(its, k) == [its EXCEPT ![k] = NoItem]

(* evictOldest: the entries with the smallest Expiration; Go's map order   *)
(* is random, so any of them may come first and be the one taken.          *)
Oldest == {k \in Cached : \A j \in Cached : items[k].expiration <= items[j].expiration}

(* The maps evictOldest may leave: oldestKey stays "" when the map is      *)
(* empty, and an oldest key "" is not deleted.                             *)
EvictOldest ==
    IF Cached = {} THEN {items}
    ELSE {IF k = EmptyKey THEN items ELSE Without(items, k) : k \in Oldest}

(* Mutant: the guard off by one (len > maxSize).                           *)
MustEvictLate == Cardinality(Cached) > MaxSize

(* The eviction guard of SetWithTTL: int64(len(c.items)) >= c.maxSize.     *)
MustEvict == Cardinality(Cached) >= MaxSize

(* SetWithTTL(key, value, ttl) (Set is SetWithTTL with c.defaultTTL).      *)
SetWithTTL(k, v, ttl) ==
    /\ \E base \in (IF MustEvict THEN EvictOldest ELSE {items}) :
          items' = [base EXCEPT ![k] = [value |-> v, expiration |-> now + ttl]]

Delete(k) == items' = Without(items, k)

Clear == items' = [k \in Keys |-> NoItem]

(* Mutant: the expiry test of deleteExpired reversed (now < Expiration).   *)
ExpiredReversed(its) == [k \in Keys |-> IF its[k] # NoItem /\ now < its[k].expiration
                                        THEN NoItem ELSE its[k]]

(* deleteExpired, run by startCleanup on every ticker tick until Stop.     *)
Expired(its) == [k \in Keys |-> IF its[k] # NoItem /\ now > its[k].expiration
                                THEN NoItem ELSE its[k]]

DeleteExpired ==
    /\ ~stopped
    /\ items' = Expired(items)

(* Stop closes stopCleanup; a second close would panic, and the engine     *)
(* calls it once.                                                          *)
Stop ==
    /\ ~stopped
    /\ stopped' = TRUE
    /\ UNCHANGED <<items, now>>

Tick ==
    /\ now < MaxTime
    /\ now' = now + 1

Init ==
    /\ items = [k \in Keys |-> NoItem]
    /\ now = 0
    /\ stopped = FALSE

(* The map operations change items only; time changes nothing else.       *)
Next ==
    \/ /\ \/ \E k \in Keys, v \in Values, ttl \in TTLs : SetWithTTL(k, v, ttl)
          \/ \E k \in Keys : Delete(k)
          \/ Clear
          \/ DeleteExpired
       /\ UNCHANGED <<now, stopped>>
    \/ Stop
    \/ Tick /\ UNCHANGED <<items, stopped>>

Spec == Init /\ [][Next]_cacheVars

(* startCleanup's ticker fires every cleanupInterval until Stop closes     *)
(* stopCleanup: a pass of deleteExpired that has something to delete is    *)
(* eventually made.  The callers of Set, Get and Delete are not fair.      *)
Cleanup == DeleteExpired /\ UNCHANGED <<now, stopped>>

FairSpec == Spec /\ WF_cacheVars(Cleanup)

-----------------------------------------------------------------------------
(* The cache never holds more than c.maxSize entries, expired ones         *)
(* included: SetWithTTL evicts before it inserts whenever the map is full, *)
(* also when it overwrites a key that is already there.                    *)
SizeBound == Cardinality(Cached) <= MaxSize

(* Entry k is in the map but has expired.                                  *)
ExpiredAt(k) == items[k] # NoItem /\ now > items[k].expiration

(* The janitor purges what has expired: an expired entry does not stay in  *)
(* the map (where it counts against c.maxSize and makes SetWithTTL evict   *)
(* a live entry) unless it is overwritten or deleted, or Stop ended the    *)
(* cleanup goroutine.                                                      *)
ExpiredPurged ==
    \A k \in Keys : ExpiredAt(k) ~> (~ExpiredAt(k) \/ stopped)

=============================================================================

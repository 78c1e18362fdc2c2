---------------------------- MODULE CacheProofs ----------------------------
(***************************************************************************)
(* Proofs about the metadata cache (module Cache, internal/cache/cache.go) *)
(* for every key set, TTL set and CACHE_MAX_SIZE >= 1.                     *)
(*                                                                         *)
(* SizeBound is not inductive on its own: a SetWithTTL step only keeps it  *)
(* if the map and the entry it inserts are well formed (an inserted Item   *)
(* is never NoItem, and an evicted key is never the "" key), so the        *)
(* inductive invariant is TypeOK /\ SizeBound.                             *)
(***************************************************************************)
EXTENDS Cache, FiniteSetTheorems, TLAPS

(* The keys a map its holds (Cached is CachedIn(items)).                   *)
CachedIn(its) == {k \in Keys : its[k] # NoItem}

IInv == TypeOK /\ SizeBound

(* Storing an Item under k adds k to the keys the map holds.               *)
LEMMA CachedStore ==
  ASSUME NEW its \in [Keys -> Item \cup {NoItem}], NEW k \in Keys,
         NEW it \in Item
  PROVE  CachedIn([its EXCEPT ![k] = it]) = CachedIn(its) \cup {k}
<1>1. it # NoItem
  BY CacheAssumption DEF Item, NoItem
<1>. QED  BY <1>1 DEF CachedIn

(* Deleting k removes k from the keys the map holds.                       *)
LEMMA CachedWithout ==
  ASSUME NEW its \in [Keys -> Item \cup {NoItem}], NEW k \in Keys
  PROVE  CachedIn(Without(its, k)) = CachedIn(its) \ {k}
BY DEF CachedIn, Without

(* The held keys of a well-typed map are a finite set.                     *)
LEMMA CachedFinite ==
  ASSUME NEW its
  PROVE  IsFiniteSet(CachedIn(its)) /\ Cardinality(CachedIn(its)) \in Nat
<1>1. CachedIn(its) \in SUBSET Keys
  BY DEF CachedIn
<1>2. IsFiniteSet(CachedIn(its))
  BY <1>1, CacheAssumption, FS_Subset
<1>. QED  BY <1>2, FS_CardinalityType

(* The maps evictOldest can leave are well typed, and each of them holds   *)
(* one key fewer than a nonempty map.                                      *)
LEMMA EvictOneLess ==
  ASSUME TypeOK, Cached # {}, NEW base \in EvictOldest
  PROVE  /\ base \in [Keys -> Item \cup {NoItem}]
         /\ Cardinality(CachedIn(base)) = Cardinality(Cached) - 1
<1>1. PICK k0 \in Oldest : base = IF k0 = EmptyKey THEN items ELSE Without(items, k0)
  BY DEF EvictOldest
<1>2. k0 \in Cached /\ k0 \in Keys /\ k0 # EmptyKey
  BY CacheAssumption DEF Oldest, Cached
<1>3. base = Without(items, k0)
  BY <1>1, <1>2
<1>4. base \in [Keys -> Item \cup {NoItem}]
  BY <1>3 DEF TypeOK, Without
<1>5. CachedIn(base) = Cached \ {k0}
  BY <1>2, <1>3, CachedWithout DEF TypeOK, Cached, CachedIn
<1>6. IsFiniteSet(Cached)
  BY CachedFinite DEF Cached, CachedIn
<1>. QED  BY <1>2, <1>4, <1>5, <1>6, FS_RemoveElement

-----------------------------------------------------------------------------
(* The empty cache is well typed.                                         *)
LEMMA InitType == Init => TypeOK
<1> SUFFICES ASSUME Init PROVE TypeOK
  OBVIOUS
<1>1. NoItem \in Item \cup {NoItem}
  OBVIOUS
<1>2. items \in [Keys -> Item \cup {NoItem}]
  BY <1>1 DEF Init
<1>. QED  BY <1>2 DEF Init, TypeOK

(* A step of the cache keeps it well typed.                               *)
LEMMA TypeStep == TypeOK /\ [Next]_cacheVars => TypeOK'
<1> SUFFICES ASSUME TypeOK, [Next]_cacheVars PROVE TypeOK'
  OBVIOUS
<1>1. ASSUME NEW k \in Keys, NEW v \in Values, NEW ttl \in TTLs,
             SetWithTTL(k, v, ttl), UNCHANGED <<now, stopped>>
      PROVE  TypeOK'
  <2>1. PICK base \in (IF MustEvict THEN EvictOldest ELSE {items}) :
               items' = [base EXCEPT ![k] = [value |-> v, expiration |-> now + ttl]]
    BY <1>1 DEF SetWithTTL
  <2>2. base \in [Keys -> Item \cup {NoItem}]
    <3>1. CASE MustEvict /\ Cached # {}
      BY <2>1, <3>1, EvictOneLess
    <3>2. CASE MustEvict /\ Cached = {}
      BY <2>1, <3>2 DEF EvictOldest, TypeOK
    <3>3. CASE ~MustEvict
      BY <2>1, <3>3 DEF TypeOK
    <3>. QED  BY <3>1, <3>2, <3>3
  <2>3. [value |-> v, expiration |-> now + ttl] \in Item
    BY CacheAssumption DEF TypeOK, Item
  <2>. QED  BY <1>1, <2>1, <2>2, <2>3 DEF TypeOK
<1>2. ASSUME NEW k \in Keys, Delete(k), UNCHANGED <<now, stopped>>
      PROVE  TypeOK'
  BY <1>2 DEF Delete, Without, TypeOK
<1>3. ASSUME Clear, UNCHANGED <<now, stopped>>
      PROVE  TypeOK'
  BY <1>3 DEF Clear, TypeOK
<1>4. ASSUME DeleteExpired, UNCHANGED <<now, stopped>>
      PROVE  TypeOK'
  BY <1>4 DEF DeleteExpired, Expired, TypeOK
<1>5. CASE Stop
  BY <1>5 DEF Stop, TypeOK
<1>6. ASSUME Tick, UNCHANGED <<items, stopped>>
      PROVE  TypeOK'
  BY <1>6 DEF Tick, TypeOK
<1>7. CASE UNCHANGED cacheVars
  BY <1>7 DEF cacheVars, TypeOK
<1>. QED  BY <1>1, <1>2, <1>3, <1>4, <1>5, <1>6, <1>7 DEF Next

(* Type correctness of the cache: every entry of c.items is an Item with a *)
(* natural expiration, whatever the keys, values and TTLs.                 *)
THEOREM TypeCorrect == Spec => []TypeOK
<1>1. Init => TypeOK
  BY InitType
<1>2. TypeOK /\ [Next]_cacheVars => TypeOK'
  BY TypeStep
<1>. QED  BY <1>1, <1>2, PTL DEF Spec

(* The size bound of SetWithTTL: c.items never holds more than c.maxSize   *)
(* entries, for every CACHE_MAX_SIZE >= 1, because SetWithTTL evicts the   *)
(* oldest entry before it inserts whenever len(c.items) >= c.maxSize and   *)
(* Delete, Clear and deleteExpired only remove entries.                    *)
THEOREM SizeBounded == Spec => []SizeBound
<1>1. Init => IInv
  <2> SUFFICES ASSUME Init PROVE IInv
    OBVIOUS
  <2>1. Cached = {}
    BY DEF Init, Cached
  <2>. QED  BY <2>1, InitType, FS_EmptySet, CacheAssumption DEF IInv, SizeBound
<1>2. IInv /\ [Next]_cacheVars => IInv'
  <2> SUFFICES ASSUME IInv, [Next]_cacheVars PROVE IInv'
    OBVIOUS
  <2>0. TypeOK'
    BY TypeStep DEF IInv
  <2>A. Cardinality(Cached) \in Nat /\ IsFiniteSet(Cached)
    BY CachedFinite DEF Cached, CachedIn
  <2>B. Cached' = CachedIn(items')
    BY DEF Cached, CachedIn
  <2>C. Cardinality(Cached') \in Nat
    BY <2>B, CachedFinite
  <2>1. ASSUME NEW k \in Keys, NEW v \in Values, NEW ttl \in TTLs,
               SetWithTTL(k, v, ttl), UNCHANGED <<now, stopped>>
        PROVE  SizeBound'
    <3>1. PICK base \in (IF MustEvict THEN EvictOldest ELSE {items}) :
                 items' = [base EXCEPT ![k] = [value |-> v, expiration |-> now + ttl]]
      BY <2>1 DEF SetWithTTL
    <3>2. [value |-> v, expiration |-> now + ttl] \in Item
      BY CacheAssumption DEF IInv, TypeOK, Item
    <3>3. /\ base \in [Keys -> Item \cup {NoItem}]
          /\ Cardinality(CachedIn(base)) + 1 <= MaxSize
      <4>1. CASE MustEvict
        <5>1. Cached # {}
          BY <4>1, FS_EmptySet, CacheAssumption DEF MustEvict
        <5>. QED  BY <3>1, <4>1, <5>1, <2>A, EvictOneLess DEF IInv, SizeBound
      <4>2. CASE ~MustEvict
        BY <3>1, <4>2, <2>A, CacheAssumption DEF MustEvict, IInv, TypeOK, Cached, CachedIn
      <4>. QED  BY <4>1, <4>2
    <3>4. Cached' = CachedIn(base) \cup {k}
      BY <2>B, <3>1, <3>2, <3>3, CachedStore
    <3>5. IsFiniteSet(CachedIn(base)) /\ Cardinality(CachedIn(base)) \in Nat
      BY CachedFinite
    <3>6. Cardinality(CachedIn(base) \cup {k}) <= Cardinality(CachedIn(base)) + 1
      BY <3>5, FS_AddElement
    <3>. QED  BY <2>C, <3>3, <3>4, <3>5, <3>6, CacheAssumption DEF SizeBound
  <2>2. ASSUME Cached' \subseteq Cached PROVE SizeBound'
    <3>1. Cardinality(Cached') <= Cardinality(Cached)
      BY <2>2, <2>A, FS_Subset
    <3>. QED  BY <3>1, <2>A, <2>C, CacheAssumption DEF IInv, SizeBound
  <2>3. ASSUME NEW k \in Keys, Delete(k) PROVE Cached' \subseteq Cached
    BY <2>3 DEF Delete, Without, Cached
  <2>4. ASSUME Clear PROVE Cached' \subseteq Cached
    BY <2>4 DEF Clear, Cached
  <2>5. ASSUME DeleteExpired PROVE Cached' \subseteq Cached
    BY <2>5 DEF DeleteExpired, Expired, Cached
  <2>6. ASSUME UNCHANGED items PROVE Cached' \subseteq Cached
    BY <2>6 DEF Cached
  <2>7. SizeBound'
    BY <2>1, <2>2, <2>3, <2>4, <2>5, <2>6 DEF Next, Stop, cacheVars
  <2>. QED  BY <2>0, <2>7 DEF IInv
<1>3. IInv => SizeBound
  BY DEF IInv
<1>. QED  BY <1>1, <1>2, <1>3, PTL DEF Spec
====

-------------------------- MODULE RouteAdminProofs --------------------------
(***************************************************************************)
(* Proofs about the route administration path (module RouteAdmin,          *)
(* internal/handlers/handlers.go and the route repository).                *)
(*                                                                         *)
(* TypeOK is not inductive on its own: a Get that hits the cache answers   *)
(* with the value stored under "route:" + idStr, and a List with the one   *)
(* under "routes:all", so the cache must hold a route under every per-     *)
(* route key and a listing under the list key, and a handler between its   *)
(* read of the table and its fill must hold what it read.  TInv adds       *)
(* that.                                                                   *)
(*                                                                         *)
(* ReadsSeeCompletedWrites holds for one client issuing requests one after *)
(* another with canonical ids (runs route_race and route_alias show that   *)
(* it fails with two concurrent requests, or with two spellings of one     *)
(* id).  It is not inductive either: the proof needs that every cached     *)
(* route and listing is at least as new as every completed write, that a   *)
(* handler between its table read and its fill still holds a row at least  *)
(* that new, and that a write handler between its SQL statement and its    *)
(* invalidation knows which id it wrote and which keys still hold it.      *)
(***************************************************************************)
EXTENDS RouteAdmin, FiniteSetTheorems, TLAPS

(* The cache holds a listing under "routes:all" and a route under every    *)
(* "route:" + idStr key.                                                   *)
CacheTyped ==
    /\ cache[AllKey] # C!NoItem => cache[AllKey].value \in Listing
    /\ \A s \in IdStrs :
          cache[RouteKey(s)] # C!NoItem => cache[RouteKey(s)].value \in Row

(* What a handler carries from one step to the next.                       *)
StageTyped ==
    \A p \in Procs :
       /\ pc[p] \in {"GetDB", "GetFill", "UpdateInv", "DeleteInv", "RouteInv"} =>
             arg[p] \in IdStrs
       /\ pc[p] = "GetFill" => local[p] \in Row
       /\ pc[p] = "ListFill" => local[p] \in Listing

TInv == TypeOK /\ CacheTyped /\ StageTyped

(* The cache's map is well typed.                                          *)
CacheMap == [CacheKeys -> C!Item \cup {C!NoItem}]

(* Every entry of c2 is the entry of the cache, or no entry.               *)
Shrunk(c2) == \A k \in CacheKeys : c2[k] = cache[k] \/ c2[k] = C!NoItem

-----------------------------------------------------------------------------
LEMMA KeyFacts ==
  /\ AllKey \in CacheKeys
  /\ \A s \in IdStrs : RouteKey(s) \in CacheKeys /\ RouteKey(s) # AllKey
  /\ \A s, t \in IdStrs : RouteKey(s) = RouteKey(t) => s = t
BY RouteKeysAssumption DEF CacheKeys

(* The maps evictOldest may leave hold a subset of the cache's entries.    *)
LEMMA EvictBase ==
  ASSUME cache \in CacheMap,
         NEW base \in (IF C!MustEvict THEN C!EvictOldest ELSE {cache})
  PROVE  base \in CacheMap /\ Shrunk(base)
<1>1. CASE C!MustEvict /\ C!Cached # {}
  <2>1. PICK k \in C!Oldest : base = IF k = EmptyKey THEN cache ELSE C!Without(cache, k)
    BY <1>1 DEF C!EvictOldest
  <2>2. k \in CacheKeys
    BY DEF C!Oldest, C!Cached
  <2>. QED  BY <2>1, <2>2 DEF C!Without, CacheMap, Shrunk
<1>2. CASE C!MustEvict /\ C!Cached = {}
  BY <1>2 DEF C!EvictOldest, Shrunk
<1>3. CASE ~C!MustEvict
  BY <1>3 DEF Shrunk
<1>. QED  BY <1>1, <1>2, <1>3

(* A fill by SetWithTTL stores the entry under k and may evict others.     *)
LEMMA FillStep ==
  ASSUME cache \in CacheMap, now \in Nat, NEW k \in CacheKeys,
         NEW v \in Row \cup Listing, C!SetWithTTL(k, v, RouteTTL)
  PROVE  /\ cache' \in CacheMap
         /\ cache'[k] = [value |-> v, expiration |-> now + RouteTTL]
         /\ \A j \in CacheKeys \ {k} : cache'[j] = cache[j] \/ cache'[j] = C!NoItem
<1>1. PICK base \in (IF C!MustEvict THEN C!EvictOldest ELSE {cache}) :
        cache' = [base EXCEPT ![k] = [value |-> v, expiration |-> now + RouteTTL]]
  BY DEF C!SetWithTTL
<1>2. base \in CacheMap /\ Shrunk(base)
  BY EvictBase
<1>3. [value |-> v, expiration |-> now + RouteTTL] \in C!Item
  BY RouteAdminAssumption DEF C!Item
<1>. QED  BY <1>1, <1>2, <1>3 DEF CacheMap, Shrunk

(* Deleting keys, by the handlers or by the sweeper, only removes entries. *)
LEMMA WithoutStep ==
  ASSUME cache \in CacheMap, NEW k
  PROVE  C!Without(cache, k) \in CacheMap /\ Shrunk(C!Without(cache, k))
BY DEF C!Without, CacheMap, Shrunk

LEMMA SweepStep ==
  ASSUME cache \in CacheMap
  PROVE  C!Expired(cache) \in CacheMap /\ Shrunk(C!Expired(cache))
BY DEF C!Expired, CacheMap, Shrunk

-----------------------------------------------------------------------------
LEMMA TInit == Init => TInv
<1> SUFFICES ASSUME Init PROVE TInv
  OBVIOUS
<1>1. C!NoItem \in C!Item \cup {C!NoItem} /\ Absent \in Row
  BY DEF Absent, Row
<1>2. cache \in CacheMap
  BY <1>1 DEF Init, CacheMap
<1>3. TypeOK
  BY <1>1, <1>2, RouteAdminAssumption
     DEF Init, TypeOK, C!TypeOK, CacheMap, Ids, Response, NoResp
<1>. QED  BY <1>3, KeyFacts DEF Init, TInv, CacheTyped, StageTyped

(* Replacing one value of a function keeps it in its function set.        *)
LEMMA UpdFun ==
  ASSUME NEW S, NEW T, NEW f \in [S -> T], NEW x, NEW v \in T
  PROVE  [f EXCEPT ![x] = v] \in [S -> T]
OBVIOUS

(* The parts of TypeOK, one per variable.                                  *)
LEMMA TypeParts ==
  TypeOK <=> /\ db \in [Ids -> Row]
             /\ nextId \in 1..(MaxRoutes + 1)
             /\ lastVer \in Nat
             /\ cache \in CacheMap /\ now \in Nat
             /\ pc \in [Procs -> {"Idle", "GetDB", "GetFill", "ListDB", "ListFill",
                                  "CreateInv", "UpdateInv", "DeleteInv", "RouteInv"}]
             /\ arg \in [Procs -> IdStrs \cup {NoStr}]
             /\ local \in [Procs -> Row \cup Listing]
             /\ wrote \in [Procs -> [id : Ids \cup {0}, ver : Nat]]
             /\ floor \in [Procs -> [Ids -> Nat]]
             /\ committed \in [Ids -> Nat]
             /\ served \in [Procs -> Response \cup {NoResp}]
BY DEF TypeOK, C!TypeOK, CacheMap

LEMMA TypePartsNext ==
  TypeOK' <=> /\ db' \in [Ids -> Row]
              /\ nextId' \in 1..(MaxRoutes + 1)
              /\ lastVer' \in Nat
              /\ cache' \in CacheMap /\ now' \in Nat
              /\ pc' \in [Procs -> {"Idle", "GetDB", "GetFill", "ListDB", "ListFill",
                                    "CreateInv", "UpdateInv", "DeleteInv", "RouteInv"}]
              /\ arg' \in [Procs -> IdStrs \cup {NoStr}]
              /\ local' \in [Procs -> Row \cup Listing]
              /\ wrote' \in [Procs -> [id : Ids \cup {0}, ver : Nat]]
              /\ floor' \in [Procs -> [Ids -> Nat]]
              /\ committed' \in [Ids -> Nat]
              /\ served' \in [Procs -> Response \cup {NoResp}]
BY DEF TypeOK, C!TypeOK, CacheMap

(* Get's cache lookup: a hit answers with the cached route.                *)
LEMMA GetLookupT ==
  ASSUME TInv, NEW p \in Procs, NEW s \in IdStrs, GetLookup(p, s) PROVE TInv'
<1>0. TypeOK /\ UNCHANGED <<db, nextId, lastVer, cache, now, local, wrote, committed>>
  BY DEF TInv, GetLookup
<1>1. CASE C!Hit(RouteKey(s))
  <2>1. cache[RouteKey(s)].value \in Row
    BY <1>1, KeyFacts DEF TInv, CacheTyped, C!Hit
  <2>2. IdOf[s] \in Ids /\ committed \in [Ids -> Nat]
    BY <1>0, TypeParts, RouteAdminAssumption
  <2>3. [kind |-> "one", id |-> IdOf[s], row |-> cache[RouteKey(s)].value,
         floor |-> committed] \in Response
    BY <2>1, <2>2 DEF Response
  <2>4. served' \in [Procs -> Response \cup {NoResp}]
    <3>1. served' = [served EXCEPT ![p] =
                 [kind |-> "one", id |-> IdOf[s],
                  row |-> cache[RouteKey(s)].value, floor |-> committed]]
      BY <1>1 DEF GetLookup
    <3>2. served \in [Procs -> Response \cup {NoResp}]
      BY <1>0, TypeParts
    <3>. QED  BY <2>3, <3>1, <3>2, UpdFun
  <2>5. UNCHANGED <<pc, arg, floor>>
    BY <1>1 DEF GetLookup, C!Hit
  <2>6. TypeOK'
    BY <1>0, <2>4, <2>5, TypeParts, TypePartsNext
  <2>. QED  BY <1>0, <2>5, <2>6 DEF TInv, CacheTyped, StageTyped
<1>2. CASE ~C!Hit(RouteKey(s))
  <2>1. /\ pc' = [pc EXCEPT ![p] = "GetDB"]
        /\ arg' = [arg EXCEPT ![p] = s]
        /\ floor' = [floor EXCEPT ![p] = committed]
        /\ UNCHANGED served
    BY <1>2 DEF GetLookup
  <2>2. TypeOK'
    BY <1>0, <2>1, TypeParts, TypePartsNext, UpdFun
  <2>3. StageTyped'
    BY <1>0, <2>1, TypeParts DEF TInv, StageTyped
  <2>. QED  BY <1>0, <2>2, <2>3 DEF TInv, CacheTyped
<1>. QED  BY <1>1, <1>2

LEMMA GetDBT ==
  ASSUME TInv, NEW p \in Procs, GetDB(p) PROVE TInv'
<1>0. TypeOK /\ UNCHANGED <<db, nextId, lastVer, cache, now, arg, wrote, floor,
                            committed, served>>
  BY DEF TInv, GetDB
<1>1. arg[p] \in IdStrs /\ IdOf[arg[p]] \in Ids
  BY RouteAdminAssumption DEF TInv, StageTyped, GetDB
<1>2. db[IdOf[arg[p]]] \in Row
  BY <1>0, <1>1, TypeParts
<1>3. \/ local' = [local EXCEPT ![p] = db[IdOf[arg[p]]]] /\ pc' = [pc EXCEPT ![p] = "GetFill"]
      \/ UNCHANGED local /\ pc' = [pc EXCEPT ![p] = "Idle"]
  BY DEF GetDB
<1>4. TypeOK'
  BY <1>0, <1>2, <1>3, TypeParts, TypePartsNext, UpdFun
<1>5. StageTyped'
  BY <1>0, <1>1, <1>2, <1>3, TypeParts DEF TInv, StageTyped
<1>. QED  BY <1>0, <1>4, <1>5 DEF TInv, CacheTyped

LEMMA GetFillT ==
  ASSUME TInv, NEW p \in Procs, GetFill(p) PROVE TInv'
<1>1. arg[p] \in IdStrs /\ local[p] \in Row
  BY DEF TInv, StageTyped, GetFill
<1>2. RouteKey(arg[p]) \in CacheKeys /\ cache \in CacheMap /\ now \in Nat
  BY <1>1, KeyFacts DEF TInv, TypeOK, C!TypeOK, CacheMap
<1>3. /\ cache' \in CacheMap
      /\ cache'[RouteKey(arg[p])] = [value |-> local[p], expiration |-> now + RouteTTL]
      /\ \A j \in CacheKeys \ {RouteKey(arg[p])} :
            cache'[j] = cache[j] \/ cache'[j] = C!NoItem
  BY <1>1, <1>2, FillStep DEF GetFill
<1>4. CacheTyped'
  BY <1>1, <1>3, KeyFacts DEF TInv, CacheTyped
<1>5. served'[p] \in Response
  BY <1>1, RouteAdminAssumption DEF GetFill, TInv, TypeOK, Response
<1>6. C!TypeOK'
  BY <1>3 DEF GetFill, TInv, TypeOK, C!TypeOK, CacheMap
<1>. QED  BY <1>4, <1>5, <1>6 DEF GetFill, TInv, TypeOK, StageTyped

LEMMA ListLookupT ==
  ASSUME TInv, NEW p \in Procs, ListLookup(p) PROVE TInv'
<1>0. TypeOK /\ UNCHANGED <<db, nextId, lastVer, cache, now, arg, local, wrote,
                            committed>>
  BY DEF TInv, ListLookup
<1>1. CASE C!Hit(AllKey)
  <2>1. cache[AllKey].value \in Listing
    BY <1>1 DEF TInv, CacheTyped, C!Hit
  <2>2. committed \in [Ids -> Nat]
    BY <1>0, TypeParts
  <2>3. [kind |-> "all", rows |-> cache[AllKey].value.rows, floor |-> committed]
          \in Response
    BY <2>1, <2>2 DEF Listing, Response
  <2>4. served' \in [Procs -> Response \cup {NoResp}]
    BY <1>0, <1>1, <2>3, TypeParts, UpdFun DEF ListLookup, C!Hit
  <2>5. UNCHANGED <<pc, floor>>
    BY <1>1 DEF ListLookup, C!Hit
  <2>6. TypeOK'
    BY <1>0, <2>4, <2>5, TypeParts, TypePartsNext
  <2>. QED  BY <1>0, <2>5, <2>6 DEF TInv, CacheTyped, StageTyped
<1>2. CASE ~C!Hit(AllKey)
  <2>1. /\ pc' = [pc EXCEPT ![p] = "ListDB"]
        /\ floor' = [floor EXCEPT ![p] = committed]
        /\ UNCHANGED served
    BY <1>2 DEF ListLookup
  <2>2. TypeOK'
    BY <1>0, <2>1, TypeParts, TypePartsNext, UpdFun
  <2>3. StageTyped'
    BY <1>0, <2>1, TypeParts DEF TInv, StageTyped
  <2>. QED  BY <1>0, <2>2, <2>3 DEF TInv, CacheTyped
<1>. QED  BY <1>1, <1>2

LEMMA ListDBT ==
  ASSUME TInv, NEW p \in Procs, ListDB(p) PROVE TInv'
<1>0. TypeOK /\ UNCHANGED <<db, nextId, lastVer, cache, now, arg, wrote, floor,
                            committed, served>>
  BY DEF TInv, ListDB
<1>1. [rows |-> db] \in Listing
  BY <1>0, TypeParts DEF Listing
<1>2. local' = [local EXCEPT ![p] = [rows |-> db]] /\ pc' = [pc EXCEPT ![p] = "ListFill"]
  BY DEF ListDB
<1>3. TypeOK'
  BY <1>0, <1>1, <1>2, TypeParts, TypePartsNext, UpdFun
<1>4. StageTyped'
  BY <1>0, <1>1, <1>2, TypeParts DEF TInv, StageTyped
<1>. QED  BY <1>0, <1>3, <1>4 DEF TInv, CacheTyped

LEMMA ListFillT ==
  ASSUME TInv, NEW p \in Procs, ListFill(p) PROVE TInv'
<1>1. local[p] \in Listing
  BY DEF TInv, StageTyped, ListFill
<1>2. AllKey \in CacheKeys /\ cache \in CacheMap /\ now \in Nat
  BY KeyFacts DEF TInv, TypeOK, C!TypeOK, CacheMap
<1>3. /\ cache' \in CacheMap
      /\ cache'[AllKey] = [value |-> local[p], expiration |-> now + RouteTTL]
      /\ \A j \in CacheKeys \ {AllKey} : cache'[j] = cache[j] \/ cache'[j] = C!NoItem
  BY <1>1, <1>2, FillStep DEF ListFill
<1>4. CacheTyped'
  BY <1>1, <1>3, KeyFacts DEF TInv, CacheTyped
<1>5. served'[p] \in Response
  BY <1>1 DEF ListFill, TInv, TypeOK, Response, Listing
<1>6. C!TypeOK'
  BY <1>3 DEF ListFill, TInv, TypeOK, C!TypeOK, CacheMap
<1>. QED  BY <1>4, <1>5, <1>6 DEF ListFill, TInv, TypeOK, StageTyped

(* Removing entries keeps the cache typed.                                 *)
LEMMA ShrinkTyped ==
  ASSUME CacheTyped, Shrunk(cache') PROVE CacheTyped'
BY KeyFacts DEF CacheTyped, Shrunk

(* Adding a completed write: committed stays a map to naturals.            *)
LEMMA CommitType ==
  ASSUME NEW w \in [id : Ids \cup {0}, ver : Nat], committed \in [Ids -> Nat]
  PROVE  [committed EXCEPT ![w.id] = Max2(@, w.ver)] \in [Ids -> Nat]
<1>1. CASE w.id = 0
  <2>1. 0 \notin Ids
    BY DEF Ids
  <2>. QED  BY <1>1, <2>1
<1>2. CASE w.id \in Ids
  BY <1>2 DEF Max2
<1>. QED  BY <1>1, <1>2

LEMMA CreateT ==
  ASSUME TInv, NEW p \in Procs, Create(p) PROVE TInv'
<1>0. TypeOK /\ UNCHANGED <<cache, now, arg, local, floor, committed, served>>
  BY DEF TInv, Create
<1>1. nextId \in Ids /\ nextId + 1 \in 1..(MaxRoutes + 1) /\ lastVer + 1 \in Nat
  BY <1>0, TypeParts, RouteAdminAssumption DEF Create, Ids
<1>2. /\ [ver |-> lastVer + 1, present |-> TRUE] \in Row
      /\ [id |-> nextId, ver |-> lastVer + 1] \in [id : Ids \cup {0}, ver : Nat]
  BY <1>1 DEF Row
<1>3. /\ db' = [db EXCEPT ![nextId] = [ver |-> lastVer + 1, present |-> TRUE]]
      /\ wrote' = [wrote EXCEPT ![p] = [id |-> nextId, ver |-> lastVer + 1]]
      /\ pc' = [pc EXCEPT ![p] = "CreateInv"]
      /\ nextId' = nextId + 1 /\ lastVer' = lastVer + 1
  BY DEF Create
<1>4. TypeOK'
  BY <1>0, <1>1, <1>2, <1>3, TypeParts, TypePartsNext, UpdFun
<1>5. StageTyped'
  BY <1>0, <1>3, TypeParts DEF TInv, StageTyped
<1>. QED  BY <1>0, <1>4, <1>5 DEF TInv, CacheTyped

LEMMA CreateInvT ==
  ASSUME TInv, NEW p \in Procs, CreateInv(p) PROVE TInv'
<1>0. TypeOK /\ UNCHANGED <<db, nextId, lastVer, now, arg, local, wrote, floor, served>>
  BY DEF TInv, CreateInv
<1>1. cache' = C!Without(cache, AllKey) /\ pc' = [pc EXCEPT ![p] = "Idle"]
      /\ committed' = [committed EXCEPT ![wrote[p].id] = Max2(@, wrote[p].ver)]
  BY DEF CreateInv
<1>2. cache' \in CacheMap /\ Shrunk(cache')
  BY <1>0, <1>1, TypeParts, WithoutStep
<1>3. committed' \in [Ids -> Nat]
  BY <1>0, <1>1, TypeParts, CommitType
<1>4. TypeOK'
  BY <1>0, <1>1, <1>2, <1>3, TypeParts, TypePartsNext, UpdFun
<1>5. StageTyped'
  BY <1>0, <1>1, TypeParts DEF TInv, StageTyped
<1>. QED  BY <1>2, <1>4, <1>5, ShrinkTyped DEF TInv

LEMMA UpdateT ==
  ASSUME TInv, NEW p \in Procs, NEW s \in IdStrs, Update(p, s) PROVE TInv'
<1>0. TypeOK /\ UNCHANGED <<nextId, cache, now, local, floor, committed, served>>
  BY DEF TInv, Update
<1>1. IdOf[s] \in Ids /\ lastVer + 1 \in Nat
  BY <1>0, TypeParts, RouteAdminAssumption
<1>2. /\ [ver |-> lastVer + 1, present |-> TRUE] \in Row
      /\ [id |-> IdOf[s], ver |-> lastVer + 1] \in [id : Ids \cup {0}, ver : Nat]
  BY <1>1 DEF Row
<1>3. /\ db' = [db EXCEPT ![IdOf[s]] = [ver |-> lastVer + 1, present |-> TRUE]]
      /\ wrote' = [wrote EXCEPT ![p] = [id |-> IdOf[s], ver |-> lastVer + 1]]
      /\ arg' = [arg EXCEPT ![p] = s]
      /\ pc' = [pc EXCEPT ![p] = "UpdateInv"]
      /\ lastVer' = lastVer + 1
  BY DEF Update
<1>4. TypeOK'
  BY <1>0, <1>1, <1>2, <1>3, TypeParts, TypePartsNext, UpdFun
<1>5. StageTyped'
  BY <1>0, <1>3, TypeParts DEF TInv, StageTyped
<1>. QED  BY <1>0, <1>4, <1>5 DEF TInv, CacheTyped

LEMMA DeleteT ==
  ASSUME TInv, NEW p \in Procs, NEW s \in IdStrs, Delete(p, s) PROVE TInv'
<1>0. TypeOK /\ UNCHANGED <<nextId, cache, now, local, floor, committed, served>>
  BY DEF TInv, Delete
<1>1. IdOf[s] \in Ids /\ lastVer + 1 \in Nat /\ db[IdOf[s]] \in Row
  BY <1>0, TypeParts, RouteAdminAssumption
<1>2. /\ [ver |-> lastVer + 1, present |-> FALSE] \in Row
      /\ [id |-> IdOf[s], ver |-> lastVer + 1] \in [id : Ids \cup {0}, ver : Nat]
      /\ [id |-> IdOf[s], ver |-> db[IdOf[s]].ver] \in [id : Ids \cup {0}, ver : Nat]
  BY <1>1 DEF Row
<1>3. /\ \/ /\ db' = [db EXCEPT ![IdOf[s]] = [ver |-> lastVer + 1, present |-> FALSE]]
            /\ lastVer' = lastVer + 1
            /\ wrote' = [wrote EXCEPT ![p] = [id |-> IdOf[s], ver |-> lastVer + 1]]
         \/ /\ wrote' = [wrote EXCEPT ![p] = [id |-> IdOf[s], ver |-> db[IdOf[s]].ver]]
            /\ UNCHANGED <<db, lastVer>>
      /\ arg' = [arg EXCEPT ![p] = s]
      /\ pc' = [pc EXCEPT ![p] = "DeleteInv"]
  BY DEF Delete
<1>4. db' \in [Ids -> Row] /\ lastVer' \in Nat
      /\ wrote' \in [Procs -> [id : Ids \cup {0}, ver : Nat]]
  <2>1. CASE db' = [db EXCEPT ![IdOf[s]] = [ver |-> lastVer + 1, present |-> FALSE]]
             /\ lastVer' = lastVer + 1
             /\ wrote' = [wrote EXCEPT ![p] = [id |-> IdOf[s], ver |-> lastVer + 1]]
    BY <2>1, <1>0, <1>1, <1>2, TypeParts, UpdFun
  <2>2. CASE wrote' = [wrote EXCEPT ![p] = [id |-> IdOf[s], ver |-> db[IdOf[s]].ver]]
             /\ UNCHANGED <<db, lastVer>>
    BY <2>2, <1>0, <1>2, TypeParts, UpdFun
  <2>. QED  BY <1>3, <2>1, <2>2
<1>5. TypeOK'
  BY <1>0, <1>3, <1>4, TypeParts, TypePartsNext, UpdFun
<1>6. StageTyped'
  BY <1>0, <1>3, TypeParts DEF TInv, StageTyped
<1>. QED  BY <1>0, <1>5, <1>6 DEF TInv, CacheTyped

LEMMA InvalidateListT ==
  ASSUME TInv, NEW p \in Procs, InvalidateList(p) PROVE TInv'
<1>0. TypeOK /\ UNCHANGED <<db, nextId, lastVer, now, arg, local, wrote, floor,
                            committed, served>>
      /\ pc[p] \in {"UpdateInv", "DeleteInv"}
  BY DEF TInv, InvalidateList
<1>1. cache' = C!Without(cache, AllKey) /\ pc' = [pc EXCEPT ![p] = "RouteInv"]
  BY DEF InvalidateList
<1>2. cache' \in CacheMap /\ Shrunk(cache')
  BY <1>0, <1>1, TypeParts, WithoutStep
<1>3. TypeOK'
  BY <1>0, <1>1, <1>2, TypeParts, TypePartsNext, UpdFun
<1>4. StageTyped'
  BY <1>0, <1>1, TypeParts DEF TInv, StageTyped
<1>. QED  BY <1>2, <1>3, <1>4, ShrinkTyped DEF TInv

LEMMA InvalidateRouteT ==
  ASSUME TInv, NEW p \in Procs, InvalidateRoute(p) PROVE TInv'
<1>0. TypeOK /\ UNCHANGED <<db, nextId, lastVer, now, arg, local, wrote, floor, served>>
  BY DEF TInv, InvalidateRoute
<1>1. cache' = C!Without(cache, RouteKey(arg[p]))
      /\ pc' = [pc EXCEPT ![p] = "Idle"]
      /\ committed' = [committed EXCEPT ![wrote[p].id] = Max2(@, wrote[p].ver)]
  BY DEF InvalidateRoute
<1>2. cache' \in CacheMap /\ Shrunk(cache')
  BY <1>0, <1>1, TypeParts, WithoutStep
<1>3. committed' \in [Ids -> Nat]
  BY <1>0, <1>1, TypeParts, CommitType
<1>4. TypeOK'
  BY <1>0, <1>1, <1>2, <1>3, TypeParts, TypePartsNext, UpdFun
<1>5. StageTyped'
  BY <1>0, <1>1, TypeParts DEF TInv, StageTyped
<1>. QED  BY <1>2, <1>4, <1>5, ShrinkTyped DEF TInv

LEMMA SweepT ==
  ASSUME TInv, Sweep PROVE TInv'
<1>0. TypeOK /\ UNCHANGED <<now, db, nextId, lastVer, pc, arg, local, wrote, floor,
                            committed, served>>
  BY DEF TInv, Sweep
<1>1. cache' = C!Expired(cache)
  BY DEF Sweep, C!DeleteExpired
<1>2. cache' \in CacheMap /\ Shrunk(cache')
  BY <1>0, <1>1, TypeParts, SweepStep
<1>3. TypeOK'
  BY <1>0, <1>2, TypeParts, TypePartsNext
<1>. QED  BY <1>0, <1>2, <1>3, ShrinkTyped DEF TInv, StageTyped

LEMMA TickT ==
  ASSUME TInv, Tick PROVE TInv'
<1>0. TypeOK /\ UNCHANGED <<cache, db, nextId, lastVer, pc, arg, local, wrote, floor,
                            committed, served>> /\ now' = now + 1
  BY DEF TInv, Tick, C!Tick
<1>1. TypeOK'
  BY <1>0, TypeParts, TypePartsNext
<1>. QED  BY <1>0, <1>1 DEF TInv, CacheTyped, StageTyped

LEMMA TStep == TInv /\ [Next]_vars => TInv'
<1> SUFFICES ASSUME TInv, [Next]_vars PROVE TInv'
  OBVIOUS
<1>1. ASSUME NEW p \in Procs, NEW s \in IdStrs,
             GetLookup(p, s) \/ Update(p, s) \/ Delete(p, s)
      PROVE  TInv'
  BY <1>1, GetLookupT, UpdateT, DeleteT
<1>2. ASSUME NEW p \in Procs,
             \/ GetDB(p) \/ GetFill(p) \/ ListLookup(p) \/ ListDB(p) \/ ListFill(p)
             \/ Create(p) \/ CreateInv(p) \/ InvalidateList(p) \/ InvalidateRoute(p)
      PROVE  TInv'
  BY <1>2, GetDBT, GetFillT, ListLookupT, ListDBT, ListFillT, CreateT, CreateInvT,
     InvalidateListT, InvalidateRouteT
<1>3. CASE Sweep
  BY <1>3, SweepT
<1>4. CASE Tick
  BY <1>4, TickT
<1>5. CASE UNCHANGED vars
  BY <1>5 DEF vars, TInv, TypeOK, C!TypeOK, CacheTyped, StageTyped
<1>. QED  BY <1>1, <1>2, <1>3, <1>4, <1>5 DEF Next

(* Type correctness of the route administration path: for any number of    *)
(* concurrent requests, id strings and routes, every response a Get or a   *)
(* List sends is a route or a listing of routes, never the other kind of   *)
(* cached value, and every handler reaches each of its steps with the data *)
(* the step uses.                                                          *)
THEOREM TypeCorrect == Spec => []TypeOK
<1>1. TInv => TypeOK
  BY DEF TInv
<1>. QED  BY <1>1, TInit, TStep, PTL DEF Spec

-----------------------------------------------------------------------------
(* One request goroutine, and strconv.Atoi parses no two {id} strings to   *)
(* the same route.                                                         *)
Sequential == \E q : Procs = {q}
Canonical == \A s, t \in IdStrs : IdOf[s] = IdOf[t] => s = t

(* The table: every completed write is in it, every write's version is at  *)
(* most lastVer, and no id the SERIAL has not handed out has a row.        *)
TableFresh ==
    \A id \in Ids :
       /\ committed[id] <= db[id].ver
       /\ db[id].ver <= lastVer
       /\ id >= nextId => ~db[id].present

(* Every cached route and listing is at least as new as the latest         *)
(* completed write to each route it shows, and a cached route has an id    *)
(* the SERIAL handed out.                                                  *)
CacheFresh ==
    /\ cache[AllKey] # C!NoItem =>
          \A id \in Ids : cache[AllKey].value.rows[id].ver >= committed[id]
    /\ \A s \in IdStrs : cache[RouteKey(s)] # C!NoItem =>
          /\ cache[RouteKey(s)].value.ver >= committed[IdOf[s]]
          /\ IdOf[s] < nextId

(* Where handler p stands between its steps.                              *)
StageAt(p) ==
    /\ pc[p] \in {"GetDB", "GetFill", "ListDB", "ListFill"} => floor[p] = committed
    /\ pc[p] = "GetFill" =>
          /\ local[p].ver >= committed[IdOf[arg[p]]]
          /\ IdOf[arg[p]] < nextId
    /\ pc[p] = "ListFill" =>
          \A id \in Ids : local[p].rows[id].ver >= committed[id]
    /\ pc[p] \in {"UpdateInv", "DeleteInv", "RouteInv"} => wrote[p].id = IdOf[arg[p]]
    /\ pc[p] = "RouteInv" => cache[AllKey] = C!NoItem
    /\ pc[p] \in {"CreateInv", "UpdateInv", "DeleteInv", "RouteInv"} =>
          /\ wrote[p].id \in Ids
          /\ wrote[p].ver = db[wrote[p].id].ver
    /\ pc[p] = "CreateInv" =>
          \A s \in IdStrs : IdOf[s] = wrote[p].id => cache[RouteKey(s)] = C!NoItem

StageFresh == \A p \in Procs : StageAt(p)

(* The last response p sent with route data shows every write that had     *)
(* completed when p's request started.                                     *)
ServedOK(p) ==
    served[p] # NoResp =>
        IF served[p].kind = "one"
        THEN served[p].row.ver >= served[p].floor[served[p].id]
        ELSE \A id \in Ids : served[p].rows[id].ver >= served[p].floor[id]

Fresh == TableFresh /\ CacheFresh /\ StageFresh /\ ReadsSeeCompletedWrites

FInv == TInv /\ Fresh

-----------------------------------------------------------------------------
LEMMA OnlyOne ==
  ASSUME Sequential, NEW p \in Procs PROVE Procs = {p}
BY DEF Sequential

LEMMA Types ==
  ASSUME TInv
  PROVE  /\ db \in [Ids -> Row] /\ nextId \in Nat /\ lastVer \in Nat
         /\ committed \in [Ids -> Nat] /\ IdOf \in [IdStrs -> Ids]
         /\ Ids \subseteq Nat /\ cache \in CacheMap
         /\ \A id \in Ids : db[id].ver \in Nat
BY TypeParts, RouteAdminAssumption DEF TInv, Ids, Row

(* Removing cache entries keeps every cached value fresh.                  *)
LEMMA CacheFreshShrink ==
  ASSUME CacheFresh, Shrunk(cache'), committed' = committed, nextId' = nextId
  PROVE  CacheFresh'
BY KeyFacts DEF CacheFresh, Shrunk

(* A step that leaves served alone keeps the property.                     *)
LEMMA ServedKept ==
  ASSUME ReadsSeeCompletedWrites, served' = served PROVE ReadsSeeCompletedWrites'
BY DEF ReadsSeeCompletedWrites

LEMMA GetLookupF ==
  ASSUME TInv, Fresh, NEW p \in Procs, Procs = {p}, NEW s \in IdStrs, GetLookup(p, s)
  PROVE  Fresh'
<1>0. UNCHANGED <<db, nextId, lastVer, cache, now, local, wrote, committed>>
  BY DEF GetLookup
<1>1. TableFresh' /\ CacheFresh'
  BY <1>0 DEF Fresh, TableFresh, CacheFresh
<1>2. CASE C!Hit(RouteKey(s))
  <2>1. cache[RouteKey(s)].value.ver >= committed[IdOf[s]]
    BY <1>2, KeyFacts DEF Fresh, CacheFresh, C!Hit
  <2>2. served' = [served EXCEPT ![p] =
                 [kind |-> "one", id |-> IdOf[s],
                  row |-> cache[RouteKey(s)].value, floor |-> committed]]
        /\ UNCHANGED <<pc, arg, floor>>
    BY <1>2 DEF GetLookup, C!Hit
  <2>3. served \in [Procs -> Response \cup {NoResp}]
    BY TypeParts DEF TInv
  <2>4. ReadsSeeCompletedWrites'
    BY <2>1, <2>2, <2>3 DEF ReadsSeeCompletedWrites
  <2>5. StageFresh'
    BY <1>0, <2>2 DEF Fresh, StageFresh, StageAt
  <2>. QED  BY <1>1, <2>4, <2>5 DEF Fresh
<1>3. CASE ~C!Hit(RouteKey(s))
  <2>1. /\ pc' = [pc EXCEPT ![p] = "GetDB"]
        /\ arg' = [arg EXCEPT ![p] = s]
        /\ floor' = [floor EXCEPT ![p] = committed]
        /\ UNCHANGED served
    BY <1>3 DEF GetLookup
  <2>2. DOMAIN pc = Procs /\ arg \in [Procs -> IdStrs \cup {NoStr}]
        /\ floor \in [Procs -> [Ids -> Nat]]
    BY TypeParts DEF TInv
  <2>3. StageAt(p)'
    BY <1>0, <2>1, <2>2 DEF StageAt
  <2>4. StageFresh'
    BY <2>3 DEF StageFresh
  <2>. QED  BY <1>1, <2>1, <2>4, ServedKept DEF Fresh
<1>. QED  BY <1>2, <1>3

LEMMA GetDBF ==
  ASSUME TInv, Fresh, NEW p \in Procs, Procs = {p}, GetDB(p) PROVE Fresh'
<1>0. UNCHANGED <<db, nextId, lastVer, cache, now, arg, wrote, floor, committed, served>>
      /\ pc[p] = "GetDB"
  BY DEF GetDB
<1>1. TableFresh' /\ CacheFresh' /\ ReadsSeeCompletedWrites'
  BY <1>0 DEF Fresh, TableFresh, CacheFresh, ReadsSeeCompletedWrites
<1>2. arg[p] \in IdStrs /\ IdOf[arg[p]] \in Ids /\ floor[p] = committed
  BY <1>0, Types DEF TInv, StageTyped, Fresh, StageFresh, StageAt
<1>3. DOMAIN pc = Procs /\ local \in [Procs -> Row \cup Listing]
  BY TypeParts DEF TInv
<1>4. CASE db[IdOf[arg[p]]].present
  <2>1. local' = [local EXCEPT ![p] = db[IdOf[arg[p]]]] /\ pc' = [pc EXCEPT ![p] = "GetFill"]
    BY <1>4 DEF GetDB
  <2>2. db[IdOf[arg[p]]].ver >= committed[IdOf[arg[p]]] /\ IdOf[arg[p]] < nextId
    BY <1>2, <1>4, Types DEF Fresh, TableFresh
  <2>3. StageAt(p)'
    BY <1>0, <1>2, <1>3, <2>1, <2>2 DEF StageAt
  <2>. QED  BY <1>1, <2>3 DEF Fresh, StageFresh
<1>5. CASE ~db[IdOf[arg[p]]].present
  <2>1. pc' = [pc EXCEPT ![p] = "Idle"]
    BY <1>5 DEF GetDB
  <2>2. StageAt(p)'
    BY <1>3, <2>1 DEF StageAt
  <2>. QED  BY <1>1, <2>2 DEF Fresh, StageFresh
<1>. QED  BY <1>4, <1>5

LEMMA GetFillF ==
  ASSUME TInv, Fresh, NEW p \in Procs, Procs = {p}, GetFill(p) PROVE Fresh'
<1>0. UNCHANGED <<db, nextId, lastVer, now, arg, local, wrote, floor, committed>>
      /\ pc[p] = "GetFill"
      /\ pc' = [pc EXCEPT ![p] = "Idle"]
  BY DEF GetFill
<1>1. arg[p] \in IdStrs /\ local[p] \in Row /\ IdOf[arg[p]] \in Ids
      /\ floor[p] = committed
      /\ local[p].ver >= committed[IdOf[arg[p]]] /\ IdOf[arg[p]] < nextId
  BY <1>0, Types DEF TInv, StageTyped, Fresh, StageFresh, StageAt
<1>2. RouteKey(arg[p]) \in CacheKeys /\ cache \in CacheMap /\ now \in Nat
  BY <1>1, KeyFacts, Types, TypeParts DEF TInv
<1>3. /\ cache'[RouteKey(arg[p])] = [value |-> local[p], expiration |-> now + RouteTTL]
      /\ \A j \in CacheKeys \ {RouteKey(arg[p])} :
            cache'[j] = cache[j] \/ cache'[j] = C!NoItem
  BY <1>1, <1>2, FillStep DEF GetFill
<1>4. CacheFresh'
  <2>1. cache'[AllKey] = cache[AllKey] \/ cache'[AllKey] = C!NoItem
    BY <1>1, <1>3, KeyFacts
  <2>2. ASSUME NEW t \in IdStrs, cache'[RouteKey(t)] # C!NoItem
        PROVE  cache'[RouteKey(t)].value.ver >= committed'[IdOf[t]] /\ IdOf[t] < nextId'
    <3>1. CASE t = arg[p]
      BY <1>0, <1>1, <1>3, <3>1
    <3>2. CASE t # arg[p]
      <4>1. RouteKey(t) # RouteKey(arg[p]) /\ RouteKey(t) \in CacheKeys
        BY <1>1, <3>2, KeyFacts
      <4>2. cache'[RouteKey(t)] = cache[RouteKey(t)]
        BY <1>3, <2>2, <4>1
      <4>. QED  BY <1>0, <2>2, <4>2 DEF Fresh, CacheFresh
    <3>. QED  BY <3>1, <3>2
  <2>. QED  BY <1>0, <2>1, <2>2 DEF Fresh, CacheFresh
<1>5. served' = [served EXCEPT ![p] =
           [kind |-> "one", id |-> IdOf[arg[p]], row |-> local[p], floor |-> floor[p]]]
  BY DEF GetFill
<1>6. ReadsSeeCompletedWrites'
  BY <1>1, <1>5, TypeParts DEF TInv, ReadsSeeCompletedWrites
<1>7. StageAt(p)'
  BY <1>0, TypeParts DEF TInv, StageAt
<1>. QED  BY <1>0, <1>4, <1>6, <1>7 DEF Fresh, TableFresh, StageFresh

LEMMA ListLookupF ==
  ASSUME TInv, Fresh, NEW p \in Procs, Procs = {p}, ListLookup(p) PROVE Fresh'
<1>0. UNCHANGED <<db, nextId, lastVer, cache, now, arg, local, wrote, committed>>
  BY DEF ListLookup
<1>1. TableFresh' /\ CacheFresh'
  BY <1>0 DEF Fresh, TableFresh, CacheFresh
<1>2. CASE C!Hit(AllKey)
  <2>1. \A id \in Ids : cache[AllKey].value.rows[id].ver >= committed[id]
    BY <1>2 DEF Fresh, CacheFresh, C!Hit
  <2>2. served' = [served EXCEPT ![p] =
                 [kind |-> "all", rows |-> cache[AllKey].value.rows,
                  floor |-> committed]]
        /\ UNCHANGED <<pc, floor>>
    BY <1>2 DEF ListLookup, C!Hit
  <2>3. served \in [Procs -> Response \cup {NoResp}]
    BY TypeParts DEF TInv
  <2>4. ReadsSeeCompletedWrites'
    BY <2>1, <2>2, <2>3 DEF ReadsSeeCompletedWrites
  <2>5. StageFresh'
    BY <1>0, <2>2 DEF Fresh, StageFresh, StageAt
  <2>. QED  BY <1>1, <2>4, <2>5 DEF Fresh
<1>3. CASE ~C!Hit(AllKey)
  <2>1. /\ pc' = [pc EXCEPT ![p] = "ListDB"]
        /\ floor' = [floor EXCEPT ![p] = committed]
        /\ UNCHANGED served
    BY <1>3 DEF ListLookup
  <2>2. DOMAIN pc = Procs /\ floor \in [Procs -> [Ids -> Nat]]
    BY TypeParts DEF TInv
  <2>3. StageAt(p)'
    BY <1>0, <2>1, <2>2 DEF StageAt
  <2>. QED  BY <1>1, <2>1, <2>3, ServedKept DEF Fresh, StageFresh
<1>. QED  BY <1>2, <1>3

LEMMA ListDBF ==
  ASSUME TInv, Fresh, NEW p \in Procs, Procs = {p}, ListDB(p) PROVE Fresh'
<1>0. UNCHANGED <<db, nextId, lastVer, cache, now, arg, wrote, floor, committed, served>>
      /\ pc[p] = "ListDB"
      /\ local' = [local EXCEPT ![p] = [rows |-> db]]
      /\ pc' = [pc EXCEPT ![p] = "ListFill"]
  BY DEF ListDB
<1>1. TableFresh' /\ CacheFresh' /\ ReadsSeeCompletedWrites'
  BY <1>0 DEF Fresh, TableFresh, CacheFresh, ReadsSeeCompletedWrites
<1>2. floor[p] = committed /\ \A id \in Ids : db[id].ver >= committed[id]
  BY <1>0, Types DEF Fresh, StageFresh, StageAt, TableFresh
<1>3. DOMAIN pc = Procs /\ DOMAIN local = Procs
  BY TypeParts DEF TInv
<1>4. StageAt(p)'
  BY <1>0, <1>2, <1>3 DEF StageAt
<1>. QED  BY <1>1, <1>4 DEF Fresh, StageFresh

LEMMA ListFillF ==
  ASSUME TInv, Fresh, NEW p \in Procs, Procs = {p}, ListFill(p) PROVE Fresh'
<1>0. UNCHANGED <<db, nextId, lastVer, now, arg, local, wrote, floor, committed>>
      /\ pc[p] = "ListFill"
      /\ pc' = [pc EXCEPT ![p] = "Idle"]
  BY DEF ListFill
<1>1. local[p] \in Listing /\ floor[p] = committed
      /\ \A id \in Ids : local[p].rows[id].ver >= committed[id]
  BY <1>0 DEF TInv, StageTyped, Fresh, StageFresh, StageAt
<1>2. AllKey \in CacheKeys /\ cache \in CacheMap /\ now \in Nat
  BY KeyFacts, Types, TypeParts DEF TInv
<1>3. /\ cache'[AllKey] = [value |-> local[p], expiration |-> now + RouteTTL]
      /\ \A j \in CacheKeys \ {AllKey} : cache'[j] = cache[j] \/ cache'[j] = C!NoItem
  BY <1>1, <1>2, FillStep DEF ListFill
<1>4. CacheFresh'
  <2>1. ASSUME NEW t \in IdStrs, cache'[RouteKey(t)] # C!NoItem
        PROVE  cache'[RouteKey(t)] = cache[RouteKey(t)]
    BY <1>3, <2>1, KeyFacts
  <2>. QED  BY <1>0, <1>1, <1>3, <2>1 DEF Fresh, CacheFresh
<1>5. served' = [served EXCEPT ![p] =
           [kind |-> "all", rows |-> local[p].rows, floor |-> floor[p]]]
  BY DEF ListFill
<1>6. ReadsSeeCompletedWrites'
  BY <1>1, <1>5, TypeParts DEF TInv, ReadsSeeCompletedWrites
<1>7. StageAt(p)'
  BY <1>0, TypeParts DEF TInv, StageAt
<1>. QED  BY <1>0, <1>4, <1>6, <1>7 DEF Fresh, TableFresh, StageFresh

LEMMA CreateF ==
  ASSUME TInv, Fresh, NEW p \in Procs, Procs = {p}, Create(p) PROVE Fresh'
<1>0. /\ UNCHANGED <<cache, now, arg, local, floor, committed, served>>
      /\ nextId <= MaxRoutes
      /\ db' = [db EXCEPT ![nextId] = [ver |-> lastVer + 1, present |-> TRUE]]
      /\ lastVer' = lastVer + 1 /\ nextId' = nextId + 1
      /\ wrote' = [wrote EXCEPT ![p] = [id |-> nextId, ver |-> lastVer + 1]]
      /\ pc' = [pc EXCEPT ![p] = "CreateInv"]
  BY DEF Create
<1>1. nextId \in Ids
  BY <1>0, TypeParts, RouteAdminAssumption DEF TInv, Ids
<1>2. TableFresh'
  BY <1>0, <1>1, Types DEF Fresh, TableFresh
<1>3. CacheFresh'
  BY <1>0, Types, KeyFacts DEF Fresh, CacheFresh
<1>4. \A s \in IdStrs : IdOf[s] = nextId => cache[RouteKey(s)] = C!NoItem
  BY Types DEF Fresh, CacheFresh
<1>5. DOMAIN pc = Procs /\ DOMAIN wrote = Procs
  BY TypeParts DEF TInv
<1>6. StageAt(p)'
  BY <1>0, <1>1, <1>4, <1>5, Types DEF StageAt
<1>. QED  BY <1>0, <1>2, <1>3, <1>6, ServedKept DEF Fresh, StageFresh

(* Completing a write whose version is the row's: committed takes the      *)
(* row's version.                                                          *)
LEMMA CommitRow ==
  ASSUME TInv, TableFresh, NEW w, w.id \in Ids, w.ver = db[w.id].ver,
         committed' = [committed EXCEPT ![w.id] = Max2(@, w.ver)]
  PROVE  /\ committed' = [committed EXCEPT ![w.id] = db[w.id].ver]
         /\ \A id \in Ids : committed'[id] <= db[id].ver
<1>1. committed[w.id] <= db[w.id].ver /\ committed \in [Ids -> Nat]
      /\ db[w.id].ver \in Nat
  BY Types DEF TableFresh
<1>2. Max2(committed[w.id], w.ver) = db[w.id].ver
  BY <1>1 DEF Max2
<1>3. committed' = [committed EXCEPT ![w.id] = db[w.id].ver]
  BY <1>2
<1>4. ASSUME NEW id \in Ids PROVE committed'[id] <= db[id].ver
  <2>1. CASE id = w.id
    BY <1>1, <1>3, <2>1
  <2>2. CASE id # w.id
    BY <1>1, <1>3, <2>2 DEF TableFresh
  <2>. QED  BY <2>1, <2>2
<1>. QED  BY <1>3, <1>4

LEMMA CreateInvF ==
  ASSUME TInv, Fresh, NEW p \in Procs, Procs = {p}, CreateInv(p) PROVE Fresh'
<1>0. /\ UNCHANGED <<db, nextId, lastVer, now, arg, local, wrote, floor, served>>
      /\ pc[p] = "CreateInv"
      /\ cache' = C!Without(cache, AllKey)
      /\ committed' = [committed EXCEPT ![wrote[p].id] = Max2(@, wrote[p].ver)]
      /\ pc' = [pc EXCEPT ![p] = "Idle"]
  BY DEF CreateInv
<1>1. wrote[p].id \in Ids /\ wrote[p].ver = db[wrote[p].id].ver
      /\ \A s \in IdStrs : IdOf[s] = wrote[p].id => cache[RouteKey(s)] = C!NoItem
  BY <1>0 DEF Fresh, StageFresh, StageAt
<1>2. /\ committed' = [committed EXCEPT ![wrote[p].id] = db[wrote[p].id].ver]
      /\ \A id \in Ids : committed'[id] <= db[id].ver
  BY <1>0, <1>1, CommitRow DEF Fresh
<1>3. TableFresh'
  BY <1>0, <1>2 DEF Fresh, TableFresh
<1>4. CacheFresh'
  <2>1. cache'[AllKey] = C!NoItem
    BY <1>0, KeyFacts, Types DEF C!Without, CacheMap
  <2>2. ASSUME NEW t \in IdStrs, cache'[RouteKey(t)] # C!NoItem
        PROVE  cache'[RouteKey(t)].value.ver >= committed'[IdOf[t]] /\ IdOf[t] < nextId'
    <3>1. cache'[RouteKey(t)] = cache[RouteKey(t)]
      BY <1>0, KeyFacts, Types DEF C!Without, CacheMap
    <3>2. IdOf[t] # wrote[p].id /\ IdOf[t] \in Ids
      BY <1>1, <2>2, <3>1, Types
    <3>3. committed'[IdOf[t]] = committed[IdOf[t]]
      BY <1>2, <3>2, Types
    <3>. QED  BY <1>0, <2>2, <3>1, <3>3 DEF Fresh, CacheFresh
  <2>. QED  BY <2>1, <2>2 DEF CacheFresh
<1>5. StageAt(p)'
  BY <1>0, TypeParts DEF TInv, StageAt
<1>. QED  BY <1>0, <1>3, <1>4, <1>5, ServedKept DEF Fresh, StageFresh

LEMMA UpdateF ==
  ASSUME TInv, Fresh, NEW p \in Procs, Procs = {p}, NEW s \in IdStrs, Update(p, s)
  PROVE  Fresh'
<1>0. /\ UNCHANGED <<nextId, cache, now, local, floor, committed, served>>
      /\ db[IdOf[s]].present
      /\ db' = [db EXCEPT ![IdOf[s]] = [ver |-> lastVer + 1, present |-> TRUE]]
      /\ lastVer' = lastVer + 1
      /\ wrote' = [wrote EXCEPT ![p] = [id |-> IdOf[s], ver |-> lastVer + 1]]
      /\ arg' = [arg EXCEPT ![p] = s]
      /\ pc' = [pc EXCEPT ![p] = "UpdateInv"]
  BY DEF Update
<1>1. IdOf[s] \in Ids
  BY Types
<1>2. TableFresh'
  BY <1>0, <1>1, Types DEF Fresh, TableFresh
<1>3. CacheFresh'
  BY <1>0 DEF Fresh, CacheFresh
<1>4. DOMAIN pc = Procs /\ DOMAIN wrote = Procs /\ DOMAIN arg = Procs
  BY TypeParts DEF TInv
<1>5. StageAt(p)'
  BY <1>0, <1>1, <1>4, Types DEF StageAt
<1>. QED  BY <1>0, <1>2, <1>3, <1>5, ServedKept DEF Fresh, StageFresh

LEMMA DeleteF ==
  ASSUME TInv, Fresh, NEW p \in Procs, Procs = {p}, NEW s \in IdStrs, Delete(p, s)
  PROVE  Fresh'
<1>0. /\ UNCHANGED <<nextId, cache, now, local, floor, committed, served>>
      /\ arg' = [arg EXCEPT ![p] = s]
      /\ pc' = [pc EXCEPT ![p] = "DeleteInv"]
  BY DEF Delete
<1>1. IdOf[s] \in Ids
  BY Types
<1>2. CacheFresh'
  BY <1>0 DEF Fresh, CacheFresh
<1>3. DOMAIN pc = Procs /\ DOMAIN wrote = Procs /\ DOMAIN arg = Procs
  BY TypeParts DEF TInv
<1>4. CASE /\ db[IdOf[s]].present
           /\ db' = [db EXCEPT ![IdOf[s]] = [ver |-> lastVer + 1, present |-> FALSE]]
           /\ lastVer' = lastVer + 1
           /\ wrote' = [wrote EXCEPT ![p] = [id |-> IdOf[s], ver |-> lastVer + 1]]
  <2>1. TableFresh'
    BY <1>0, <1>1, <1>4, Types DEF Fresh, TableFresh
  <2>2. StageAt(p)'
    BY <1>0, <1>1, <1>3, <1>4, Types DEF StageAt
  <2>. QED  BY <1>0, <1>2, <2>1, <2>2, ServedKept DEF Fresh, StageFresh
<1>5. CASE /\ wrote' = [wrote EXCEPT ![p] = [id |-> IdOf[s], ver |-> db[IdOf[s]].ver]]
           /\ UNCHANGED <<db, lastVer>>
  <2>1. TableFresh'
    BY <1>0, <1>5 DEF Fresh, TableFresh
  <2>2. StageAt(p)'
    BY <1>0, <1>1, <1>3, <1>5 DEF StageAt
  <2>. QED  BY <1>0, <1>2, <2>1, <2>2, ServedKept DEF Fresh, StageFresh
<1>. QED  BY <1>4, <1>5 DEF Delete

(* The first Delete after Update and Delete empties "routes:all".         *)
LEMMA InvalidateListF ==
  ASSUME TInv, Fresh, NEW p \in Procs, Procs = {p}, InvalidateList(p) PROVE Fresh'
<1>0. /\ UNCHANGED <<db, nextId, lastVer, now, arg, local, wrote, floor,
                     committed, served>>
      /\ pc[p] \in {"UpdateInv", "DeleteInv"}
      /\ cache' = C!Without(cache, AllKey)
      /\ pc' = [pc EXCEPT ![p] = "RouteInv"]
  BY DEF InvalidateList
<1>1. Shrunk(cache') /\ cache'[AllKey] = C!NoItem
  BY <1>0, Types, WithoutStep, KeyFacts DEF C!Without, CacheMap
<1>2. CacheFresh'
  BY <1>0, <1>1, CacheFreshShrink DEF Fresh
<1>3. DOMAIN pc = Procs
  BY TypeParts DEF TInv
<1>4. StageAt(p)'
  BY <1>0, <1>1, <1>3 DEF Fresh, StageFresh, StageAt
<1>. QED  BY <1>0, <1>2, <1>4, ServedKept DEF Fresh, TableFresh, StageFresh

(* The second Delete drops the only per-route key of the route written:    *)
(* with canonical ids no other key maps to it.                             *)
LEMMA InvalidateRouteF ==
  ASSUME TInv, Fresh, Canonical, NEW p \in Procs, Procs = {p}, InvalidateRoute(p)
  PROVE  Fresh'
<1>0. /\ UNCHANGED <<db, nextId, lastVer, now, arg, local, wrote, floor, served>>
      /\ pc[p] = "RouteInv"
      /\ cache' = C!Without(cache, RouteKey(arg[p]))
      /\ committed' = [committed EXCEPT ![wrote[p].id] = Max2(@, wrote[p].ver)]
      /\ pc' = [pc EXCEPT ![p] = "Idle"]
  BY DEF InvalidateRoute
<1>1. /\ arg[p] \in IdStrs
      /\ wrote[p].id = IdOf[arg[p]] /\ wrote[p].id \in Ids
      /\ wrote[p].ver = db[wrote[p].id].ver
      /\ cache[AllKey] = C!NoItem
  BY <1>0 DEF TInv, StageTyped, Fresh, StageFresh, StageAt
<1>2. /\ committed' = [committed EXCEPT ![wrote[p].id] = db[wrote[p].id].ver]
      /\ \A id \in Ids : committed'[id] <= db[id].ver
  BY <1>0, <1>1, CommitRow DEF Fresh
<1>3. TableFresh'
  BY <1>0, <1>2 DEF Fresh, TableFresh
<1>4. CacheFresh'
  <2>1. cache'[AllKey] = C!NoItem
    BY <1>0, <1>1, KeyFacts, Types DEF C!Without, CacheMap
  <2>2. ASSUME NEW t \in IdStrs, cache'[RouteKey(t)] # C!NoItem
        PROVE  cache'[RouteKey(t)].value.ver >= committed'[IdOf[t]] /\ IdOf[t] < nextId'
    <3>1. t # arg[p] /\ cache'[RouteKey(t)] = cache[RouteKey(t)]
      BY <1>0, <1>1, <2>2, KeyFacts, Types DEF C!Without, CacheMap
    <3>2. IdOf[t] # wrote[p].id /\ IdOf[t] \in Ids
      BY <1>1, <3>1, Types DEF Canonical
    <3>3. committed'[IdOf[t]] = committed[IdOf[t]]
      BY <1>2, <3>2, Types
    <3>. QED  BY <1>0, <2>2, <3>1, <3>3 DEF Fresh, CacheFresh
  <2>. QED  BY <2>1, <2>2 DEF CacheFresh
<1>5. StageAt(p)'
  BY <1>0, TypeParts DEF TInv, StageAt
<1>. QED  BY <1>0, <1>3, <1>4, <1>5, ServedKept DEF Fresh, StageFresh

LEMMA SweepF ==
  ASSUME TInv, Fresh, Sweep PROVE Fresh'
<1>0. UNCHANGED <<now, db, nextId, lastVer, pc, arg, local, wrote, floor,
                  committed, served>>
      /\ cache' = C!Expired(cache)
  BY DEF Sweep, C!DeleteExpired
<1>1. Shrunk(cache')
  BY <1>0, Types, SweepStep
<1>2. CacheFresh'
  BY <1>0, <1>1, CacheFreshShrink DEF Fresh
<1>3. StageFresh'
  <2>1. \A s \in IdStrs : cache'[RouteKey(s)] = C!NoItem \/ cache'[RouteKey(s)] = cache[RouteKey(s)]
    BY <1>1, KeyFacts DEF Shrunk
  <2>2. cache[AllKey] = C!NoItem => cache'[AllKey] = C!NoItem
    BY <1>1, KeyFacts DEF Shrunk
  <2>. QED  BY <1>0, <2>1, <2>2 DEF Fresh, StageFresh, StageAt
<1>. QED  BY <1>0, <1>2, <1>3, ServedKept DEF Fresh, TableFresh

LEMMA TickF ==
  ASSUME Fresh, Tick PROVE Fresh'
<1>0. UNCHANGED <<cache, db, nextId, lastVer, pc, arg, local, wrote, floor,
                  committed, served>>
  BY DEF Tick
<1>. QED  BY <1>0 DEF Fresh, TableFresh, CacheFresh, StageFresh, StageAt,
                     ReadsSeeCompletedWrites

LEMMA FInit == Init => FInv
<1> SUFFICES ASSUME Init PROVE FInv
  OBVIOUS
<1>1. TInv
  BY TInit
<1>2. TableFresh
  BY RouteAdminAssumption DEF Init, TableFresh, Absent, Ids
<1>3. CacheFresh
  BY KeyFacts DEF Init, CacheFresh
<1>4. StageFresh /\ ReadsSeeCompletedWrites
  BY DEF Init, StageFresh, StageAt, ReadsSeeCompletedWrites
<1>. QED  BY <1>1, <1>2, <1>3, <1>4 DEF FInv, Fresh

LEMMA FStep ==
  ASSUME Sequential, Canonical PROVE FInv /\ [Next]_vars => FInv'
<1> SUFFICES ASSUME FInv, [Next]_vars PROVE FInv'
  OBVIOUS
<1>0. TInv /\ Fresh /\ TInv'
  BY TStep DEF FInv
<1>1. ASSUME NEW p \in Procs, NEW s \in IdStrs,
             GetLookup(p, s) \/ Update(p, s) \/ Delete(p, s)
      PROVE  Fresh'
  BY <1>0, <1>1, OnlyOne, GetLookupF, UpdateF, DeleteF
<1>2. ASSUME NEW p \in Procs,
             \/ GetDB(p) \/ GetFill(p) \/ ListLookup(p) \/ ListDB(p) \/ ListFill(p)
             \/ Create(p) \/ CreateInv(p) \/ InvalidateList(p) \/ InvalidateRoute(p)
      PROVE  Fresh'
  BY <1>0, <1>2, OnlyOne, GetDBF, GetFillF, ListLookupF, ListDBF, ListFillF,
     CreateF, CreateInvF, InvalidateListF, InvalidateRouteF
<1>3. ASSUME Sweep PROVE Fresh'
  BY <1>0, <1>3, SweepF
<1>4. ASSUME Tick PROVE Fresh'
  BY <1>0, <1>4, TickF
<1>5. ASSUME UNCHANGED vars PROVE Fresh'
  BY <1>0, <1>5 DEF vars, Fresh, TableFresh, CacheFresh, StageFresh, StageAt,
                   ReadsSeeCompletedWrites
<1>6. Fresh'
  BY <1>1, <1>2, <1>3, <1>4, <1>5 DEF Next
<1>. QED  BY <1>0, <1>6 DEF FInv

(* Read-after-write through the route cache, for one client issuing its    *)
(* requests one after another and ids that strconv.Atoi parses one-to-one: *)
(* whatever the number of routes, writes, the TTL and CACHE_MAX_SIZE, a    *)
(* List or Get response never shows a route older than a Create, Update or *)
(* Delete that returned before the request started.  Runs route_race and   *)
(* route_alias show each hypothesis is needed.                             *)
THEOREM SequentialReadsSeeCompletedWrites ==
  ASSUME Sequential, Canonical PROVE Spec => []ReadsSeeCompletedWrites
<1>1. FInv /\ [Next]_vars => FInv'
  BY FStep
<1>2. FInv => ReadsSeeCompletedWrites
  BY DEF FInv, Fresh
<1>. QED  BY <1>1, <1>2, FInit, PTL DEF Spec

-----------------------------------------------------------------------------
(* The handlers use the cache only through its methods: every step of the  *)
(* route handlers, the sweeper and the clock is a step of module Cache     *)
(* (SetWithTTL with the 2*time.Minute TTL, Delete, deleteExpired, a tick)  *)
(* or leaves the cache and the clock alone. The cleanup goroutine is never *)
(* stopped while the handlers run, so stopped is the constant FALSE.       *)

(* Steps that leave the cache and the clock alone.                         *)
LEMMA CacheStutter ==
  ASSUME NEW p \in Procs, NEW s \in IdStrs,
         \/ GetLookup(p, s) \/ Update(p, s) \/ Delete(p, s) \/ GetDB(p)
         \/ ListLookup(p) \/ ListDB(p) \/ Create(p)
  PROVE  UNCHANGED C!cacheVars
BY DEF GetLookup, Update, Delete, GetDB, ListLookup, ListDB, Create, C!cacheVars

(* The fills are SetWithTTL on a key the handlers build, with a value of   *)
(* the cache's value set and the handlers' TTL.                            *)
LEMMA CacheFill ==
  ASSUME TInv, NEW p \in Procs, GetFill(p) \/ ListFill(p)
  PROVE  C!Next
<1>1. CASE GetFill(p)
  <2>1. RouteKey(arg[p]) \in CacheKeys /\ local[p] \in Row \cup Listing
    BY <1>1, KeyFacts DEF TInv, StageTyped, GetFill
  <2>2. C!SetWithTTL(RouteKey(arg[p]), local[p], RouteTTL) /\ UNCHANGED now
    BY <1>1 DEF GetFill
  <2>. QED  BY <2>1, <2>2 DEF C!Next
<1>2. CASE ListFill(p)
  <2>1. local[p] \in Row \cup Listing
    BY <1>2 DEF TInv, StageTyped, ListFill
  <2>2. C!SetWithTTL(AllKey, local[p], RouteTTL) /\ UNCHANGED now
    BY <1>2 DEF ListFill
  <2>. QED  BY <2>1, <2>2, KeyFacts DEF C!Next
<1>. QED  BY <1>1, <1>2

(* The invalidations are Delete on a key the handlers build.               *)
LEMMA CacheInvalidate ==
  ASSUME TInv, NEW p \in Procs,
         CreateInv(p) \/ InvalidateList(p) \/ InvalidateRoute(p)
  PROVE  C!Next
<1>1. CASE CreateInv(p) \/ InvalidateList(p)
  <2>1. C!Delete(AllKey) /\ UNCHANGED now
    BY <1>1 DEF CreateInv, InvalidateList, C!Delete
  <2>. QED  BY <2>1, KeyFacts DEF C!Next
<1>2. CASE InvalidateRoute(p)
  <2>1. RouteKey(arg[p]) \in CacheKeys
    BY <1>2, KeyFacts DEF TInv, StageTyped, InvalidateRoute
  <2>2. C!Delete(RouteKey(arg[p])) /\ UNCHANGED now
    BY <1>2 DEF InvalidateRoute, C!Delete
  <2>. QED  BY <2>1, <2>2 DEF C!Next
<1>. QED  BY <1>1, <1>2

(* Every step of the handlers, the sweeper and the clock is a step of the  *)
(* cache or leaves it alone.                                               *)
LEMMA CacheStep == TInv /\ [Next]_vars => [C!Next]_C!cacheVars
<1> SUFFICES ASSUME TInv, [Next]_vars PROVE [C!Next]_C!cacheVars
  OBVIOUS
<1>1. ASSUME NEW p \in Procs, NEW s \in IdStrs,
             GetLookup(p, s) \/ Update(p, s) \/ Delete(p, s)
      PROVE  [C!Next]_C!cacheVars
  BY <1>1, CacheStutter
<1>7. ASSUME NEW p \in Procs, GetDB(p) \/ ListLookup(p) \/ ListDB(p) \/ Create(p)
      PROVE  UNCHANGED C!cacheVars
  BY <1>7 DEF GetDB, ListLookup, ListDB, Create, C!cacheVars
<1>2. ASSUME NEW p \in Procs, GetFill(p) \/ ListFill(p) PROVE [C!Next]_C!cacheVars
  BY <1>2, CacheFill
<1>3. ASSUME NEW p \in Procs, CreateInv(p) \/ InvalidateList(p) \/ InvalidateRoute(p)
      PROVE  [C!Next]_C!cacheVars
  BY <1>3, CacheInvalidate
<1>4. CASE Sweep
  BY <1>4 DEF Sweep, C!Next, C!DeleteExpired
<1>5. CASE Tick
  BY <1>5 DEF Tick, C!Next, C!Tick
<1>6. CASE UNCHANGED vars
  BY <1>6 DEF vars, C!cacheVars
<1>. QED  BY <1>1, <1>2, <1>3, <1>4, <1>5, <1>6, <1>7 DEF Next

(* The route handlers refine the cache's specification: their runs, seen   *)
(* through the cache's map and clock, are runs of internal/cache/cache.go  *)
(* under any scheduling of the handlers, the sweeper and the clock.        *)
THEOREM HandlersRefineCache == Spec => C!Spec
<1>1. Init => C!Init
  BY DEF Init, C!Init
<1>2. TInv /\ [Next]_vars => [C!Next]_C!cacheVars
  BY CacheStep
<1>. QED  BY <1>1, <1>2, TInit, TStep, PTL DEF Spec, C!Spec

(* The cache's proofs, for the handlers' keys, values and TTL.             *)
CP == INSTANCE CacheProofs WITH Keys <- CacheKeys, Values <- Row \cup Listing,
          TTLs <- {RouteTTL}, items <- cache, stopped <- FALSE

(* The instance's finite-set operators are the standard ones.             *)
LEMMA InstanceSets ==
  ASSUME NEW S
  PROVE  /\ CP!IsFiniteSet(S) <=> IsFiniteSet(S)
         /\ CP!Cardinality(S) = Cardinality(S)
         /\ C!Cardinality(S) = Cardinality(S)
BY DEF CP!IsFiniteSet, IsFiniteSet, CP!Cardinality, C!Cardinality, Cardinality

(* The handlers' cache keys are finitely many: "routes:all" and one        *)
(* "route:" key per id string.                                             *)
LEMMA CacheKeysFinite == IsFiniteSet(CacheKeys)
<1>1. IsFiniteSet({RouteKey(s) : s \in IdStrs})
  <2>1. [s \in IdStrs |-> RouteKey(s)] \in Surjection(IdStrs, {RouteKey(s) : s \in IdStrs})
    BY DEF Surjection
  <2>. QED  BY <2>1, RouteAdminAssumption, FS_Surjection
<1>. QED  BY <1>1, FS_AddElement DEF CacheKeys

(* The gateway's metadata cache never holds more than CACHE_MAX_SIZE       *)
(* entries while the route handlers fill and invalidate it, for every      *)
(* CACHE_MAX_SIZE >= 1: the handlers refine module Cache, whose size bound *)
(* is proved in CacheProofs for every key set.                             *)
THEOREM RoutesCacheBounded == Spec => []CacheSizeBound
<1>1. /\ IsFiniteSet(CacheKeys)
      /\ MaxSize \in Nat \ {0}
      /\ {RouteTTL} \subseteq Nat
      /\ MaxTime \in Nat
      /\ NoValue \notin Row \cup Listing
      /\ EmptyKey \notin CacheKeys
  BY CacheKeysFinite, RouteAdminAssumption, RouteCacheAssumption
<1>2. CP!IsFiniteSet(CacheKeys)
  BY <1>1, InstanceSets
<1>3. CP!Spec => []CP!SizeBound
  BY <1>1, <1>2, CP!SizeBounded
<1>4. CP!SizeBound <=> C!SizeBound
  BY InstanceSets DEF CP!SizeBound, C!SizeBound, CP!Cached, C!Cached, CP!NoItem, C!NoItem
<1>5. CP!Spec <=> C!Spec
  <2>1. CP!Init <=> C!Init
    BY DEF CP!Init, C!Init, CP!NoItem, C!NoItem
  <2>2. CP!Next <=> C!Next
    <3>1. CP!MustEvict <=> C!MustEvict
      BY InstanceSets DEF CP!MustEvict, C!MustEvict, CP!Cached, C!Cached, CP!NoItem, C!NoItem
    <3>. QED
      BY <3>1 DEF CP!Next, C!Next, CP!SetWithTTL, C!SetWithTTL, CP!EvictOldest, C!EvictOldest,
              CP!Oldest, C!Oldest, CP!Cached, C!Cached, CP!Without, C!Without, CP!NoItem, C!NoItem,
              CP!Delete, C!Delete, CP!Clear, C!Clear, CP!DeleteExpired, C!DeleteExpired,
              CP!Expired, C!Expired, CP!Stop, C!Stop, CP!Tick, C!Tick
  <2>3. [CP!Next]_CP!cacheVars <=> [C!Next]_C!cacheVars
    BY <2>2 DEF CP!cacheVars, C!cacheVars
  <2>. QED  BY <2>1, <2>3, PTL DEF CP!Spec, C!Spec
<1>6. C!Spec => []C!SizeBound
  BY <1>3, <1>4, <1>5, PTL
<1>. QED  BY <1>6, HandlersRefineCache DEF CacheSizeBound

=============================================================================

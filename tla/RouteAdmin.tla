----------------------------- MODULE RouteAdmin -----------------------------
(***************************************************************************)
(* The route administration path: the RouteHandler methods List, Get,      *)
(* Create, Update and Delete (internal/handlers/handlers.go), the route    *)
(* table behind RouteRepository (unnamed/part_004) and the metadata cache  *)
(* they share (module Cache).                                              *)
(*                                                                         *)
(* Every HTTP request runs in a goroutine of its own; a process of Procs   *)
(* is one such goroutine, and it serves one request after another.  A      *)
(* handler is split where it suspends: each cache call (one RWMutex        *)
(* critical section) and each SQL statement is one atomic step, and other  *)
(* handlers may run between them.                                          *)
(*                                                                         *)
(* A route row is abstracted to the version of the write that produced it  *)
(* and whether it is present: every INSERT, UPDATE or effective DELETE     *)
(* stamps the row with a fresh version, so a reader that sees a smaller    *)
(* version than another write has seen an older route.                     *)
(***************************************************************************)
EXTENDS Naturals, FiniteSets, Sequences

CONSTANTS
    Procs,      \* the request goroutines
    IdStrs,     \* the {id} path parameters the requests carry
    IdOf,       \* strconv.Atoi on them: IdStrs -> Ids
    MaxRoutes,  \* bound on the SERIAL ids handed out
    MaxWrites,  \* bound on the writes, for model checking
    RouteTTL,   \* the 2*time.Minute the handlers cache with
    MaxSize, MaxTime, NoValue, EmptyKey   \* as in module Cache

Ids == 1..MaxRoutes

ASSUME RouteAdminAssumption ==
    /\ IsFiniteSet(Procs) /\ IsFiniteSet(IdStrs)
    /\ MaxRoutes \in Nat /\ MaxWrites \in Nat /\ RouteTTL \in Nat
    /\ IdOf \in [IdStrs -> Ids]

VARIABLES
    db,         \* the routes table: id -> row
    nextId,     \* the next value of the id SERIAL
    lastVer,    \* the version of the latest write to the table
    cache, now, \* the cache's map and the clock
    pc,         \* pc[p]: where goroutine p is in its handler
    arg,        \* arg[p]: the {id} string of p's request
    local,      \* local[p]: the route, or the list, p read from the table
    wrote,      \* wrote[p]: [id, ver] of the row p's write produced
    floor,      \* ghost: committed as it was when p's request started
    committed,  \* ghost: per id, the version of the latest write whose
                \*        handler has returned success
    served      \* ghost: the last response p sent with route data

vars == <<db, nextId, lastVer, cache, now, pc, arg, local, wrote, floor,
          committed, served>>

Row == [ver : Nat, present : BOOLEAN]

(* What FindAll returns: every row of the table.                          *)
Listing == [rows : [Ids -> Row]]

AllKey == "routes:all"
RouteKey(s) == "route:" \o s

CacheKeys == {AllKey} \cup {RouteKey(s) : s \in IdStrs}

(* The keys the handlers build are distinct: "route:" + idStr never equals *)
(* "routes:all" (they differ at the sixth character), and two different    *)
(* id strings give two different keys.                                     *)
ASSUME RouteKeysAssumption ==
    /\ \A s \in IdStrs : RouteKey(s) # AllKey
    /\ \A s, t \in IdStrs : RouteKey(s) = RouteKey(t) => s = t

(* The cache's constants as module Cache assumes them: CACHE_MAX_SIZE is   *)
(* at least 1, NoValue is no route and no listing, and no key is "".       *)
ASSUME RouteCacheAssumption ==
    /\ MaxSize \in Nat \ {0}
    /\ MaxTime \in Nat
    /\ NoValue \notin Row \cup Listing
    /\ EmptyKey \notin CacheKeys

C == INSTANCE Cache WITH Keys <- CacheKeys, Values <- Row \cup Listing,
                         TTLs <- {RouteTTL}, items <- cache, stopped <- FALSE

NoStr == "none"
NoResp == [kind |-> "none"]

Response ==
    [kind : {"one"}, id : Ids, row : Row, floor : [Ids -> Nat]]
    \cup [kind : {"all"}, rows : [Ids -> Row], floor : [Ids -> Nat]]

TypeOK ==
    /\ db \in [Ids -> Row]
    /\ nextId \in 1..(MaxRoutes + 1)
    /\ lastVer \in Nat
    /\ C!TypeOK
    /\ pc \in [Procs -> {"Idle", "GetDB", "GetFill", "ListDB", "ListFill",
                         "CreateInv", "UpdateInv", "DeleteInv", "RouteInv"}]
    /\ arg \in [Procs -> IdStrs \cup {NoStr}]
    /\ local \in [Procs -> Row \cup Listing]
    /\ wrote \in [Procs -> [id : Ids \cup {0}, ver : Nat]]
    /\ floor \in [Procs -> [Ids -> Nat]]
    /\ committed \in [Ids -> Nat]
    /\ served \in [Procs -> Response \cup {NoResp}]

Absent == [ver |-> 0, present |-> FALSE]

Init ==
    /\ db = [id \in Ids |-> Absent]
    /\ nextId = 1
    /\ lastVer = 0
    /\ cache = [k \in CacheKeys |-> C!NoItem]
    /\ now = 0
    /\ pc = [p \in Procs |-> "Idle"]
    /\ arg = [p \in Procs |-> NoStr]
    /\ local = [p \in Procs |-> Absent]
    /\ wrote = [p \in Procs |-> [id |-> 0, ver |-> 0]]
    /\ floor = [p \in Procs |-> [id \in Ids |-> 0]]
    /\ committed = [id \in Ids |-> 0]
    /\ served = [p \in Procs |-> NoResp]

Max2(a, b) == IF a >= b THEN a ELSE b

-----------------------------------------------------------------------------
(* Get: cache.Get("route:" + idStr); on a hit the cached route is the      *)
(* response, on a miss the handler goes on to FindByID.                    *)
GetLookup(p, s) ==
    /\ pc[p] = "Idle"
    /\ \/ /\ C!Hit(RouteKey(s))
          /\ served' = [served EXCEPT ![p] =
                 [kind |-> "one", id |-> IdOf[s],
                  row |-> cache[RouteKey(s)].value, floor |-> committed]]
          /\ UNCHANGED <<pc, arg, floor>>
       \/ /\ ~C!Hit(RouteKey(s))
          /\ pc' = [pc EXCEPT ![p] = "GetDB"]
          /\ arg' = [arg EXCEPT ![p] = s]
          /\ floor' = [floor EXCEPT ![p] = committed]
          /\ UNCHANGED served
    /\ UNCHANGED <<db, nextId, lastVer, cache, now, local, wrote, committed>>

(* FindByID: SELECT ... WHERE id = $1; no row is a 404.                    *)
GetDB(p) ==
    /\ pc[p] = "GetDB"
    /\ LET row == db[IdOf[arg[p]]] IN
         \/ /\ row.present
            /\ local' = [local EXCEPT ![p] = row]
            /\ pc' = [pc EXCEPT ![p] = "GetFill"]
         \/ /\ ~row.present
            /\ pc' = [pc EXCEPT ![p] = "Idle"]
            /\ UNCHANGED local
    /\ UNCHANGED <<db, nextId, lastVer, cache, now, arg, wrote, floor,
                   committed, served>>

(* cache.SetWithTTL("route:" + idStr, route, 2*time.Minute), then the      *)
(* response.                                                               *)
GetFill(p) ==
    /\ pc[p] = "GetFill"
    /\ C!SetWithTTL(RouteKey(arg[p]), local[p], RouteTTL)
    /\ served' = [served EXCEPT ![p] =
           [kind |-> "one", id |-> IdOf[arg[p]], row |-> local[p],
            floor |-> floor[p]]]
    /\ pc' = [pc EXCEPT ![p] = "Idle"]
    /\ UNCHANGED <<db, nextId, lastVer, now, arg, local, wrote, floor, committed>>

(* List: cache.Get("routes:all"), FindAll on a miss, then                  *)
(* SetWithTTL("routes:all", routes, 2*time.Minute).                        *)
ListLookup(p) ==
    /\ pc[p] = "Idle"
    /\ \/ /\ C!Hit(AllKey)
          /\ served' = [served EXCEPT ![p] =
                 [kind |-> "all", rows |-> cache[AllKey].value.rows,
                  floor |-> committed]]
          /\ UNCHANGED <<pc, floor>>
       \/ /\ ~C!Hit(AllKey)
          /\ pc' = [pc EXCEPT ![p] = "ListDB"]
          /\ floor' = [floor EXCEPT ![p] = committed]
          /\ UNCHANGED served
    /\ UNCHANGED <<db, nextId, lastVer, cache, now, arg, local, wrote,
                   committed>>

ListDB(p) ==
    /\ pc[p] = "ListDB"
    /\ local' = [local EXCEPT ![p] = [rows |-> db]]
    /\ pc' = [pc EXCEPT ![p] = "ListFill"]
    /\ UNCHANGED <<db, nextId, lastVer, cache, now, arg, wrote, floor,
                   committed, served>>

ListFill(p) ==
    /\ pc[p] = "ListFill"
    /\ C!SetWithTTL(AllKey, local[p], RouteTTL)
    /\ served' = [served EXCEPT ![p] =
           [kind |-> "all", rows |-> local[p].rows, floor |-> floor[p]]]
    /\ pc' = [pc EXCEPT ![p] = "Idle"]
    /\ UNCHANGED <<db, nextId, lastVer, now, arg, local, wrote, floor, committed>>

-----------------------------------------------------------------------------
(* Create: INSERT ... RETURNING id; the SERIAL hands out the next id.      *)
Create(p) ==
    /\ pc[p] = "Idle"
    /\ nextId <= MaxRoutes
    /\ lastVer < MaxWrites
    /\ db' = [db EXCEPT ![nextId] = [ver |-> lastVer + 1, present |-> TRUE]]
    /\ lastVer' = lastVer + 1
    /\ nextId' = nextId + 1
    /\ wrote' = [wrote EXCEPT ![p] = [id |-> nextId, ver |-> lastVer + 1]]
    /\ pc' = [pc EXCEPT ![p] = "CreateInv"]
    /\ UNCHANGED <<cache, now, arg, local, floor, committed, served>>

(* After the INSERT: h.cache.Delete("routes:all") and the 201.             *)
CreateInv(p) ==
    /\ pc[p] = "CreateInv"
    /\ cache' = C!Without(cache, AllKey)
    /\ committed' = [committed EXCEPT ![wrote[p].id] = Max2(@, wrote[p].ver)]
    /\ pc' = [pc EXCEPT ![p] = "Idle"]
    /\ UNCHANGED <<db, nextId, lastVer, now, arg, local, wrote, floor, served>>

(* Update: UPDATE ... WHERE id = $7 RETURNING updated_at; no row is an     *)
(* error (500) and the handler returns without touching the cache.         *)
Update(p, s) ==
    /\ pc[p] = "Idle"
    /\ lastVer < MaxWrites
    /\ db[IdOf[s]].present
    /\ db' = [db EXCEPT ![IdOf[s]] = [ver |-> lastVer + 1, present |-> TRUE]]
    /\ lastVer' = lastVer + 1
    /\ wrote' = [wrote EXCEPT ![p] = [id |-> IdOf[s], ver |-> lastVer + 1]]
    /\ arg' = [arg EXCEPT ![p] = s]
    /\ pc' = [pc EXCEPT ![p] = "UpdateInv"]
    /\ UNCHANGED <<nextId, cache, now, local, floor, committed, served>>

(* Delete: DELETE FROM routes WHERE id = $1; deleting no row is no error.  *)
Delete(p, s) ==
    /\ pc[p] = "Idle"
    /\ lastVer < MaxWrites
    /\ \/ /\ db[IdOf[s]].present
          /\ db' = [db EXCEPT ![IdOf[s]] = [ver |-> lastVer + 1, present |-> FALSE]]
          /\ lastVer' = lastVer + 1
          /\ wrote' = [wrote EXCEPT ![p] = [id |-> IdOf[s], ver |-> lastVer + 1]]
       \/ /\ ~db[IdOf[s]].present
          /\ wrote' = [wrote EXCEPT ![p] = [id |-> IdOf[s], ver |-> db[IdOf[s]].ver]]
          /\ UNCHANGED <<db, lastVer>>
    /\ arg' = [arg EXCEPT ![p] = s]
    /\ pc' = [pc EXCEPT ![p] = "DeleteInv"]
    /\ UNCHANGED <<nextId, cache, now, local, floor, committed, served>>

(* After a successful UPDATE or DELETE: h.cache.Delete("routes:all"),      *)
(* then h.cache.Delete("route:" + idStr), each under the cache's lock.     *)
InvalidateList(p) ==
    /\ pc[p] \in {"UpdateInv", "DeleteInv"}
    /\ cache' = C!Without(cache, AllKey)
    /\ pc' = [pc EXCEPT ![p] = "RouteInv"]
    /\ UNCHANGED <<db, nextId, lastVer, now, arg, local, wrote, floor,
                   committed, served>>

(* Mutant: the second Delete is left out.                                  *)
InvalidateRouteSkip(p) ==
    /\ pc[p] = "RouteInv"
    /\ committed' = [committed EXCEPT ![wrote[p].id] = Max2(@, wrote[p].ver)]
    /\ pc' = [pc EXCEPT ![p] = "Idle"]
    /\ UNCHANGED <<db, nextId, lastVer, cache, now, arg, local, wrote, floor, served>>

(* h.cache.Delete("route:" + idStr), then the response.                    *)
InvalidateRoute(p) ==
    /\ pc[p] = "RouteInv"
    /\ cache' = C!Without(cache, RouteKey(arg[p]))
    /\ committed' = [committed EXCEPT ![wrote[p].id] = Max2(@, wrote[p].ver)]
    /\ pc' = [pc EXCEPT ![p] = "Idle"]
    /\ UNCHANGED <<db, nextId, lastVer, now, arg, local, wrote, floor, served>>

-----------------------------------------------------------------------------
(* The cache's sweeper goroutine and the passage of time.                  *)
Sweep ==
    /\ C!DeleteExpired
    /\ UNCHANGED <<now, db, nextId, lastVer, pc, arg, local, wrote, floor,
                   committed, served>>

Tick ==
    /\ C!Tick
    /\ UNCHANGED <<cache, db, nextId, lastVer, pc, arg, local, wrote, floor,
                   committed, served>>

Next ==
    \/ \E p \in Procs :
          \/ \E s \in IdStrs : GetLookup(p, s) \/ Update(p, s) \/ Delete(p, s)
          \/ GetDB(p) \/ GetFill(p)
          \/ ListLookup(p) \/ ListDB(p) \/ ListFill(p)
          \/ Create(p) \/ CreateInv(p) \/ InvalidateList(p) \/ InvalidateRoute(p)
    \/ Sweep
    \/ Tick

Spec == Init /\ [][Next]_vars

-----------------------------------------------------------------------------
(* Read-after-write through the cache (spec §5): a List or Get response    *)
(* never carries a route older than the latest write to it whose Create,   *)
(* Update or Delete handler had returned success before the reading        *)
(* request started.  It fails if an invalidation misses a key the reader   *)
(* uses, or if a fill that read the table before a write lands in the      *)
(* cache after the write's invalidation.                                   *)
ReadsSeeCompletedWrites ==
    \A p \in Procs : served[p] # NoResp =>
        IF served[p].kind = "one"
        THEN served[p].row.ver >= served[p].floor[served[p].id]
        ELSE \A id \in Ids : served[p].rows[id].ver >= served[p].floor[id]

(* The cache bound holds with the handlers' fills (module Cache).          *)
CacheSizeBound == C!SizeBound

=============================================================================

-------------------------- MODULE RateLimiterProofs --------------------------
(***************************************************************************)
(* Proofs about the sliding-window rate limiter (module RateLimiter,       *)
(* Allow, cleanup and RateLimit in unnamed/part_005), for every limit,     *)
(* window and clock bound.                                                 *)
(*                                                                         *)
(* The first part proves what the pruning loop of Allow and cleanup        *)
(* computes (Filter): its length is the number of timestamps after the     *)
(* cutoff, and it keeps exactly the timestamps after any later cutoff.     *)
(* Both rest on Rank being a bijection from the kept positions onto        *)
(* 1..n, proved from the finite-set theorems.                              *)
(***************************************************************************)
EXTENDS RateLimiter, FiniteSetTheorems, TLAPS

(* The position the r-th element of Filter is taken from.                  *)
Pick(I, r) == CHOOSE i \in I : Rank(I, i) = r

(* The positions of the timestamps t of s with lo < t <= hi.               *)
Between(s, lo, hi) == {i \in 1..Len(s) : lo < s[i] /\ s[i] <= hi}

-----------------------------------------------------------------------------
(* The positions after a cutoff are a finite part of 1..Len(s).            *)
LEMMA AfterFacts ==
  ASSUME NEW s \in Seq(Int), NEW c \in Int
  PROVE  /\ After(s, c) \subseteq 1..Len(s)
         /\ IsFiniteSet(After(s, c))
         /\ Cardinality(After(s, c)) \in 0..Len(s)
<1>1. After(s, c) \subseteq 1..Len(s)
  BY DEF After
<1>0. Len(s) \in Nat
  OBVIOUS
<1>2. IsFiniteSet(1..Len(s)) /\ Cardinality(1..Len(s)) = Len(s)
  <2>1. IsFiniteSet(1..Len(s)) /\ Cardinality(1..Len(s)) = IF 1 > Len(s) THEN 0 ELSE Len(s) - 1 + 1
    BY <1>0, FS_Interval
  <2>. QED  BY <1>0, <2>1
<1>3. IsFiniteSet(After(s, c)) /\ Cardinality(After(s, c)) <= Len(s)
  BY <1>1, <1>2, FS_Subset
<1>4. Cardinality(After(s, c)) \in Nat
  BY <1>3, FS_CardinalityType
<1>. QED  BY <1>1, <1>3, <1>4

(* A kept position has a rank in 1..n.                                     *)
LEMMA RankRange ==
  ASSUME NEW I \in SUBSET Int, IsFiniteSet(I), NEW i \in I
  PROVE  Rank(I, i) \in 1..Cardinality(I)
<1> DEFINE Sub == {j \in I : j <= i}
<1>1. IsFiniteSet(Sub) /\ Cardinality(Sub) <= Cardinality(I)
  BY FS_Subset DEF Sub
<1>2. Sub # {} /\ Cardinality(Sub) \in Nat
  BY <1>1, FS_CardinalityType DEF Sub
<1>3. Cardinality(Sub) # 0
  BY <1>1, <1>2, FS_EmptySet
<1>. QED  BY <1>1, <1>2, <1>3 DEF Rank, Sub

(* Rank is strictly increasing in the position.                            *)
LEMMA RankMono ==
  ASSUME NEW I \in SUBSET Int, IsFiniteSet(I), NEW i \in I, NEW j \in I, i < j
  PROVE  Rank(I, i) < Rank(I, j)
<1> DEFINE Si == {k \in I : k <= i}
           Sj == {k \in I : k <= j}
<1>0. i \in Int /\ j \in Int
  OBVIOUS
<1>1. Si \subseteq Sj /\ j \in Sj /\ j \notin Si
  <2>1. ASSUME NEW k \in Si PROVE k \in Sj
    <3>1. k \in I /\ k \in Int /\ k <= i
      BY DEF Si
    <3>. QED  BY <1>0, <3>1 DEF Sj
  <2>2. j \in Sj
    BY <1>0 DEF Sj
  <2>3. j \notin Si
    BY <1>0 DEF Si
  <2>. QED  BY <2>1, <2>2, <2>3
<1>2. IsFiniteSet(Sj)
  BY FS_Subset DEF Sj
<1>3. Cardinality(Si) <= Cardinality(Sj) /\ (Cardinality(Sj) = Cardinality(Si) => Sj = Si)
  BY <1>1, <1>2, FS_Subset
<1>4. Cardinality(Si) \in Nat /\ Cardinality(Sj) \in Nat
  BY <1>1, <1>2, FS_Subset, FS_CardinalityType
<1>. QED  BY <1>1, <1>3, <1>4 DEF Rank, Si, Sj

(* Distinct positions have distinct ranks.                                 *)
LEMMA RankInj ==
  ASSUME NEW I \in SUBSET Int, IsFiniteSet(I)
  PROVE  \A i, j \in I : Rank(I, i) = Rank(I, j) => i = j
<1> SUFFICES ASSUME NEW i \in I, NEW j \in I, Rank(I, i) = Rank(I, j) PROVE i = j
  OBVIOUS
<1>0. i \in Int /\ j \in Int /\ Rank(I, i) \in Int
  BY RankRange, FS_CardinalityType
<1>1. i < j => Rank(I, i) < Rank(I, j)
  BY RankMono
<1>2. j < i => Rank(I, j) < Rank(I, i)
  BY RankMono
<1>. QED  BY <1>0, <1>1, <1>2

(* Every rank in 1..n is the rank of a kept position.                      *)
LEMMA RankOnto ==
  ASSUME NEW I \in SUBSET Int, IsFiniteSet(I), NEW r \in 1..Cardinality(I)
  PROVE  \E i \in I : Rank(I, i) = r
<1> DEFINE n == Cardinality(I)
           f == [i \in I |-> Rank(I, i)]
<1>1. n \in Nat
  BY FS_CardinalityType
<1>2. f \in Injection(I, 1..n)
  <2>1. f \in [I -> 1..n]
    BY RankRange DEF f, n
  <2>2. IsInjective(f)
    BY RankInj DEF f, IsInjective
  <2>. QED  BY <2>1, <2>2 DEF Injection
<1>3. IsFiniteSet(1..n) /\ Cardinality(1..n) = n
  <2>1. IsFiniteSet(1..n) /\ Cardinality(1..n) = IF 1 > n THEN 0 ELSE n - 1 + 1
    BY <1>1, FS_Interval
  <2>. QED  BY <1>1, <2>1
<1>4. f \in Surjection(I, 1..n)
  BY <1>2, <1>3, FS_Injection
<1>. QED  BY <1>4 DEF Surjection, f, n

(* Pick(I, r) is the kept position of rank r, and each position is the     *)
(* pick of its rank.                                                       *)
LEMMA PickFacts ==
  ASSUME NEW I \in SUBSET Int, IsFiniteSet(I)
  PROVE  /\ \A r \in 1..Cardinality(I) : Pick(I, r) \in I /\ Rank(I, Pick(I, r)) = r
         /\ \A i \in I : Pick(I, Rank(I, i)) = i
<1>1. ASSUME NEW r \in 1..Cardinality(I) PROVE Pick(I, r) \in I /\ Rank(I, Pick(I, r)) = r
  BY RankOnto DEF Pick
<1>2. ASSUME NEW i \in I PROVE Pick(I, Rank(I, i)) = i
  <2>1. Rank(I, i) \in 1..Cardinality(I)
    BY RankRange
  <2>2. Pick(I, Rank(I, i)) \in I /\ Rank(I, Pick(I, Rank(I, i))) = Rank(I, i)
    BY <2>1, <1>1
  <2>3. \A a, b \in I : Rank(I, a) = Rank(I, b) => a = b
    BY RankInj
  <2>. QED  BY <2>2, <2>3
<1>. QED  BY <1>1, <1>2

(* A list of timestamps of Times is a list of integers.                   *)
LEMMA TimesSeq ==
  ASSUME NEW s \in Seq(Times)
  PROVE  s \in Seq(Int)
<1>1. Len(s) \in Nat /\ s \in [1..Len(s) -> Times]
  OBVIOUS
<1>2. s \in [1..Len(s) -> Int]
  BY <1>1, RateLimiterAssumption DEF Times
<1>. QED  BY <1>1, <1>2

(* The pruned list is a list of the same timestamps, as long as the number *)
(* of timestamps after the cutoff.                                         *)
LEMMA FilterFacts ==
  ASSUME NEW T, NEW s \in Seq(T), s \in Seq(Int), NEW c \in Int
  PROVE  /\ Filter(s, c) \in Seq(T)
         /\ Len(Filter(s, c)) = Cardinality(After(s, c))
         /\ \A r \in 1..Len(Filter(s, c)) :
               Filter(s, c)[r] = s[Pick(After(s, c), r)]
<1> DEFINE I == After(s, c)
           n == Cardinality(I)
<1>1. I \subseteq 1..Len(s) /\ IsFiniteSet(I) /\ n \in Nat
  BY AfterFacts DEF I, n
<1>2. \A r \in 1..n : Pick(I, r) \in 1..Len(s)
  BY <1>1, PickFacts
<1>3. Filter(s, c) = [r \in 1..n |-> s[Pick(I, r)]]
  BY DEF Filter, Pick, I, n
<1>4. [r \in 1..n |-> s[Pick(I, r)]] \in [1..n -> T]
  BY <1>2
<1>5. [r \in 1..n |-> s[Pick(I, r)]] \in Seq(T) /\ Len([r \in 1..n |-> s[Pick(I, r)]]) = n
  BY <1>1, <1>4
<1>. QED  BY <1>3, <1>5 DEF I, n

(* Pruning at c keeps every timestamp after a later cutoff d >= c: the     *)
(* pruned list has as many timestamps after d as the list had.             *)
LEMMA FilterCount ==
  ASSUME NEW s \in Seq(Int), NEW c \in Int,
         NEW d \in Int, d >= c
  PROVE  Cardinality(After(Filter(s, c), d)) = Cardinality(After(s, d))
<1> DEFINE I == After(s, c)
           F == Filter(s, c)
           A == After(F, d)
           B == After(s, d)
           h == [r \in A |-> Pick(I, r)]
<1>0. I \subseteq 1..Len(s) /\ IsFiniteSet(I) /\ I \subseteq Int
  BY AfterFacts DEF I
<1>1. /\ I \subseteq 1..Len(s) /\ IsFiniteSet(I) /\ I \subseteq Int
      /\ F \in Seq(Int) /\ Len(F) = Cardinality(I)
      /\ \A r \in 1..Len(F) : F[r] = s[Pick(I, r)]
  <2>1. Filter(s, c) \in Seq(Int) /\ Len(Filter(s, c)) = Cardinality(After(s, c))
        /\ \A r \in 1..Len(Filter(s, c)) : Filter(s, c)[r] = s[Pick(After(s, c), r)]
    BY FilterFacts
  <2>. QED  BY <1>0, <2>1 DEF I, F
<1>2. B \subseteq I
  <2>1. ASSUME NEW i \in B PROVE i \in I
    <3>1. i \in 1..Len(s) /\ s[i] \in Int /\ s[i] > d
      BY DEF B, After
    <3>. QED  BY <3>1 DEF I, After
  <2>. QED  BY <2>1
<1>3. h \in [A -> B]
  <2>1. ASSUME NEW r \in A PROVE Pick(I, r) \in B
    <3>1. r \in 1..Len(F) /\ F[r] > d
      BY DEF A, After
    <3>2. Pick(I, r) \in I /\ s[Pick(I, r)] > d
      BY <1>1, <3>1, PickFacts
    <3>. QED  BY <1>1, <3>2 DEF B, After
  <2>. QED  BY <2>1 DEF h
<1>4. IsInjective(h)
  <2>1. ASSUME NEW a \in A, NEW b \in A, Pick(I, a) = Pick(I, b) PROVE a = b
    <3>1. a \in 1..Cardinality(I) /\ b \in 1..Cardinality(I)
      BY <1>1 DEF A, After
    <3>2. Rank(I, Pick(I, a)) = a /\ Rank(I, Pick(I, b)) = b
      BY <1>1, <3>1, PickFacts
    <3>. QED  BY <2>1, <3>2
  <2>. QED  BY <2>1 DEF h, IsInjective
<1>5. \A i \in B : \E r \in A : h[r] = i
  <2>1. ASSUME NEW i \in B PROVE \E r \in A : h[r] = i
    <3>1. i \in I /\ s[i] > d
      BY <1>2 DEF B, After
    <3>2. Rank(I, i) \in 1..Cardinality(I) /\ Pick(I, Rank(I, i)) = i
      BY <1>1, <3>1, RankRange, PickFacts
    <3>3. Rank(I, i) \in A
      BY <1>1, <3>1, <3>2 DEF A, After
    <3>. QED  BY <3>2, <3>3 DEF h
  <2>. QED  BY <2>1
<1>6. ExistsBijection(A, B)
  BY <1>3, <1>4, <1>5 DEF ExistsBijection, Bijection, Injection, Surjection
<1>7. IsFiniteSet(A)
  <2>1. IsFiniteSet(After(F, d))
    BY <1>1, AfterFacts
  <2>. QED  BY <2>1 DEF A
<1>. QED  BY <1>6, <1>7, FS_Bijection DEF A, B, F

-----------------------------------------------------------------------------
(* Counting timestamps: appending one, moving the cutoff, the window.      *)

(* Appending x counts it after c when x > c.                               *)
LEMMA AfterAppend ==
  ASSUME NEW s \in Seq(Int), NEW x \in Int, NEW c \in Int
  PROVE  /\ Append(s, x) \in Seq(Int)
         /\ Cardinality(After(Append(s, x), c)) =
              Cardinality(After(s, c)) + (IF x > c THEN 1 ELSE 0)
<1>1. After(Append(s, x), c) = IF x > c THEN After(s, c) \cup {Len(s) + 1} ELSE After(s, c)
  BY DEF After
<1>2. IsFiniteSet(After(s, c)) /\ Len(s) + 1 \notin After(s, c)
      /\ Cardinality(After(s, c)) \in Nat
  BY AfterFacts
<1>0. Append(s, x) \in Seq(Int)
  OBVIOUS
<1>3. CASE x > c
  <2>1. Cardinality(After(s, c) \cup {Len(s) + 1}) = Cardinality(After(s, c)) + 1
    BY <1>2, FS_AddElement
  <2>. QED  BY <1>0, <1>1, <1>3, <2>1
<1>4. CASE ~(x > c)
  BY <1>0, <1>1, <1>2, <1>4
<1>. QED  BY <1>3, <1>4

(* A later cutoff counts no more timestamps.                               *)
LEMMA AfterMono ==
  ASSUME NEW s \in Seq(Int), NEW c \in Int, NEW d \in Int, c <= d
  PROVE  Cardinality(After(s, d)) <= Cardinality(After(s, c))
<1>1. After(s, d) \subseteq After(s, c)
  BY DEF After
<1>. QED  BY <1>1, AfterFacts, FS_Subset

(* The empty list and a one-element list.                                  *)
LEMMA AfterSmall ==
  ASSUME NEW x \in Int, NEW c \in Int
  PROVE  /\ Cardinality(After(<<>>, c)) = 0
         /\ Cardinality(After(<<x>>, c)) = IF x > c THEN 1 ELSE 0
<1>1. After(<<>>, c) = {}
  BY DEF After
<1>2. After(<<x>>, c) = IF x > c THEN {1} ELSE {}
  BY DEF After
<1>. QED  BY <1>1, <1>2, FS_EmptySet, FS_Singleton

(* The positions in a window (lo, hi] are positions after lo, and all of   *)
(* them when no timestamp is later than hi.                                *)
LEMMA BetweenAfter ==
  ASSUME NEW s \in Seq(Int), NEW lo \in Int, NEW hi \in Int
  PROVE  /\ IsFiniteSet(Between(s, lo, hi))
         /\ Cardinality(Between(s, lo, hi)) <= Cardinality(After(s, lo))
         /\ (\A i \in 1..Len(s) : s[i] <= hi) =>
               Between(s, lo, hi) = After(s, lo)
<1>1. Between(s, lo, hi) \subseteq After(s, lo)
  BY DEF Between, After
<1>2. IsFiniteSet(Between(s, lo, hi)) /\ Cardinality(Between(s, lo, hi)) <= Cardinality(After(s, lo))
  BY <1>1, AfterFacts, FS_Subset
<1>3. (\A i \in 1..Len(s) : s[i] <= hi) => Between(s, lo, hi) = After(s, lo)
  BY DEF Between, After
<1>. QED  BY <1>2, <1>3

(* Appending x counts it in the window (lo, hi] when it falls there.       *)
LEMMA BetweenAppend ==
  ASSUME NEW s \in Seq(Int), NEW x \in Int, NEW lo \in Int, NEW hi \in Int
  PROVE  Cardinality(Between(Append(s, x), lo, hi)) =
           Cardinality(Between(s, lo, hi)) + (IF lo < x /\ x <= hi THEN 1 ELSE 0)
<1>1. Between(Append(s, x), lo, hi) =
        IF lo < x /\ x <= hi THEN Between(s, lo, hi) \cup {Len(s) + 1} ELSE Between(s, lo, hi)
  BY DEF Between
<1>0. IsFiniteSet(Between(s, lo, hi))
  BY BetweenAfter
<1>2. /\ Len(s) + 1 \notin Between(s, lo, hi)
      /\ Cardinality(Between(s, lo, hi)) \in Nat
  <2>1. Len(s) + 1 \notin Between(s, lo, hi)
    BY DEF Between
  <2>. QED  BY <1>0, <2>1, FS_CardinalityType
<1>3. CASE lo < x /\ x <= hi
  <2>1. Cardinality(Between(s, lo, hi) \cup {Len(s) + 1}) = Cardinality(Between(s, lo, hi)) + 1
    BY <1>0, <1>2, FS_AddElement
  <2>. QED  BY <1>1, <1>3, <2>1
<1>4. CASE ~(lo < x /\ x <= hi)
  BY <1>1, <1>2, <1>4
<1>. QED  BY <1>3, <1>4

-----------------------------------------------------------------------------
(* The stored lists: typing and StoredBound, for every set of ports.       *)

TInv == TypeOK /\ StoredBound

(* What Valid returns for a stored list.                                   *)
LEMMA ValidFacts ==
  ASSUME TypeOK, NEW lst \in Seq(Times)
  PROVE  /\ lst \in Seq(Int) /\ now - Window \in Int
         /\ Valid(lst) \in Seq(Times) /\ Valid(lst) \in Seq(Int)
         /\ Len(Valid(lst)) = Cardinality(After(lst, now - Window))
         /\ Len(Valid(lst)) <= Len(lst)
         /\ \A d \in Int : d >= now - Window =>
               Cardinality(After(Valid(lst), d)) = Cardinality(After(lst, d))
<1>1. lst \in Seq(Int) /\ now - Window \in Int
  BY TimesSeq, RateLimiterAssumption DEF TypeOK, Times
<1>2. Valid(lst) \in Seq(Times) /\ Len(Valid(lst)) = Cardinality(After(lst, now - Window))
  BY <1>1, FilterFacts DEF Valid
<1>3. Valid(lst) \in Seq(Int)
  BY <1>2, TimesSeq
<1>4. Len(Valid(lst)) <= Len(lst)
  BY <1>1, <1>2, AfterFacts
<1>5. \A d \in Int : d >= now - Window =>
         Cardinality(After(Valid(lst), d)) = Cardinality(After(lst, d))
  BY <1>1, FilterCount DEF Valid
<1>. QED  BY <1>1, <1>2, <1>3, <1>4, <1>5

(* rl.requests[key] = v changes the entry of key only.                     *)
LEMMA StoreFacts ==
  ASSUME NEW x, NEW w
  PROVE  /\ DOMAIN Store(x, w) = DOMAIN requests \cup {x}
         /\ Store(x, w)[x] = w
         /\ \A k \in DOMAIN requests : k # x => Store(x, w)[k] = requests[k]
BY DEF Store

(* Storing a list of at most Limit timestamps keeps the map typed and      *)
(* bounded.                                                                *)
LEMMA StoreBounded ==
  ASSUME TInv, NEW key \in Keys, NEW v \in Seq(Times), Len(v) <= Limit
  PROVE  /\ DOMAIN Store(key, v) \subseteq Keys
         /\ \A k \in DOMAIN Store(key, v) :
               Store(key, v)[k] \in Seq(Times) /\ Len(Store(key, v)[k]) <= Limit
<1>0. DOMAIN Store(key, v) = DOMAIN requests \cup {key}
  BY StoreFacts
<1>1. DOMAIN Store(key, v) \subseteq Keys
  BY <1>0 DEF TInv, TypeOK
<1>2. ASSUME NEW k \in DOMAIN Store(key, v)
      PROVE  Store(key, v)[k] \in Seq(Times) /\ Len(Store(key, v)[k]) <= Limit
  <2>1. CASE k = key
    BY <2>1, StoreFacts
  <2>2. CASE k # key
    <3>0. k \in DOMAIN requests
      BY <1>0, <2>2
    <3>1. k \in DOMAIN requests /\ Store(key, v)[k] = requests[k]
      BY <2>2, <3>0 DEF Store
    <3>. QED  BY <3>1 DEF TInv, TypeOK, StoredBound
  <2>. QED  BY <2>1, <2>2
<1>. QED  BY <1>1, <1>2

(* A request of ip from port: the three branches of Allow.                 *)
LEMMA AllowT ==
  ASSUME TInv, NEW ip \in IPs, NEW port \in Ports, Allow(ip, port) PROVE TInv'
<1> DEFINE key == <<ip, port>>
           L == requests[key]
<1>0. /\ key \in Keys /\ now \in Times /\ now' = now
      /\ Limit \in Nat \ {0}
  BY RateLimiterAssumption DEF Allow, TInv, TypeOK, Keys, key
<1>1. refused' \subseteq IPs
  BY DEF Allow
<1>2. admitted' \in [IPs -> Seq(Times)]
  <2>1. admitted \in [IPs -> Seq(Times)] /\ Append(admitted[ip], now) \in Seq(Times)
    BY <1>0 DEF TInv, TypeOK
  <2>2. admitted' = admitted \/ admitted' = [admitted EXCEPT ![ip] = Append(admitted[ip], now)]
    BY DEF Allow, Admit
  <2>. QED  BY <2>1, <2>2
<1>3. \E v \in Seq(Times) : Len(v) <= Limit /\ requests' = Store(key, v)
  <2>1. CASE key \notin DOMAIN requests /\ requests' = Store(key, <<now>>)
    <3>1. <<now>> \in Seq(Times) /\ Len(<<now>>) <= Limit
      BY <1>0
    <3>. QED  BY <2>1, <3>1
  <2>2. CASE key \in DOMAIN requests /\ requests' = Store(key, Valid(L))
    <3>1. L \in Seq(Times) /\ Len(L) <= Limit
      BY <2>2 DEF TInv, TypeOK, StoredBound
    <3>2. Valid(L) \in Seq(Times) /\ Len(Valid(L)) <= Len(L) /\ Len(L) \in Nat
      BY <3>1, ValidFacts DEF TInv
    <3>3. Len(Valid(L)) <= Limit
      BY <1>0, <3>1, <3>2
    <3>. QED  BY <2>2, <3>2, <3>3
  <2>3. CASE /\ key \in DOMAIN requests /\ ~OverLimit(L)
             /\ requests' = Store(key, Append(Valid(L), now))
    <3>1. L \in Seq(Times)
      BY <2>3 DEF TInv, TypeOK
    <3>2. Valid(L) \in Seq(Times) /\ Len(Valid(L)) < Limit
      <4>1. Valid(L) \in Seq(Times)
        BY <3>1, ValidFacts DEF TInv
      <4>2. ~(Len(Valid(L)) >= Limit)
        BY <2>3 DEF OverLimit
      <4>. QED  BY <1>0, <4>1, <4>2
    <3>3. Append(Valid(L), now) \in Seq(Times) /\ Len(Append(Valid(L), now)) <= Limit
      BY <1>0, <3>2
    <3>. QED  BY <2>3, <3>3
  <2>. QED  BY <2>1, <2>2, <2>3 DEF Allow, Deny, key, L
<1>4. PICK v \in Seq(Times) : Len(v) <= Limit /\ requests' = Store(key, v)
  BY <1>3
<1>5. /\ DOMAIN requests' \subseteq Keys
      /\ \A k \in DOMAIN requests' : requests'[k] \in Seq(Times) /\ Len(requests'[k]) <= Limit
  BY <1>0, <1>4, StoreBounded
<1>. QED  BY <1>0, <1>1, <1>2, <1>5 DEF TInv, TypeOK, StoredBound

(* One pass of cleanup stores only pruned lists.                           *)
LEMMA CleanupT ==
  ASSUME TInv, Cleanup PROVE TInv'
<1> DEFINE D == {j \in DOMAIN requests : Valid(requests[j]) # <<>>}
<1>1. requests' = [k \in D |-> Valid(requests[k])] /\ D \subseteq DOMAIN requests
  BY DEF Cleanup, D
<1>2. ASSUME NEW k \in D PROVE Valid(requests[k]) \in Seq(Times) /\ Len(Valid(requests[k])) <= Limit
  <2>1. requests[k] \in Seq(Times) /\ Len(requests[k]) <= Limit
    BY <1>1 DEF TInv, TypeOK, StoredBound
  <2>2. Valid(requests[k]) \in Seq(Times) /\ Len(Valid(requests[k])) <= Len(requests[k])
    BY <2>1, ValidFacts DEF TInv
  <2>. QED  BY <2>1, <2>2, RateLimiterAssumption
<1>3. UNCHANGED <<now, admitted>> /\ refused' = {}
  BY DEF Cleanup
<1>. QED  BY <1>1, <1>2, <1>3 DEF TInv, TypeOK, StoredBound

(* The clock moves; the map is left alone.                                 *)
LEMMA TickT ==
  ASSUME TInv, Tick PROVE TInv'
BY RateLimiterAssumption DEF Tick, TInv, TypeOK, StoredBound, Times

LEMMA TStep == TInv /\ [Next]_vars => TInv'
<1> SUFFICES ASSUME TInv, [Next]_vars PROVE TInv'
  OBVIOUS
<1>1. ASSUME NEW ip \in IPs, NEW port \in Ports, Allow(ip, port) PROVE TInv'
  BY <1>1, AllowT
<1>2. CASE Cleanup
  BY <1>2, CleanupT
<1>3. CASE Tick
  BY <1>3, TickT
<1>4. CASE UNCHANGED vars
  BY <1>4 DEF vars, TInv, TypeOK, StoredBound
<1>. QED  BY <1>1, <1>2, <1>3, <1>4 DEF Next

LEMMA TInit == Init => TInv
BY RateLimiterAssumption DEF Init, TInv, TypeOK, StoredBound, Times

(* Every state of the limiter is well typed: rl.requests maps connection   *)
(* keys to lists of past timestamps, for every limit, window and clock.    *)
THEOREM TypeCorrect == Spec => []TypeOK
<1>1. TInv => TypeOK
  BY DEF TInv
<1>. QED  BY <1>1, TInit, TStep, PTL DEF Spec

(* Allow never keeps more than `limit` timestamps for a key, for every     *)
(* limit and window and however many ports a client uses: the deny branch  *)
(* writes back only the pruned list, the admit branch appends to a pruned  *)
(* list shorter than the limit, and cleanup only prunes.                   *)
THEOREM StoredBounded == Spec => []StoredBound
<1>1. TInv => StoredBound
  BY DEF TInv
<1>. QED  BY <1>1, TInit, TStep, PTL DEF Spec

-----------------------------------------------------------------------------
(* The window properties, for clients that each connect from one port.     *)
(* Allow counts per key <<ip, port>> while WindowLimit counts per client,  *)
(* so with several ports per client the limit is per connection and        *)
(* WindowLimit fails (run rate_ports); with one port the two counts are    *)
(* the same, which Synced states.                                          *)

SinglePort == \E q : Ports = {q}

(* No timestamp of the ghost history lies in the future.                   *)
AdmPast == \A ip \in IPs : \A i \in 1..Len(admitted[ip]) : admitted[ip][i] <= now

(* The list Allow keeps for a client has, after every cutoff not earlier   *)
(* than now - window, as many timestamps as the requests of the client let *)
(* through; a client without a list had none let through in the window.    *)
SyncedAt(ip, port) ==
    IF <<ip, port>> \in DOMAIN requests
    THEN \A d \in Int : d >= now - Window =>
            Cardinality(After(admitted[ip], d)) =
                Cardinality(After(requests[<<ip, port>>], d))
    ELSE Cardinality(After(admitted[ip], now - Window)) = 0

Synced == \A ip \in IPs, port \in Ports : SyncedAt(ip, port)

WInv == TInv /\ AdmPast /\ Synced /\ WindowLimit /\ NoFalseRefusal

(* The number of requests of ip let through in the window ending at t.     *)
LEMMA InWindowBetween ==
  ASSUME NEW ip, NEW t
  PROVE  InWindow(ip, t) = Cardinality(Between(admitted[ip], t - Window, t))
BY DEF InWindow, Between

(* A request let through at n keeps every window within lim when fewer     *)
(* than lim requests were let through after n - W.                         *)
LEMMA AppendWindow ==
  ASSUME NEW s \in Seq(Int), NEW n \in Int, NEW W \in Int, NEW lim \in Int,
         NEW t \in Int,
         Cardinality(Between(s, t - W, t)) <= lim,
         Cardinality(After(s, n - W)) < lim
  PROVE  Cardinality(Between(Append(s, n), t - W, t)) <= lim
<1>0. Append(s, n) \in Seq(Int) /\ t - W \in Int /\ n - W \in Int
  OBVIOUS
<1>1. Cardinality(Between(Append(s, n), t - W, t)) =
        Cardinality(Between(s, t - W, t)) + (IF t - W < n /\ n <= t THEN 1 ELSE 0)
  BY BetweenAppend
<1>2. CASE t - W < n /\ n <= t
  <2>1. Cardinality(Between(Append(s, n), t - W, t)) <=
          Cardinality(After(Append(s, n), t - W))
    BY <1>0, BetweenAfter
  <2>2. Cardinality(After(Append(s, n), t - W)) = Cardinality(After(s, t - W)) + 1
    BY <1>0, <1>2, AfterAppend
  <2>3. Cardinality(After(s, t - W)) <= Cardinality(After(s, n - W))
    BY <1>0, <1>2, AfterMono
  <2>4. Cardinality(After(s, t - W)) \in Nat /\ Cardinality(After(s, n - W)) \in Nat
    BY <1>0, AfterFacts
  <2>5. Cardinality(Between(Append(s, n), t - W, t)) \in Nat
    BY <1>0, BetweenAfter, FS_CardinalityType
  <2>. QED  BY <2>1, <2>2, <2>3, <2>4, <2>5
<1>3. CASE ~(t - W < n /\ n <= t)
  <2>1. Cardinality(Between(s, t - W, t)) \in Nat
    BY <1>0, BetweenAfter, FS_CardinalityType
  <2>. QED  BY <1>1, <1>3, <2>1
<1>. QED  BY <1>2, <1>3

(* Storing under the key of ip leaves what Synced says of another client.  *)
LEMMA SyncOther ==
  ASSUME NEW ip, NEW port, NEW w, requests' = Store(<<ip, port>>, w),
         now' = now, NEW j, j # ip, admitted'[j] = admitted[j], NEW p
  PROVE  SyncedAt(j, p)' = SyncedAt(j, p)
<1>1. (<<j, p>> \in DOMAIN requests') = (<<j, p>> \in DOMAIN requests)
  BY DEF Store
<1>2. <<j, p>> \in DOMAIN requests => requests'[<<j, p>>] = requests[<<j, p>>]
  BY DEF Store
<1>. QED  BY <1>1, <1>2 DEF SyncedAt

(* With one port, the only key of a client is <<ip, q>>.                   *)
LEMMA OnePort ==
  ASSUME SinglePort, NEW port \in Ports PROVE \A p \in Ports : p = port
BY DEF SinglePort

(* A step of Allow that lets the request of ip through and stores w under  *)
(* its key: fewer than Limit requests were let through in the window, and  *)
(* w counts one more than before after every cutoff the window reaches.    *)
LEMMA AdmitW ==
  ASSUME WInv, SinglePort, NEW ip \in IPs, NEW port \in Ports, NEW w,
         requests' = Store(<<ip, port>>, w), Admit(ip), refused' = {},
         now' = now, TInv',
         Cardinality(After(admitted[ip], now - Window)) < Limit,
         \A d \in Int : d >= now - Window =>
            Cardinality(After(w, d)) =
              Cardinality(After(admitted[ip], d)) + (IF now > d THEN 1 ELSE 0)
  PROVE  WInv'
<1>0. /\ admitted[ip] \in Seq(Int) /\ now \in Int /\ Limit \in Int
      /\ admitted'[ip] = Append(admitted[ip], now)
      /\ \A j \in IPs : j # ip => admitted'[j] = admitted[j]
  <2>1. admitted[ip] \in Seq(Times) /\ now \in Times
    BY DEF WInv, TInv, TypeOK
  <2>2. admitted[ip] \in Seq(Int) /\ now \in Int
    BY <2>1, TimesSeq DEF Times
  <2>. QED  BY <2>2, RateLimiterAssumption DEF Admit, WInv, TInv, TypeOK
<1>1. AdmPast'
  <2> SUFFICES ASSUME NEW j \in IPs, NEW i \in 1..Len(admitted'[j])
               PROVE  admitted'[j][i] <= now'
    BY DEF AdmPast
  <2>1. CASE j = ip
    <3>1. i \in 1..Len(admitted[ip]) + 1
      BY <1>0, <2>1
    <3>2. CASE i <= Len(admitted[ip])
      <4>1. admitted'[j][i] = admitted[ip][i]
        BY <1>0, <2>1, <3>1, <3>2
      <4>. QED  BY <4>1, <3>1, <3>2 DEF WInv, AdmPast, Admit
    <3>3. CASE i = Len(admitted[ip]) + 1
      BY <1>0, <2>1, <3>3 DEF Admit
    <3>. QED  BY <3>1, <3>2, <3>3
  <2>2. CASE j # ip
    BY <1>0, <2>2 DEF WInv, AdmPast
  <2>. QED  BY <2>1, <2>2
<1>2. Synced'
  <2> SUFFICES ASSUME NEW j \in IPs, NEW p \in Ports PROVE SyncedAt(j, p)'
    BY DEF Synced
  <2>1. CASE j = ip
    <3>1. p = port
      BY OnePort
    <3>2. <<ip, port>> \in DOMAIN requests' /\ requests'[<<ip, port>>] = w
      BY DEF Store
    <3>3. ASSUME NEW d \in Int, d >= now - Window
          PROVE  Cardinality(After(Append(admitted[ip], now), d)) =
                   Cardinality(After(w, d))
      BY <1>0, <3>3, AfterAppend
    <3>. QED  BY <1>0, <2>1, <3>1, <3>2, <3>3 DEF SyncedAt
  <2>2. CASE j # ip
    BY <1>0, <2>2, SyncOther DEF WInv, Synced
  <2>. QED  BY <2>1, <2>2
<1>3. WindowLimit'
  <2> SUFFICES ASSUME NEW j \in IPs, NEW t \in Times PROVE InWindow(j, t)' <= Limit
    BY DEF WindowLimit
  <2>0. t \in Int /\ Window \in Int
    BY RateLimiterAssumption DEF Times
  <2>1. CASE j = ip
    <3>1. Cardinality(Between(admitted[ip], t - Window, t)) <= Limit
      BY <2>1, InWindowBetween DEF WInv, WindowLimit
    <3>2. Cardinality(Between(Append(admitted[ip], now), t - Window, t)) <= Limit
      BY <1>0, <2>0, <3>1, AppendWindow
    <3>. QED  BY <1>0, <2>1, <3>2 DEF InWindow, Between
  <2>2. CASE j # ip
    BY <1>0, <2>2 DEF WInv, WindowLimit, InWindow
  <2>. QED  BY <2>1, <2>2
<1>4. NoFalseRefusal'
  BY DEF NoFalseRefusal
<1>. QED  BY <1>1, <1>2, <1>3, <1>4 DEF WInv

(* The first request of a client (the key is added): no request of it was  *)
(* let through in the window, so <<now>> is counted right.                 *)
LEMMA NewW ==
  ASSUME WInv, SinglePort, NEW ip \in IPs, NEW port \in Ports,
         <<ip, port>> \notin DOMAIN requests,
         requests' = Store(<<ip, port>>, <<now>>), Admit(ip), refused' = {},
         now' = now, TInv'
  PROVE  WInv'
<1>0. /\ admitted[ip] \in Seq(Int) /\ now \in Int /\ now - Window \in Int
      /\ Limit \in Nat \ {0}
  BY TimesSeq, RateLimiterAssumption DEF WInv, TInv, TypeOK, Times
<1>1. Cardinality(After(admitted[ip], now - Window)) = 0
  BY DEF WInv, Synced, SyncedAt
<1>2. ASSUME NEW d \in Int, d >= now - Window
      PROVE  Cardinality(After(<<now>>, d)) =
               Cardinality(After(admitted[ip], d)) + (IF now > d THEN 1 ELSE 0)
  <2>1. Cardinality(After(admitted[ip], d)) <= Cardinality(After(admitted[ip], now - Window))
    BY <1>0, <1>2, AfterMono
  <2>2. Cardinality(After(admitted[ip], d)) \in Nat
    <3>1. IsFiniteSet(After(admitted[ip], d))
      BY <1>0, AfterFacts
    <3>. QED  BY <3>1, FS_CardinalityType
  <2>3. Cardinality(After(<<now>>, d)) = IF now > d THEN 1 ELSE 0
    BY <1>0, AfterSmall
  <2>. QED  BY <1>1, <2>1, <2>2, <2>3
<1>. QED  BY <1>0, <1>1, <1>2, AdmitW

(* The deny branch: the pruned list counts what the client had let through *)
(* in the window, and that is at least the limit.                          *)
LEMMA DenyW ==
  ASSUME WInv, SinglePort, NEW ip \in IPs, NEW port \in Ports,
         <<ip, port>> \in DOMAIN requests, OverLimit(requests[<<ip, port>>]),
         Deny(<<ip, port>>), UNCHANGED admitted, refused' = {ip},
         now' = now, TInv'
  PROVE  WInv'
<1> DEFINE L == requests[<<ip, port>>]
           c == now - Window
<1>0. /\ TypeOK /\ L \in Seq(Times) /\ admitted[ip] \in Seq(Int) /\ c \in Int
      /\ Limit \in Nat
  BY TimesSeq, RateLimiterAssumption DEF WInv, TInv, TypeOK, Times, L, c
<1>1. /\ Valid(L) \in Seq(Int)
      /\ Len(Valid(L)) = Cardinality(After(L, c))
      /\ \A d \in Int : d >= c =>
            Cardinality(After(Valid(L), d)) = Cardinality(After(L, d))
  BY <1>0, ValidFacts DEF c
<1>2. \A d \in Int : d >= c =>
         Cardinality(After(admitted[ip], d)) = Cardinality(After(L, d))
  BY DEF WInv, Synced, SyncedAt, L, c
<1>3. AdmPast'
  BY DEF WInv, AdmPast
<1>4. Synced'
  <2> SUFFICES ASSUME NEW j \in IPs, NEW p \in Ports PROVE SyncedAt(j, p)'
    BY DEF Synced
  <2>1. CASE j = ip
    <3>1. p = port
      BY OnePort
    <3>2. <<ip, port>> \in DOMAIN requests' /\ requests'[<<ip, port>>] = Valid(L)
      BY DEF Deny, Store, L
    <3>3. \A d \in Int : d >= c =>
             Cardinality(After(admitted'[ip], d)) = Cardinality(After(Valid(L), d))
      BY <1>1, <1>2
    <3>. QED  BY <2>1, <3>1, <3>2, <3>3 DEF SyncedAt, c
  <2>2. CASE j # ip
    BY <2>2, SyncOther DEF WInv, Synced, Deny
  <2>. QED  BY <2>1, <2>2
<1>5. WindowLimit'
  BY DEF WInv, WindowLimit, InWindow
<1>6. NoFalseRefusal'
  <2>1. \A i \in 1..Len(admitted[ip]) : admitted[ip][i] <= now
    BY DEF WInv, AdmPast
  <2>2. Between(admitted[ip], c, now) = After(admitted[ip], c)
    BY <1>0, <2>1, BetweenAfter DEF TypeOK, Times, c
  <2>3. InWindow(ip, now) = Cardinality(After(admitted[ip], c))
    BY <2>2, InWindowBetween DEF c
  <2>4. Cardinality(After(admitted[ip], c)) = Len(Valid(L))
    <3>0. c \in Int /\ c >= c
      BY <1>0
    <3>1. Cardinality(After(admitted[ip], c)) = Cardinality(After(L, c))
      BY <3>0, <1>2, Zenon
    <3>. QED  BY <1>1, <3>1
  <2>5. InWindow(ip, now) >= Limit
    BY <2>3, <2>4 DEF OverLimit, L, c
  <2>6. InWindow(ip, now)' = InWindow(ip, now)
    BY DEF InWindow
  <2>. QED  BY <2>5, <2>6 DEF NoFalseRefusal
<1>. QED  BY <1>3, <1>4, <1>5, <1>6 DEF WInv

(* A request under the limit: the pruned list with now appended counts     *)
(* one more, as the client's history does.                                 *)
LEMMA MoreW ==
  ASSUME WInv, SinglePort, NEW ip \in IPs, NEW port \in Ports,
         <<ip, port>> \in DOMAIN requests, ~OverLimit(requests[<<ip, port>>]),
         requests' = Store(<<ip, port>>, Append(Valid(requests[<<ip, port>>]), now)),
         Admit(ip), refused' = {}, now' = now, TInv'
  PROVE  WInv'
<1> DEFINE L == requests[<<ip, port>>]
           c == now - Window
<1>0. /\ TypeOK /\ L \in Seq(Times) /\ admitted[ip] \in Seq(Int) /\ c \in Int
      /\ now \in Int /\ Limit \in Nat
  BY TimesSeq, RateLimiterAssumption DEF WInv, TInv, TypeOK, Times, L, c
<1>1. /\ Valid(L) \in Seq(Int)
      /\ Len(Valid(L)) = Cardinality(After(L, c))
      /\ \A d \in Int : d >= c =>
            Cardinality(After(Valid(L), d)) = Cardinality(After(L, d))
  BY <1>0, ValidFacts DEF c
<1>2. \A d \in Int : d >= c =>
         Cardinality(After(admitted[ip], d)) = Cardinality(After(L, d))
  BY DEF WInv, Synced, SyncedAt, L, c
<1>3. Cardinality(After(admitted[ip], c)) < Limit
  <2>1. Len(Valid(L)) < Limit
    BY <1>0 DEF OverLimit, L
  <2>2. Cardinality(After(admitted[ip], c)) = Cardinality(After(L, c))
    BY <1>0, <1>2
  <2>. QED  BY <1>1, <2>1, <2>2
<1>4. ASSUME NEW d \in Int, d >= c
      PROVE  Cardinality(After(Append(Valid(L), now), d)) =
               Cardinality(After(admitted[ip], d)) + (IF now > d THEN 1 ELSE 0)
  <2>1. Cardinality(After(Append(Valid(L), now), d)) =
          Cardinality(After(Valid(L), d)) + (IF now > d THEN 1 ELSE 0)
    BY <1>0, <1>1, AfterAppend
  <2>. QED  BY <1>1, <1>2, <1>4, <2>1
<1>. QED  BY <1>3, <1>4, AdmitW DEF L, c

(* A request from the client's port, in any branch of Allow.              *)
LEMMA AllowW ==
  ASSUME WInv, SinglePort, NEW ip \in IPs, NEW port \in Ports, Allow(ip, port)
  PROVE  WInv'
<1>0. TInv' /\ now' = now
  BY AllowT DEF WInv, Allow
<1>1. CASE /\ <<ip, port>> \notin DOMAIN requests
           /\ requests' = Store(<<ip, port>>, <<now>>)
           /\ Admit(ip) /\ refused' = {}
  BY <1>0, <1>1, NewW
<1>2. CASE /\ <<ip, port>> \in DOMAIN requests
           /\ OverLimit(requests[<<ip, port>>])
           /\ Deny(<<ip, port>>) /\ UNCHANGED admitted /\ refused' = {ip}
  BY <1>0, <1>2, DenyW
<1>3. CASE /\ <<ip, port>> \in DOMAIN requests
           /\ ~OverLimit(requests[<<ip, port>>])
           /\ requests' = Store(<<ip, port>>, Append(Valid(requests[<<ip, port>>]), now))
           /\ Admit(ip) /\ refused' = {}
  BY <1>0, <1>3, MoreW
<1>. QED  BY <1>1, <1>2, <1>3 DEF Allow

(* Cleanup keeps the pruned list, which counts the same after every cutoff *)
(* of the window, and drops a key only when nothing of the client is left  *)
(* in the window.                                                          *)
LEMMA CleanupW ==
  ASSUME WInv, Cleanup, TInv' PROVE WInv'
<1> DEFINE D == {j \in DOMAIN requests : Valid(requests[j]) # <<>>}
           c == now - Window
<1>0. /\ requests' = [k \in D |-> Valid(requests[k])]
      /\ UNCHANGED <<now, admitted>> /\ refused' = {}
      /\ TypeOK /\ c \in Int
  BY RateLimiterAssumption DEF Cleanup, D, c, WInv, TInv, TypeOK, Times
<1>1. AdmPast'
  BY <1>0 DEF WInv, AdmPast
<1>2. Synced'
  <2> SUFFICES ASSUME NEW j \in IPs, NEW p \in Ports PROVE SyncedAt(j, p)'
    BY DEF Synced
  <2>0. SyncedAt(j, p)
    BY DEF WInv, Synced
  <2>1. CASE <<j, p>> \in D
    <3>1. requests[<<j, p>>] \in Seq(Times)
      BY <1>0, <2>1 DEF TypeOK
    <3>2. \A d \in Int : d >= c =>
             Cardinality(After(Valid(requests[<<j, p>>]), d)) =
               Cardinality(After(requests[<<j, p>>], d))
      BY <1>0, <3>1, ValidFacts DEF c
    <3>3. <<j, p>> \in DOMAIN requests' /\ requests'[<<j, p>>] = Valid(requests[<<j, p>>])
      BY <1>0, <2>1
    <3>. QED  BY <1>0, <2>0, <2>1, <3>2, <3>3 DEF SyncedAt, c
  <2>2. CASE <<j, p>> \in DOMAIN requests \ D
    <3>1. requests[<<j, p>>] \in Seq(Times) /\ Valid(requests[<<j, p>>]) = <<>>
      BY <1>0, <2>2 DEF TypeOK
    <3>2. Cardinality(After(requests[<<j, p>>], c)) = 0
      BY <1>0, <3>1, ValidFacts DEF c
    <3>3. Cardinality(After(admitted[j], c)) = Cardinality(After(requests[<<j, p>>], c))
      <4>1. c \in Int /\ c >= c
        BY <1>0
      <4>. QED  BY <2>0, <2>2, <4>1 DEF SyncedAt, c
    <3>4. <<j, p>> \notin DOMAIN requests'
      BY <1>0, <2>2
    <3>. QED  BY <1>0, <3>2, <3>3, <3>4 DEF SyncedAt, c
  <2>3. CASE <<j, p>> \notin DOMAIN requests
    <3>1. <<j, p>> \notin DOMAIN requests'
      BY <1>0, <2>3
    <3>. QED  BY <1>0, <2>0, <2>3, <3>1 DEF SyncedAt
  <2>. QED  BY <2>1, <2>2, <2>3
<1>3. WindowLimit'
  BY <1>0 DEF WInv, WindowLimit, InWindow
<1>4. NoFalseRefusal'
  BY <1>0 DEF NoFalseRefusal
<1>. QED  BY <1>1, <1>2, <1>3, <1>4 DEF WInv

(* A tick moves the window: a stored list still counts right after every   *)
(* later cutoff, and a client without one still has nothing in it.         *)
LEMMA TickW ==
  ASSUME WInv, Tick, TInv' PROVE WInv'
<1>0. /\ now' = now + 1 /\ UNCHANGED <<requests, admitted>> /\ refused' = {}
      /\ TypeOK /\ now \in Int /\ Window \in Int
  BY RateLimiterAssumption DEF Tick, WInv, TInv, TypeOK, Times
<1>1. AdmPast'
  <2> SUFFICES ASSUME NEW j \in IPs, NEW i \in 1..Len(admitted'[j])
               PROVE  admitted'[j][i] <= now'
    BY DEF AdmPast
  <2>1. admitted[j] \in Seq(Times) /\ i \in 1..Len(admitted[j])
    BY <1>0 DEF TypeOK
  <2>2. admitted[j][i] \in Int
    BY <2>1, RateLimiterAssumption DEF Times
  <2>3. admitted[j][i] <= now
    BY <2>1 DEF WInv, AdmPast
  <2>. QED  BY <1>0, <2>1, <2>2, <2>3
<1>2. Synced'
  <2> SUFFICES ASSUME NEW j \in IPs, NEW p \in Ports PROVE SyncedAt(j, p)'
    BY DEF Synced
  <2>0. SyncedAt(j, p)
    BY DEF WInv, Synced
  <2>1. CASE <<j, p>> \in DOMAIN requests
    BY <1>0, <2>0, <2>1 DEF SyncedAt
  <2>2. CASE <<j, p>> \notin DOMAIN requests
    <3>1. admitted[j] \in Seq(Int)
      BY <1>0, TimesSeq DEF TypeOK
    <3>2. Cardinality(After(admitted[j], now - Window)) = 0
      BY <2>0, <2>2 DEF SyncedAt
    <3>3. /\ Cardinality(After(admitted[j], now + 1 - Window)) <=
               Cardinality(After(admitted[j], now - Window))
          /\ Cardinality(After(admitted[j], now + 1 - Window)) \in Nat
      <4>1. now + 1 - Window \in Int /\ now - Window \in Int /\ now - Window <= now + 1 - Window
        BY <1>0
      <4>2. IsFiniteSet(After(admitted[j], now + 1 - Window))
        BY <3>1, <4>1, AfterFacts
      <4>. QED  BY <3>1, <4>1, <4>2, AfterMono, FS_CardinalityType
    <3>. QED  BY <1>0, <2>2, <3>2, <3>3 DEF SyncedAt
  <2>. QED  BY <2>1, <2>2
<1>3. WindowLimit'
  BY <1>0 DEF WInv, WindowLimit, InWindow
<1>4. NoFalseRefusal'
  BY <1>0 DEF NoFalseRefusal
<1>. QED  BY <1>1, <1>2, <1>3, <1>4 DEF WInv

LEMMA WStep ==
  ASSUME SinglePort PROVE WInv /\ [Next]_vars => WInv'
<1> SUFFICES ASSUME WInv, [Next]_vars PROVE WInv'
  OBVIOUS
<1>0. TInv'
  BY TStep DEF WInv
<1>1. ASSUME NEW ip \in IPs, NEW port \in Ports, Allow(ip, port) PROVE WInv'
  BY <1>1, AllowW
<1>2. CASE Cleanup
  BY <1>0, <1>2, CleanupW
<1>3. CASE Tick
  BY <1>0, <1>3, TickW
<1>4. CASE UNCHANGED vars
  BY <1>0, <1>4 DEF vars, WInv, AdmPast, Synced, SyncedAt, WindowLimit,
                    InWindow, NoFalseRefusal
<1>. QED  BY <1>1, <1>2, <1>3, <1>4 DEF Next

LEMMA WInit == Init => WInv
<1> SUFFICES ASSUME Init PROVE WInv
  OBVIOUS
<1>1. TInv
  BY TInit
<1>2. \A ip \in IPs : admitted[ip] = <<>>
  BY DEF Init
<1>3. ASSUME NEW ip \in IPs, NEW t \in Int PROVE InWindow(ip, t) = 0
  <2>1. {i \in 1..Len(admitted[ip]) :
           t - Window < admitted[ip][i] /\ admitted[ip][i] <= t} = {}
    BY <1>2
  <2>. QED  BY <2>1, FS_EmptySet DEF InWindow
<1>4. Synced
  <2> SUFFICES ASSUME NEW ip \in IPs, NEW port \in Ports PROVE SyncedAt(ip, port)
    BY DEF Synced
  <2>1. <<ip, port>> \notin DOMAIN requests /\ now - Window \in Int
    BY RateLimiterAssumption DEF Init
  <2>. QED  BY <1>2, <2>1, AfterSmall DEF SyncedAt
<1>5. WindowLimit
  BY <1>3, RateLimiterAssumption DEF WindowLimit, Times
<1>. QED  BY <1>1, <1>2, <1>4, <1>5 DEF Init, WInv, AdmPast, NoFalseRefusal

(* Spec 8, for clients that each connect from one port: in every window of *)
(* `Window` ticks at most `Limit` requests of a client reach the handler,  *)
(* for every limit, window and clock bound.  Allow counts the client's      *)
(* requests in the list it keeps for the key ip:port; Synced says that list *)
(* and the history of what was let through agree after every cutoff of the *)
(* window, so the len(valid) >= rl.limit check bounds the window.           *)
THEOREM WindowLimited ==
  ASSUME SinglePort PROVE Spec => []WindowLimit
<1>1. WInv => WindowLimit
  BY DEF WInv
<1>. QED  BY <1>1, WInit, WStep, PTL DEF Spec

(* For clients that each connect from one port, a 429 of Allow is never    *)
(* false: the client it answers had `Limit` requests let through in the    *)
(* current window.  Pruning keeps exactly the timestamps after the cutoff, *)
(* and the deny branch records nothing.                                    *)
THEOREM NoFalseRefusals ==
  ASSUME SinglePort PROVE Spec => []NoFalseRefusal
<1>1. WInv => NoFalseRefusal
  BY DEF WInv
<1>. QED  BY <1>1, WInit, WStep, PTL DEF Spec

=============================================================================

--------------------------- MODULE RoutingMapProofs ---------------------------
(***************************************************************************)
(* For any hash space, any partitions the service lists and any ranges     *)
(* asked for: a routing map that is used tiles the hash space, and the     *)
(* walk over it collects the partitions that matter, each once, and turns  *)
(* down no request it could serve.                                         *)
(***************************************************************************)
EXTENDS RoutingMap, FiniteSetTheorems, FunctionTheorems, WellFoundedInduction, TLAPS

-----------------------------------------------------------------------------
(* Least and greatest numbers *)

LEMMA LeastNumber ==
    ASSUME NEW T \in SUBSET Nat, T # {}
    PROVE  \E n \in T : \A m \in T : n <= m
  <1>1. PICK n \in T : \A m \in T : ~(<<m, n>> \in OpToRel(<, Nat))
    BY NatLessThanWellFounded, WFMin
  <1>2. \A m \in T : ~(m < n)
    BY <1>1 DEF OpToRel
  <1> QED BY <1>2

LEMMA MinOfNumbers ==
    ASSUME NEW T \in SUBSET Nat, T # {}
    PROVE  Min(T) \in T /\ \A m \in T : Min(T) <= m
  <1>1. \E n \in T : \A m \in T : n <= m
    BY LeastNumber
  <1>2. \E n \in T : \A m \in T : n =< m
    BY <1>1
  <1> QED BY <1>2, Zenon DEF Min

LEMMA MaxOfNumbers ==
    ASSUME NEW n \in Nat, NEW T \in SUBSET (0..n), T # {}
    PROVE  Max(T) \in T /\ \A m \in T : Max(T) >= m
  <1> DEFINE Mirror == {n - m : m \in T}
  <1>1. Mirror \in SUBSET Nat /\ Mirror # {}
    <2>1. \A m \in T : n - m \in Nat
      OBVIOUS
    <2>2. PICK m \in T : TRUE
      OBVIOUS
    <2>3. n - m \in Mirror
      OBVIOUS
    <2> QED BY <2>1, <2>3
  <1>2. PICK k \in Mirror : \A m \in Mirror : k <= m
    <2> HIDE DEF Mirror
    <2> QED BY <1>1, LeastNumber
  <1>3. PICK t \in T : k = n - t
    OBVIOUS
  <1>4. \A m \in T : n - t <= n - m
    BY <1>2, <1>3
  <1>5. \A m \in T : t >= m
    BY <1>4
  <1>6. \E x \in T : \A m \in T : x >= m
    BY <1>5
  <1> QED BY <1>6, Zenon DEF Max

-----------------------------------------------------------------------------
(* Partitions in order *)

LEMMA RangeBounds ==
    /\ Top \in Nat /\ Top > 0
    /\ \A p \in PartitionKeyRanges :
           p.min \in Nat /\ p.max \in Nat /\ p.min < p.max /\ p.max <= Top
    /\ \A r \in QueryRanges :
           /\ r.min \in Nat /\ r.max \in Nat /\ r.min <= r.max /\ r.max <= Top
           /\ r.isMinInclusive \in BOOLEAN /\ r.isMaxInclusive \in BOOLEAN
  BY TopAssumption DEF PartitionKeyRanges, QueryRanges, Bounds

LEMMA RangesAreFinite ==
    ASSUME NEW ranges \in SUBSET PartitionKeyRanges
    PROVE  IsFiniteSet(ranges) /\ Cardinality(ranges) \in Nat
  <1> DEFINE ends == [p \in ranges |-> <<p.min, p.max>>]
             Ends == Bounds \X Bounds
  <1>1. IsFiniteSet(Bounds)
    BY TopAssumption, FS_Interval DEF Bounds
  <1>2. IsFiniteSet(Ends)
    BY <1>1, FS_Product
  <1>3. ends \in [ranges -> Ends]
    BY DEF PartitionKeyRanges
  <1>4. \A p, q \in ranges : ends[p] = ends[q] => p = q
    <2> SUFFICES ASSUME NEW p \in ranges, NEW q \in ranges, ends[p] = ends[q]
                 PROVE  p = q
      OBVIOUS
    <2>1. p.min = q.min /\ p.max = q.max
      OBVIOUS
    <2>2. p = [min |-> p.min, max |-> p.max] /\ q = [min |-> q.min, max |-> q.max]
      BY DEF PartitionKeyRanges
    <2> QED BY <2>1, <2>2
  <1>5. ends \in Injection(ranges, Ends)
    BY <1>3, <1>4, Fun_IsInj
  <1> HIDE DEF ends, Ends
  <1>6. IsFiniteSet(ranges)
    BY <1>2, <1>5, FS_Injection
  <1> QED BY <1>6, FS_CardinalityType

Before(r, ranges) == {q \in ranges : ComesBefore(q, r)}

LEMMA PlaceOf ==
    ASSUME NEW ranges \in SUBSET PartitionKeyRanges, NEW r \in ranges
    PROVE  /\ IsFiniteSet(Before(r, ranges)) /\ Cardinality(Before(r, ranges)) \in Nat
           /\ Place(r, ranges) = 1 + Cardinality(Before(r, ranges))
           /\ Place(r, ranges) \in 1..Cardinality(ranges)
  <1>1. IsFiniteSet(ranges) /\ Cardinality(ranges) \in Nat
    BY RangesAreFinite
  <1>2. Before(r, ranges) \in SUBSET ranges /\ r \notin Before(r, ranges)
    BY RangeBounds DEF Before, ComesBefore
  <1>3. /\ IsFiniteSet(Before(r, ranges))
        /\ Cardinality(Before(r, ranges)) <= Cardinality(ranges)
        /\ Cardinality(Before(r, ranges)) # Cardinality(ranges)
    BY <1>1, <1>2, FS_Subset
  <1>4. Cardinality(Before(r, ranges)) \in Nat
    BY <1>3, FS_CardinalityType
  <1>5. Place(r, ranges) = 1 + Cardinality(Before(r, ranges))
    BY DEF Place, Before
  <1> QED BY <1>1, <1>3, <1>4, <1>5

LEMMA PlaceIsStrict ==
    ASSUME NEW ranges \in SUBSET PartitionKeyRanges, NEW p \in ranges, NEW q \in ranges,
           ComesBefore(p, q)
    PROVE  Place(p, ranges) < Place(q, ranges)
  <1>1. Before(p, ranges) \in SUBSET Before(q, ranges)
    BY RangeBounds DEF Before, ComesBefore
  <1>2. p \in Before(q, ranges) /\ p \notin Before(p, ranges)
    BY RangeBounds DEF Before, ComesBefore
  <1>3. IsFiniteSet(Before(q, ranges))
    BY PlaceOf
  <1>4. /\ Cardinality(Before(p, ranges)) <= Cardinality(Before(q, ranges))
        /\ Cardinality(Before(p, ranges)) # Cardinality(Before(q, ranges))
    BY <1>1, <1>2, <1>3, FS_Subset
  <1> QED BY <1>4, PlaceOf

\* Sorted lists the ranges, each once, in order.
LEMMA SortedLists ==
    ASSUME NEW ranges \in SUBSET PartitionKeyRanges
    PROVE  /\ Sorted(ranges) \in Seq(ranges)
           /\ \A r \in ranges : \E i \in 1..Len(Sorted(ranges)) : Sorted(ranges)[i] = r
           /\ \A i, j \in 1..Len(Sorted(ranges)) :
                  i < j => ComesBefore(Sorted(ranges)[i], Sorted(ranges)[j])
  <1> DEFINE n == Cardinality(ranges)
             place == [r \in ranges |-> Place(r, ranges)]
             s == Sorted(ranges)
  <1>1. IsFiniteSet(ranges) /\ n \in Nat
    BY RangesAreFinite
  <1>2. place \in [ranges -> 1..n]
    <2>1. \A r \in ranges : Place(r, ranges) \in 1..n
      BY PlaceOf
    <2> QED BY <2>1
  <1>3. ASSUME NEW p \in ranges, NEW q \in ranges, p # q
        PROVE  Place(p, ranges) # Place(q, ranges)
    <2>1. p.min # q.min \/ p.max # q.max
      <3>1. p = [min |-> p.min, max |-> p.max] /\ q = [min |-> q.min, max |-> q.max]
        BY DEF PartitionKeyRanges
      <3> QED BY <1>3, <3>1
    <2>2. ComesBefore(p, q) \/ ComesBefore(q, p)
      BY <2>1, RangeBounds DEF ComesBefore
    <2>3. Place(p, ranges) \in 1..n /\ Place(q, ranges) \in 1..n
      BY PlaceOf
    <2>4. Place(p, ranges) < Place(q, ranges) \/ Place(q, ranges) < Place(p, ranges)
      BY <2>2, PlaceIsStrict
    <2> QED BY <1>1, <2>3, <2>4
  <1>4. place \in Injection(ranges, 1..n)
    BY <1>2, <1>3, Fun_IsInj
  <1>5. IsFiniteSet(1..n) /\ Cardinality(1..n) = n
    BY <1>1, FS_Interval
  <1>6. place \in Surjection(ranges, 1..n)
    BY <1>1, <1>4, <1>5, FS_Injection
  <1>7. \A i \in 1..n : \E r \in ranges : place[r] = i
    <2> HIDE DEF place, n
    <2> QED BY <1>6 DEF Surjection
  <1>8. \A i \in 1..n : \E r \in ranges : Place(r, ranges) = i
    BY <1>7
  <1> HIDE DEF place
  <1>9. s = [i \in 1..n |-> CHOOSE r \in ranges : Place(r, ranges) = i]
    BY DEF Sorted
  <1>10. \A i \in 1..n : s[i] \in ranges /\ Place(s[i], ranges) = i
    BY <1>8, <1>9
  <1>11. s \in Seq(ranges) /\ Len(s) = n
    BY <1>1, <1>9, <1>10
  <1> HIDE DEF s
  <1>12. \A r \in ranges : \E i \in 1..n : s[i] = r
    <2> SUFFICES ASSUME NEW r \in ranges PROVE \E i \in 1..n : s[i] = r
      OBVIOUS
    <2> DEFINE i == Place(r, ranges)
    <2>1. i \in 1..n
      BY PlaceOf
    <2>2. s[i] \in ranges /\ Place(s[i], ranges) = Place(r, ranges)
      BY <1>10, <2>1
    <2> QED BY <1>3, <2>1, <2>2
  <1>13. ASSUME NEW i \in 1..n, NEW j \in 1..n, i < j PROVE ComesBefore(s[i], s[j])
    <2> DEFINE p == s[i]
               q == s[j]
    <2>1. p \in ranges /\ q \in ranges /\ Place(p, ranges) = i /\ Place(q, ranges) = j
      BY <1>10
    <2> HIDE DEF p, q
    <2>2. p.min # q.min \/ p.max # q.max
      <3>1. p = [min |-> p.min, max |-> p.max] /\ q = [min |-> q.min, max |-> q.max]
        BY <2>1 DEF PartitionKeyRanges
      <3>2. p # q
        BY <1>1, <1>13, <2>1
      <3> QED BY <3>1, <3>2
    <2>3. ComesBefore(p, q) \/ ComesBefore(q, p)
      BY <2>1, <2>2, RangeBounds DEF ComesBefore
    <2>4. ComesBefore(q, p) => j < i
      BY <2>1, PlaceIsStrict
    <2>5. ComesBefore(p, q)
      BY <1>1, <1>13, <2>3, <2>4
    <2> QED BY <2>5 DEF p, q
  <1> QED BY <1>11, <1>12, <1>13 DEF s

-----------------------------------------------------------------------------
(* A routing map *)

Complete(map) == map \in Seq(PartitionKeyRanges) /\ isCompleteSetOfRange(map)

LEMMA CompleteFacts ==
    ASSUME NEW map, Complete(map)
    PROVE  /\ Len(map) \in Nat /\ Len(map) > 0 /\ DOMAIN map = 1..Len(map)
           /\ \A i \in 1..Len(map) :
                  /\ map[i] \in PartitionKeyRanges
                  /\ map[i].min \in Nat /\ map[i].max \in Nat
                  /\ map[i].min < map[i].max /\ map[i].max <= Top
           /\ map[1].min = 0 /\ map[Len(map)].max = Top
           /\ \A i \in 2..Len(map) : map[i - 1].max = map[i].min
  <1>1. /\ map \in Seq(PartitionKeyRanges) /\ map # <<>>
        /\ map[1].min = 0 /\ map[Len(map)].max = Top
        /\ \A i \in 2..Len(map) : map[i - 1].max = map[i].min
    BY DEF Complete, isCompleteSetOfRange, Adjacent
  <1>2. Len(map) \in Nat /\ Len(map) > 0 /\ DOMAIN map = 1..Len(map)
        /\ \A i \in 1..Len(map) : map[i] \in PartitionKeyRanges
    BY <1>1
  <1> QED BY <1>1, <1>2, RangeBounds

\* The ranges of a map come one after the other.
LEMMA MapIsOrdered ==
    ASSUME NEW map, Complete(map), NEW i \in 1..Len(map), NEW j \in 1..Len(map), i < j
    PROVE  map[i].max <= map[j].min
  <1> DEFINE Wrong == {k \in 1..Len(map) : i < k /\ ~(map[i].max <= map[k].min)}
  <1>0. i \in Nat /\ Len(map) \in Nat
    BY CompleteFacts
  <1>1. ASSUME Wrong # {} PROVE FALSE
    <2>1. Wrong \in SUBSET Nat
      OBVIOUS
    <2>2. PICK k \in Wrong : \A m \in Wrong : k <= m
      <3> HIDE DEF Wrong
      <3> QED BY <1>1, <2>1, LeastNumber
    <2>3. /\ k \in 2..Len(map) /\ k - 1 \in 1..Len(map) /\ k \in 1..Len(map)
          /\ i < k /\ ~(map[i].max <= map[k].min)
      BY <1>0
    <2>4. map[k - 1].max = map[k].min /\ map[k - 1].min < map[k - 1].max
          /\ map[k - 1].min \in Nat /\ map[k].min \in Nat /\ map[i].max \in Nat
      BY <2>3, CompleteFacts
    <2>5. k - 1 \notin Wrong
      <3> HIDE DEF Wrong
      <3> QED BY <2>2, <2>3
    <2>6. i # k - 1
      BY <2>3, <2>4
    <2>7. map[i].max <= map[k - 1].min
      BY <1>0, <2>3, <2>5, <2>6
    <2> QED BY <2>3, <2>4, <2>7
  <1> QED BY <1>1

\* Each point of the hash space is in one range, and in no other.
LEMMA PointIsInOne ==
    ASSUME NEW map, Complete(map), NEW x \in Points
    PROVE  \E i \in 1..Len(map) :
               /\ 2 * map[i].min <= x /\ x < 2 * map[i].max
               /\ \A j \in 1..Len(map) :
                      2 * map[j].min <= x /\ x < 2 * map[j].max => j = i
  <1> DEFINE Far == {k \in 1..Len(map) : x < 2 * map[k].max}
  <1>0. /\ Len(map) \in Nat /\ Len(map) > 0
        /\ \A k \in 1..Len(map) : map[k].min \in Nat /\ map[k].max \in Nat
        /\ map[1].min = 0 /\ map[Len(map)].max = Top
        /\ \A k \in 2..Len(map) : map[k - 1].max = map[k].min
        /\ x \in Nat /\ x < 2 * Top /\ Top \in Nat
    <2>1. Top \in Nat /\ x \in Nat /\ x < 2 * Top
      BY RangeBounds DEF Points
    <2> QED BY <2>1, CompleteFacts
  <1>1. Far \in SUBSET Nat /\ Len(map) \in Far
    BY <1>0
  <1>2. PICK i \in Far : \A m \in Far : i <= m
    <2> HIDE DEF Far
    <2> QED BY <1>1, LeastNumber
  <1>3. i \in 1..Len(map) /\ x < 2 * map[i].max
    OBVIOUS
  <1>4. 2 * map[i].min <= x
    <2>1. CASE i = 1
      BY <1>0, <2>1
    <2>2. CASE i # 1
      <3>1. i \in 2..Len(map) /\ i - 1 \in 1..Len(map)
        BY <1>0, <1>3, <2>2
      <3>2. i - 1 \notin Far
        <4> HIDE DEF Far
        <4> QED BY <1>0, <1>2, <1>3
      <3>3. ~(x < 2 * map[i - 1].max)
        BY <3>1, <3>2
      <3> QED BY <1>0, <3>1, <3>3, SMTT(30)
    <2> QED BY <2>1, <2>2
  <1>5. ASSUME NEW j \in 1..Len(map), 2 * map[j].min <= x, x < 2 * map[j].max
        PROVE  j = i
    <2>1. j < i => map[j].max <= map[i].min
      BY <1>3, MapIsOrdered
    <2>2. i < j => map[i].max <= map[j].min
      BY <1>3, MapIsOrdered
    <2>3. i \in Nat /\ j \in Nat
      BY <1>0, <1>3
    <2>4. map[i].min \in Nat /\ map[i].max \in Nat
          /\ map[j].min \in Nat /\ map[j].max \in Nat
      BY <1>0, <1>3
    <2>5. ~(j < i)
      BY <1>0, <1>4, <1>5, <2>1, <2>4, SMTT(30)
    <2>6. ~(i < j)
      BY <1>0, <1>3, <1>5, <2>2, <2>4, SMTT(30)
    <2> QED BY <2>3, <2>5, <2>6
  <1> QED BY <1>3, <1>4, <1>5

LEMMA HeldByPartition ==
    ASSUME NEW p \in PartitionKeyRanges, NEW x \in Int
    PROVE  Holds(AsQueryRange(p), x) <=> (2 * p.min <= x /\ x < 2 * p.max)
  BY RangeBounds DEF Holds, AsQueryRange

LEMMA HeldByRange ==
    ASSUME NEW r \in QueryRanges, NEW x \in Int
    PROVE  /\ Holds(r, x) => 2 * r.min <= x /\ x <= 2 * r.max
           /\ Holds(r, x) /\ x = 2 * r.max => r.isMaxInclusive
           /\ Holds(r, x) /\ x = 2 * r.min => r.isMinInclusive
           /\ 2 * r.min < x /\ x < 2 * r.max => Holds(r, x)
           /\ isEmpty(r) => ~Holds(r, x)
  BY RangeBounds DEF Holds, isEmpty

-----------------------------------------------------------------------------
(* The ranges that overlap a query range *)

\* The partition ends after the start of the range, and starts before its end.
Meets(p, r) ==
    /\ r.min < p.max
    /\ p.min < r.max \/ (p.min = r.max /\ r.isMaxInclusive)

LEMMA OverlapsMeets ==
    ASSUME NEW p \in PartitionKeyRanges, NEW r \in QueryRanges, ~isEmpty(r)
    PROVE  /\ Meets(p, r) => overlaps(r, AsQueryRange(p))
           /\ overlaps(r, AsQueryRange(p)) =>
                  /\ r.min # p.max
                  /\ p.min = r.max => r.isMaxInclusive
  BY RangeBounds DEF Meets, overlaps, isEmpty, AsQueryRange

LEMMA MinIndexFacts ==
    ASSUME NEW map, Complete(map), NEW r \in QueryRanges
    PROVE  /\ MinIndex(map, r) \in 1..Len(map)
           /\ map[MinIndex(map, r)].min <= r.min
           /\ \A i \in 1..Len(map) : map[i].min <= r.min => i <= MinIndex(map, r)
  <1> DEFINE Low == {0} \union {i \in DOMAIN map :
                        AtMost(map[i].min, FALSE, r.min, ~r.isMinInclusive)}
             m == MinIndex(map, r)
             n == Len(map)
  <1>1. /\ n \in Nat /\ n > 0 /\ DOMAIN map = 1..n /\ map[1].min = 0
        /\ \A i \in 1..n : map[i].min \in Nat
        /\ r.min \in Nat
    BY CompleteFacts, RangeBounds
  <1>2. m = Max(Low)
    BY DEF MinIndex
  <1> HIDE DEF m
  <1>3. \A i \in 1..n : i \in Low <=> map[i].min <= r.min
    BY <1>1 DEF AtMost
  <1>4. Low \in SUBSET (0..n) /\ 0 \in Low
    <2>1. \A k \in Low : k = 0 \/ k \in 1..n
      BY <1>1
    <2>2. 0 \in Low
      OBVIOUS
    <2> HIDE DEF Low, n
    <2> QED BY <1>1, <2>1, <2>2
  <1> HIDE DEF Low, n
  <1>5. m \in Low /\ \A k \in Low : m >= k
    BY <1>1, <1>2, <1>4, MaxOfNumbers
  <1>6. 1 \in Low
    BY <1>1, <1>3
  <1>7. m \in 1..n
    BY <1>1, <1>4, <1>5, <1>6
  <1>8. \A i \in 1..n : map[i].min <= r.min => i <= m
    BY <1>1, <1>3, <1>5, <1>7
  <1>9. map[m].min <= r.min
    BY <1>3, <1>5, <1>7
  <1> QED BY <1>7, <1>8, <1>9 DEF m, n

LEMMA MaxIndexFacts ==
    ASSUME NEW map, Complete(map), NEW r \in QueryRanges
    PROVE  /\ MaxIndex(map, r) \in Nat
           /\ \A i \in 1..Len(map) :
                  r.max < map[i].max \/ (r.max = map[i].max /\ ~r.isMaxInclusive)
                  => MaxIndex(map, r) <= i
           /\ MaxIndex(map, r) <= Len(map) =>
                  /\ MaxIndex(map, r) \in 1..Len(map)
                  /\ \/ r.max < map[MaxIndex(map, r)].max
                     \/ r.max = map[MaxIndex(map, r)].max /\ ~r.isMaxInclusive
  <1> DEFINE High == {Len(map) + 1} \union {i \in DOMAIN map :
                        AtMost(r.max, r.isMaxInclusive, map[i].max, FALSE)}
             m == MaxIndex(map, r)
             n == Len(map)
  <1>1. n \in Nat /\ DOMAIN map = 1..n
    BY CompleteFacts
  <1>2. m = Min(High)
    BY DEF MaxIndex
  <1> HIDE DEF m
  <1>3. \A i \in 1..n : i \in High <=>
            r.max < map[i].max \/ (r.max = map[i].max /\ ~r.isMaxInclusive)
    BY <1>1 DEF AtMost
  <1>4. High \in SUBSET Nat /\ n + 1 \in High /\ \A k \in High : k \in 1..(n + 1)
    <2>1. \A k \in High : k = n + 1 \/ k \in 1..n
      BY <1>1
    <2>2. n + 1 \in High
      OBVIOUS
    <2> HIDE DEF High, n
    <2> QED BY <1>1, <2>1, <2>2
  <1> HIDE DEF High, n
  <1>5. m \in High /\ \A k \in High : m <= k
    BY <1>2, <1>4, MinOfNumbers
  <1>6. m \in Nat /\ m \in 1..(n + 1)
    BY <1>4, <1>5
  <1>7. \A i \in 1..n : r.max < map[i].max \/ (r.max = map[i].max /\ ~r.isMaxInclusive)
            => m <= i
    BY <1>3, <1>5
  <1>8. m <= n => m \in 1..n
               /\ (r.max < map[m].max \/ (r.max = map[m].max /\ ~r.isMaxInclusive))
    BY <1>1, <1>3, <1>5, <1>6
  <1> QED BY <1>6, <1>7, <1>8 DEF m, n

\* Two searches and a filter find just the partitions that meet the range.
LEMMA WhatOverlaps ==
    ASSUME NEW map, Complete(map), NEW r \in QueryRanges, ~isEmpty(r),
           NEW i \in 1..Len(map)
    PROVE  (/\ i \in MinIndex(map, r)..MaxIndex(map, r)
            /\ overlaps(r, AsQueryRange(map[i])))
           <=> Meets(map[i], r)
  <1> DEFINE lo == MinIndex(map, r)
             hi == MaxIndex(map, r)
             n == Len(map)
             p == map[i]
  <1>1. /\ n \in Nat /\ n > 0
        /\ \A k \in 1..n : /\ map[k] \in PartitionKeyRanges
                           /\ map[k].min \in Nat /\ map[k].max \in Nat
                           /\ map[k].min < map[k].max /\ map[k].max <= Top
        /\ map[1].min = 0 /\ map[n].max = Top
        /\ \A k \in 2..n : map[k - 1].max = map[k].min
    BY CompleteFacts
  <1>2. /\ r.min \in Nat /\ r.max \in Nat /\ r.min <= r.max /\ r.max <= Top
        /\ r.isMinInclusive \in BOOLEAN /\ r.isMaxInclusive \in BOOLEAN
        /\ r.min = r.max => r.isMinInclusive /\ r.isMaxInclusive
    BY RangeBounds DEF isEmpty
  <1>3. /\ lo \in 1..n /\ map[lo].min <= r.min
        /\ \A k \in 1..n : map[k].min <= r.min => k <= lo
    BY MinIndexFacts
  <1>4. /\ hi \in Nat
        /\ \A k \in 1..n :
               r.max < map[k].max \/ (r.max = map[k].max /\ ~r.isMaxInclusive) => hi <= k
        /\ hi <= n => /\ hi \in 1..n
                      /\ r.max < map[hi].max \/ (r.max = map[hi].max /\ ~r.isMaxInclusive)
    BY MaxIndexFacts
  <1>5. \A k \in 1..n : k < i => map[k].max <= p.min
    BY MapIsOrdered
  <1>6. \A k \in 1..n : i < k => p.max <= map[k].min
    BY MapIsOrdered
  <1> HIDE DEF lo, hi, n
  <1>7. ASSUME Meets(p, r) PROVE i \in lo..hi /\ overlaps(r, AsQueryRange(p))
    <2>0. /\ r.min < p.max
          /\ p.min < r.max \/ (p.min = r.max /\ r.isMaxInclusive)
      BY <1>7 DEF Meets
    <2>1. overlaps(r, AsQueryRange(p))
      BY <1>1, <1>7, OverlapsMeets DEF n
    <2>2. ~(i < lo)
      <3>1. i < lo => p.max <= map[lo].min
        BY <1>3, <1>6
      <3> QED BY <1>1, <1>2, <1>3, <2>0, <3>1 DEF n
    <2>3. ~(hi < i)
      <3>1. hi < i => hi \in 1..n
        BY <1>1, <1>4 DEF n
      <3>2. hi < i => map[hi].max <= p.min
        BY <1>5, <3>1
      <3> QED BY <1>1, <1>2, <1>4, <2>0, <3>1, <3>2 DEF n
    <2>4. i \in Nat /\ lo \in Nat
      BY <1>3
    <2> QED BY <1>4, <2>1, <2>2, <2>3, <2>4
  <1>8. ASSUME i \in lo..hi, overlaps(r, AsQueryRange(p)) PROVE Meets(p, r)
    <2>0. i \in 1..n /\ p \in PartitionKeyRanges
      BY <1>1 DEF n
    <2>1. r.min # p.max /\ (p.min = r.max => r.isMaxInclusive)
      BY <1>8, <2>0, OverlapsMeets
    <2>2. r.min < p.max
      <3>1. CASE i = n
        BY <1>1, <1>2, <2>0, <2>1, <3>1
      <3>2. CASE i # n
        <4>1. i + 1 \in 2..n /\ i + 1 \in 1..n /\ (i + 1) - 1 = i
          BY <1>1, <2>0, <3>2
        <4>2. map[i + 1].min = p.max
          BY <1>1, <4>1
        <4>3. ~(i + 1 <= lo)
          BY <1>3, <1>8, <2>0
        <4> QED BY <1>1, <1>2, <1>3, <2>0, <2>1, <4>1, <4>2, <4>3
      <3> QED BY <3>1, <3>2
    <2>3. p.min <= r.max
      <3>1. CASE i = 1
        BY <1>1, <1>2, <3>1
      <3>2. CASE i # 1
        <4>1. i \in 2..n /\ i - 1 \in 1..n
          BY <1>1, <2>0, <3>2
        <4>2. map[i - 1].max = p.min
          BY <1>1, <4>1
        <4>3. ~(hi <= i - 1)
          BY <1>4, <1>8, <2>0
        <4> QED BY <1>1, <1>2, <1>4, <2>0, <4>1, <4>2, <4>3
      <3> QED BY <3>1, <3>2
    <2> QED BY <1>1, <1>2, <2>0, <2>1, <2>2, <2>3 DEF Meets
  <1> QED BY <1>7, <1>8 DEF lo, hi, n

LEMMA PointMeets ==
    ASSUME NEW p \in PartitionKeyRanges, NEW r \in QueryRanges, NEW x \in Int,
           Holds(r, x), 2 * p.min <= x, x < 2 * p.max
    PROVE  Meets(p, r)
  <1>1. /\ p.min \in Nat /\ p.max \in Nat /\ r.min \in Nat /\ r.max \in Nat
    BY RangeBounds
  <1>2. /\ 2 * r.min <= x /\ x <= 2 * r.max /\ (x = 2 * r.max => r.isMaxInclusive)
    BY HeldByRange
  <1> QED BY <1>1, <1>2 DEF Meets

LEMMA MeetsInAPoint ==
    ASSUME NEW p \in PartitionKeyRanges, NEW r \in QueryRanges, ~isEmpty(r), Meets(p, r)
    PROVE  \E x \in Points : Holds(r, x) /\ Holds(AsQueryRange(p), x)
  <1>1. /\ p.min \in Nat /\ p.max \in Nat /\ p.min < p.max /\ p.max <= Top /\ Top \in Nat
        /\ r.min \in Nat /\ r.max \in Nat /\ r.min <= r.max
        /\ r.min = r.max => r.isMinInclusive /\ r.isMaxInclusive
    BY RangeBounds DEF isEmpty
  <1>2. /\ r.min < p.max
        /\ p.min < r.max \/ (p.min = r.max /\ r.isMaxInclusive)
    BY DEF Meets
  <1>3. ASSUME NEW x \in Nat, 2 * p.min <= x, x < 2 * p.max, Holds(r, x)
        PROVE  \E y \in Points : Holds(r, y) /\ Holds(AsQueryRange(p), y)
    <2>1. x \in Points
      BY <1>1, <1>3 DEF Points
    <2>2. Holds(AsQueryRange(p), x)
      BY <1>3, HeldByPartition
    <2> QED BY <1>3, <2>1, <2>2
  <1>4. CASE r.min = r.max
    <2>1. Holds(r, 2 * r.min)
      BY <1>1, <1>4 DEF Holds
    <2>2. 2 * p.min <= 2 * r.min /\ 2 * r.min < 2 * p.max /\ 2 * r.min \in Nat
      BY <1>1, <1>2, <1>4
    <2> QED BY <1>3, <2>1, <2>2
  <1>5. CASE r.min < r.max /\ p.min = r.max
    <2>1. Holds(r, 2 * r.max)
      BY <1>1, <1>2, <1>5 DEF Holds
    <2>2. 2 * p.min <= 2 * r.max /\ 2 * r.max < 2 * p.max /\ 2 * r.max \in Nat
      BY <1>1, <1>5
    <2> QED BY <1>3, <2>1, <2>2
  <1>6. CASE r.min < r.max /\ p.min < r.max /\ p.min <= r.min
    <2>1. Holds(r, 2 * r.min + 1)
      BY <1>1, <1>6 DEF Holds
    <2>2. 2 * p.min <= 2 * r.min + 1 /\ 2 * r.min + 1 < 2 * p.max /\ 2 * r.min + 1 \in Nat
      BY <1>1, <1>2, <1>6
    <2> QED BY <1>3, <2>1, <2>2
  <1>7. CASE r.min < r.max /\ p.min < r.max /\ r.min < p.min
    <2>1. Holds(r, 2 * p.min)
      BY <1>1, <1>7 DEF Holds
    <2>2. 2 * p.min <= 2 * p.min /\ 2 * p.min < 2 * p.max /\ 2 * p.min \in Nat
      BY <1>1
    <2> QED BY <1>3, <2>1, <2>2
  <1> QED BY <1>1, <1>2, <1>4, <1>5, <1>6, <1>7

\* Whoever holds the last point of a range ends no earlier than it.
LEMMA LastPoint ==
    ASSUME NEW r \in QueryRanges, ~isEmpty(r), r.min < Top
    PROVE  \E x \in Points : Holds(r, x) /\ x >= 2 * r.max - 1
  <1>1. /\ Top \in Nat /\ Top > 0 /\ r.min \in Nat /\ r.max \in Nat
        /\ r.min <= r.max /\ r.max <= Top
        /\ r.min = r.max => r.isMinInclusive /\ r.isMaxInclusive
    BY RangeBounds DEF isEmpty
  <1>2. CASE r.min = r.max
    <2>1. Holds(r, 2 * r.max)
      BY <1>1, <1>2 DEF Holds
    <2>2. 2 * r.max \in Points /\ 2 * r.max >= 2 * r.max - 1
      BY <1>1, <1>2 DEF Points
    <2> QED BY <2>1, <2>2
  <1>3. CASE r.min < r.max
    <2>1. Holds(r, 2 * r.max - 1)
      BY <1>1, <1>3 DEF Holds
    <2>2. 2 * r.max - 1 \in Points /\ 2 * r.max - 1 >= 2 * r.max - 1
      BY <1>1, <1>3 DEF Points
    <2> QED BY <2>1, <2>2
  <1> QED BY <1>1, <1>2, <1>3

OneAfterTheOther(ps) == \A k, l \in 1..Len(ps) : k < l => ps[k].max <= ps[l].min

LEMMA LastIsTheLast ==
    ASSUME NEW ps \in Seq(PartitionKeyRanges), OneAfterTheOther(ps), ps # <<>>
    PROVE  /\ Last(ps) = ps[Len(ps)] /\ Len(ps) \in 1..Len(ps)
           /\ Last(ps) \in PartitionKeyRanges
           /\ \A k \in 1..Len(ps) : ps[k].max <= Last(ps).max
  <1>1. Len(ps) \in Nat /\ Len(ps) \in 1..Len(ps) /\ Last(ps) = ps[Len(ps)]
    BY DEF Last
  <1>2. \A k \in 1..Len(ps) : ps[k] \in PartitionKeyRanges
    OBVIOUS
  <1>3. ASSUME NEW k \in 1..Len(ps) PROVE ps[k].max <= Last(ps).max
    <2>1. ps[k].max \in Nat /\ Last(ps).min \in Nat /\ Last(ps).max \in Nat
          /\ Last(ps).min < Last(ps).max
      BY <1>1, <1>2, RangeBounds
    <2>2. CASE k = Len(ps)
      BY <1>1, <2>1, <2>2
    <2>3. CASE k < Len(ps)
      <3>1. ps[k].max <= ps[Len(ps)].min
        BY <1>1, <2>3 DEF OneAfterTheOther
      <3> QED BY <1>1, <2>1, <3>1
    <2> QED BY <1>1, <2>2, <2>3
  <1> QED BY <1>1, <1>2, <1>3

\* What a map finds for a range: the partitions that meet it, one after the other,
\* and all of the range is in them.
FindsAll(map, r, found) ==
    /\ found \in Seq(PartitionKeyRanges)
    /\ \A k \in 1..Len(found) :
           \E i \in 1..Len(map) : found[k] = map[i] /\ Meets(map[i], r)
    /\ \A i \in 1..Len(map) :
           Meets(map[i], r) => \E k \in 1..Len(found) : found[k] = map[i]
    /\ OneAfterTheOther(found)
    /\ r.min < Top => found # <<>> /\ r.max <= Last(found).max

LEMMA OverlappingLists ==
    ASSUME NEW map, Complete(map), NEW r \in QueryRanges, ~isEmpty(r)
    PROVE  FindsAll(map, r, Overlapping(map, r))
  <1> DEFINE found == Overlapping(map, r)
  <1> DEFINE chosen == {i \in DOMAIN map : /\ i \in MinIndex(map, r)..MaxIndex(map, r)
                                           /\ overlaps(r, AsQueryRange(map[i]))}
             ranges == {map[j] : j \in chosen}
  <1>1. DOMAIN map = 1..Len(map) /\ \A i \in 1..Len(map) : map[i] \in PartitionKeyRanges
    BY CompleteFacts
  <1>2. \A i \in 1..Len(map) : i \in chosen <=> Meets(map[i], r)
    BY <1>1, WhatOverlaps
  <1>3. chosen \subseteq 1..Len(map)
    BY <1>1
  <1>4. found = Sorted(ranges)
    BY DEF Overlapping
  <1> HIDE DEF chosen, found
  <1>5. ranges \in SUBSET PartitionKeyRanges
    BY <1>1, <1>3
  <1>6. \A p \in ranges : \E i \in 1..Len(map) : p = map[i] /\ Meets(map[i], r)
    BY <1>2, <1>3
  <1>7. \A i \in 1..Len(map) : Meets(map[i], r) => map[i] \in ranges
    BY <1>2
  <1> HIDE DEF ranges
  <1>8. /\ found \in Seq(ranges)
        /\ \A p \in ranges : \E k \in 1..Len(found) : found[k] = p
        /\ \A k, l \in 1..Len(found) : k < l => ComesBefore(found[k], found[l])
    BY <1>4, <1>5, SortedLists
  <1>9. found \in Seq(PartitionKeyRanges) /\ Len(found) \in Nat
        /\ \A k \in 1..Len(found) : found[k] \in ranges
    BY <1>5, <1>8
  <1>10. \A k \in 1..Len(found) :
             \E i \in 1..Len(map) : found[k] = map[i] /\ Meets(map[i], r)
    BY <1>6, <1>9
  <1>11. ASSUME NEW k \in 1..Len(found), NEW l \in 1..Len(found), k < l
         PROVE  found[k].max <= found[l].min
    <2>1. PICK i \in 1..Len(map) : found[k] = map[i]
      BY <1>10
    <2>2. PICK j \in 1..Len(map) : found[l] = map[j]
      BY <1>10
    <2>3. ComesBefore(map[i], map[j])
      BY <1>8, <1>11, <2>1, <2>2
    <2>4. i # j
      <3>1. ~ComesBefore(map[j], map[j])
        BY <1>1, RangeBounds DEF ComesBefore
      <3> QED BY <2>3, <3>1
    <2>5. j < i => map[j].max <= map[i].min
      BY MapIsOrdered
    <2>6. ~(j < i)
      BY <1>1, <2>3, <2>5, RangeBounds DEF ComesBefore
    <2>7. i < j
      BY <2>4, <2>6, CompleteFacts
    <2> QED BY <2>1, <2>2, <2>7, MapIsOrdered
  <1>12. OneAfterTheOther(found)
    BY <1>11 DEF OneAfterTheOther
  <1>13. ASSUME r.min < Top PROVE found # <<>> /\ r.max <= Last(found).max
    <2>1. PICK x \in Points : Holds(r, x) /\ x >= 2 * r.max - 1
      BY <1>13, LastPoint
    <2>2. PICK i \in 1..Len(map) : 2 * map[i].min <= x /\ x < 2 * map[i].max
      BY PointIsInOne
    <2>3. x \in Int
      BY RangeBounds DEF Points
    <2>4. Meets(map[i], r)
      BY <1>1, <2>1, <2>2, <2>3, PointMeets
    <2>5. PICK k \in 1..Len(found) : found[k] = map[i]
      BY <1>7, <1>8, <2>4
    <2>6. found # <<>>
      BY <1>9, <2>5
    <2>7. map[i].max <= Last(found).max /\ Last(found) \in PartitionKeyRanges
      BY <1>9, <1>12, <2>5, <2>6, LastIsTheLast
    <2>8. r.max <= map[i].max
      <3>1. map[i].max \in Nat /\ r.max \in Nat
        BY <1>1, RangeBounds
      <3> QED BY <2>1, <2>2, <2>3, <3>1
    <2>9. r.max \in Nat /\ map[i].max \in Nat /\ Last(found).max \in Nat
      BY <1>1, <2>7, RangeBounds
    <2> QED BY <2>6, <2>7, <2>8, <2>9
  <1>14. \A i \in 1..Len(map) :
             Meets(map[i], r) => \E k \in 1..Len(found) : found[k] = map[i]
    BY <1>7, <1>8
  <1>15. FindsAll(map, r, found)
    BY <1>9, <1>10, <1>12, <1>13, <1>14 DEF FindsAll
  <1> QED BY <1>15 DEF found

-----------------------------------------------------------------------------
(* The ranges asked for *)

LEMMA RequestIsOrdered ==
    ASSUME NEW s \in Seq(QueryRanges), isSortedAndNonOverlapping(s),
           NEW i \in 1..Len(s), NEW j \in 1..Len(s), i < j
    PROVE  s[i].max <= s[j].min
  <1> DEFINE Wrong == {k \in 1..Len(s) : i < k /\ ~(s[i].max <= s[k].min)}
  <1>0. /\ i \in Nat /\ Len(s) \in Nat
        /\ \A k \in 1..Len(s) : s[k].min \in Nat /\ s[k].max \in Nat /\ s[k].min <= s[k].max
        /\ \A k \in 2..Len(s) : s[k - 1].max <= s[k].min
    <2>1. \A k \in 1..Len(s) : s[k] \in QueryRanges
      OBVIOUS
    <2> QED BY <2>1, RangeBounds DEF isSortedAndNonOverlapping, SecondRangeIsAfterFirstRange
  <1>1. ASSUME Wrong # {} PROVE FALSE
    <2>1. Wrong \in SUBSET Nat
      OBVIOUS
    <2>2. PICK k \in Wrong : \A m \in Wrong : k <= m
      <3> HIDE DEF Wrong
      <3> QED BY <1>1, <2>1, LeastNumber
    <2>3. /\ k \in 2..Len(s) /\ k - 1 \in 1..Len(s) /\ k \in 1..Len(s)
          /\ i < k /\ ~(s[i].max <= s[k].min)
      BY <1>0
    <2>4. k - 1 \notin Wrong
      <3> HIDE DEF Wrong
      <3> QED BY <2>2, <2>3
    <2>5. i # k - 1
      BY <1>0, <2>3
    <2>6. s[i].max <= s[k - 1].min
      BY <1>0, <2>3, <2>4, <2>5
    <2>7. /\ s[k - 1].min <= s[k - 1].max /\ s[k - 1].max <= s[k].min
          /\ s[i].max \in Nat /\ s[k].min \in Nat
          /\ s[k - 1].min \in Nat /\ s[k - 1].max \in Nat
      BY <1>0, <2>3
    <2> QED BY <2>3, <2>6, <2>7, SMTT(30)
  <1> QED BY <1>1

\* Two ranges in a row that are turned down are out of order, share a point, or one
\* is empty.
LEMMA TurnedDown ==
    ASSUME NEW s \in Seq(QueryRanges), ~isSortedAndNonOverlapping(s)
    PROVE  \/ \E i, j \in DOMAIN s : i < j /\
                 \/ s[i].max > s[j].min
                 \/ \E x \in 0..(2 * Top) : Holds(s[i], x) /\ Holds(s[j], x)
           \/ \E i \in DOMAIN s : isEmpty(s[i])
  <1>1. PICK j \in 2..Len(s) : ~SecondRangeIsAfterFirstRange(s[j - 1], s[j])
    BY DEF isSortedAndNonOverlapping
  <1> DEFINE i == j - 1
  <1>2. /\ i \in DOMAIN s /\ j \in DOMAIN s /\ i < j
        /\ s[i] \in QueryRanges /\ s[j] \in QueryRanges
    OBVIOUS
  <1> HIDE DEF i
  <1>3. \/ ~(s[i].max <= s[j].min)
        \/ s[i].max = s[j].min /\ s[i].isMaxInclusive /\ s[j].isMinInclusive
    BY <1>1 DEF i, SecondRangeIsAfterFirstRange
  <1>4. /\ s[i].max \in Nat /\ s[j].min \in Nat /\ s[i].min \in Nat /\ s[j].max \in Nat
        /\ s[i].min <= s[i].max /\ s[j].min <= s[j].max /\ s[i].max <= Top /\ Top \in Nat
    BY <1>2, RangeBounds
  <1>5. CASE ~(s[i].max <= s[j].min)
    BY <1>2, <1>4, <1>5
  <1>6. CASE s[i].max = s[j].min /\ s[i].isMaxInclusive /\ s[j].isMinInclusive
    <2> DEFINE x == 2 * s[i].max
    <2>1. x \in 0..(2 * Top)
      BY <1>4
    <2>2. ~isEmpty(s[i]) => Holds(s[i], x)
      BY <1>4, <1>6, SMTT(30) DEF isEmpty, Holds
    <2>3. ~isEmpty(s[j]) => Holds(s[j], x)
      BY <1>4, <1>6, SMTT(30) DEF isEmpty, Holds
    <2> QED BY <1>2, <2>1, <2>2, <2>3
  <1> QED BY <1>3, <1>5, <1>6

-----------------------------------------------------------------------------
(* One step of the walk *)

\* Partitions collected: of the map, each once, in order.
CollectedFrom(ps, map) ==
    /\ ps \in Seq(PartitionKeyRanges)
    /\ \A k \in 1..Len(ps) : \E i \in 1..Len(map) : ps[k] = map[i]
    /\ OneAfterTheOther(ps)

HeldBy(ps, x) == \E k \in 1..Len(ps) : Holds(AsQueryRange(ps[k]), x)

Asked(current, ps) == IF ps = <<>> THEN current ELSE subtractRange(current, Last(ps))

\* What is left of a range that is not covered is not empty, and misses only
\* points before the end of what was collected.
LEMMA AskedFacts ==
    ASSUME NEW ps \in Seq(PartitionKeyRanges), OneAfterTheOther(ps),
           NEW current \in QueryRanges, ~isEmpty(current),
           ps # <<>> => Last(ps).max < current.max
    PROVE  /\ Asked(current, ps) \in QueryRanges
           /\ ~isEmpty(Asked(current, ps))
           /\ Asked(current, ps).max = current.max
           /\ current.min < Top => Asked(current, ps).min < Top
           /\ current.min <= Asked(current, ps).min
           /\ ps # <<>> => /\ Last(ps).max <= Asked(current, ps).min
                           /\ Asked(current, ps).min \in {Last(ps).max, current.min}
           /\ \A x \in Int : Holds(Asked(current, ps), x) => Holds(current, x)
           /\ \A x \in Int : Holds(current, x) /\ ~Holds(Asked(current, ps), x)
                  => ps # <<>> /\ x <= 2 * Last(ps).max /\ x < 2 * current.max
  <1>1. CASE ps = <<>>
    BY <1>1, RangeBounds DEF Asked
  <1>2. CASE ps # <<>>
    <2> DEFINE last == Last(ps)
               end == last.max
               begin == current.min
               left == Max({end, begin})
               asked == Asked(current, ps)
    <2>1. last \in PartitionKeyRanges
      BY <1>2, LastIsTheLast
    <2>2. /\ end \in Nat /\ begin \in Nat /\ current.max \in Nat
          /\ begin <= current.max /\ current.max <= Top /\ end < current.max
          /\ current.isMinInclusive \in BOOLEAN /\ current.isMaxInclusive \in BOOLEAN
          /\ begin = current.max => current.isMinInclusive /\ current.isMaxInclusive
          /\ Top \in Nat
      BY <1>2, <2>1, RangeBounds DEF isEmpty
    <2>3. asked = [min |-> left, max |-> current.max,
                   isMinInclusive |-> IF left = begin THEN current.isMinInclusive ELSE FALSE,
                   isMaxInclusive |-> current.isMaxInclusive]
      BY <1>2 DEF Asked, subtractRange
    <2> HIDE DEF asked, end, begin
    <2>4. /\ left \in {end, begin}
          /\ \A m \in {end, begin} : left >= m
      <3>1. {end, begin} \in SUBSET (0..Top) /\ {end, begin} # {}
        BY <2>2
      <3> QED BY <2>2, <3>1, MaxOfNumbers
    <2>5. left \in Nat /\ left >= end /\ left >= begin /\ left <= current.max
          /\ (left = begin \/ left = end)
      BY <2>2, <2>4
    <2> HIDE DEF left
    <2>6. /\ asked.min = left /\ asked.max = current.max
          /\ asked.isMinInclusive = (IF left = begin THEN current.isMinInclusive ELSE FALSE)
          /\ asked.isMaxInclusive = current.isMaxInclusive
      BY <2>3
    <2>7. asked \in QueryRanges
      <3>1. left \in Bounds /\ current.max \in Bounds /\ left <= current.max
        BY <2>2, <2>5 DEF Bounds
      <3>2. /\ (IF left = begin THEN current.isMinInclusive ELSE FALSE) \in BOOLEAN
            /\ current.isMaxInclusive \in BOOLEAN
        BY <2>2
      <3>3. asked \in [min : Bounds, max : Bounds, isMinInclusive : BOOLEAN,
                       isMaxInclusive : BOOLEAN]
        BY <2>3, <3>1, <3>2, Zenon
      <3> QED BY <2>6, <3>1, <3>3 DEF QueryRanges
    <2>8. ~isEmpty(asked)
      BY <2>2, <2>5, <2>6 DEF isEmpty
    <2>9. \A x \in Int : Holds(asked, x) => Holds(current, x)
      BY <2>2, <2>5, <2>6 DEF Holds, begin
    <2>10. \A x \in Int : Holds(current, x) /\ ~Holds(asked, x)
               => x <= 2 * end /\ x < 2 * current.max
      BY <2>2, <2>5, <2>6 DEF Holds, begin
    <2> QED BY <1>2, <2>2, <2>5, <2>6, <2>7, <2>8, <2>9, <2>10 DEF asked, end, begin
  <1> QED BY <1>1, <1>2

\* Two sequences, one after the other.
LEMMA Joined ==
    ASSUME NEW S, NEW p \in Seq(S), NEW q \in Seq(S)
    PROVE  /\ Len(p) \in Nat /\ Len(q) \in Nat
           /\ p \o q \in Seq(S) /\ Len(p \o q) = Len(p) + Len(q)
           /\ \A k \in 1..Len(p) : (p \o q)[k] = p[k]
           /\ \A k \in 1..Len(q) : (p \o q)[Len(p) + k] = q[k]
           /\ \A k \in 1..(Len(p) + Len(q)) : k > Len(p) =>
                  k - Len(p) \in 1..Len(q) /\ (p \o q)[k] = q[k - Len(p)]
  <1>1. /\ Len(p) \in Nat /\ Len(q) \in Nat
        /\ p \o q \in Seq(S) /\ Len(p \o q) = Len(p) + Len(q)
    OBVIOUS
  <1>2. \A k \in 1..Len(p) : (p \o q)[k] = p[k]
    OBVIOUS
  <1>3. \A k \in 1..(Len(p) + Len(q)) : k > Len(p) =>
                k - Len(p) \in 1..Len(q) /\ (p \o q)[k] = q[k - Len(p)]
    OBVIOUS
  <1>4. \A k \in 1..Len(q) : (p \o q)[Len(p) + k] = q[k]
    OBVIOUS
  <1> QED BY <1>1, <1>2, <1>3, <1>4

\* One range is walked: what is known before its partitions are added to those
\* collected, and what holds of all after it.
WalksFrom(map, ps, current, found, all) ==
    /\ Complete(map) /\ CollectedFrom(ps, map)
    /\ current \in QueryRanges /\ ~isEmpty(current)
    /\ ps # <<>> => Last(ps).max < current.max /\ Last(ps).min <= current.min
    /\ found = Overlapping(map, Asked(current, ps))
    /\ all = ps \o found

Gathers(map, ps, current, found, all) ==
    /\ current.min < Top => found # <<>> /\ current.max <= Last(all).max
    /\ found # <<>> =>
           /\ CollectedFrom(all, map) /\ all # <<>>
           /\ current.min < Top
           /\ Last(all).min <= current.max
           /\ Len(ps) <= Len(all) /\ \A k \in 1..Len(ps) : all[k] = ps[k]
           /\ \A k \in 1..Len(all) : k > Len(ps) =>
                  \E x \in Points :
                      Holds(AsQueryRange(all[k]), x) /\ Holds(current, x)
           /\ \A x \in Points : Holds(current, x) => HeldBy(all, x)

\* One range is walked: if any partition is found all of it is, and each partition
\* found has a point of it.
LEMMA CollectFacts ==
    ASSUME NEW map, NEW ps, NEW current, NEW found, NEW all,
           WalksFrom(map, ps, current, found, all)
    PROVE  Gathers(map, ps, current, found, all)
  <1>0. /\ found = Overlapping(map, Asked(current, ps))
        /\ all = ps \o found
    BY DEF WalksFrom
  <1>00. /\ Complete(map) /\ CollectedFrom(ps, map)
         /\ current \in QueryRanges /\ ~isEmpty(current)
         /\ ps # <<>> => Last(ps).max < current.max /\ Last(ps).min <= current.min
    BY DEF WalksFrom
  <1> USE <1>00
  <1> DEFINE asked == Asked(current, ps)
             n == Len(ps)
             m == Len(found)
  <1>1. /\ ps \in Seq(PartitionKeyRanges) /\ OneAfterTheOther(ps)
        /\ \A k \in 1..n : \E i \in 1..Len(map) : ps[k] = map[i]
    BY DEF CollectedFrom
  <1>2. /\ asked \in QueryRanges /\ ~isEmpty(asked) /\ asked.max = current.max
        /\ current.min < Top => asked.min < Top
        /\ current.min <= asked.min
        /\ ps # <<>> => /\ Last(ps).max <= asked.min
                        /\ asked.min \in {Last(ps).max, current.min}
        /\ \A x \in Int : Holds(asked, x) => Holds(current, x)
        /\ \A x \in Int : Holds(current, x) /\ ~Holds(asked, x)
               => ps # <<>> /\ x <= 2 * Last(ps).max /\ x < 2 * current.max
    BY <1>1, AskedFacts
  <1>3. found = Overlapping(map, asked)
    BY <1>0
  <1> HIDE DEF asked
  <1>4. /\ found \in Seq(PartitionKeyRanges)
        /\ \A k \in 1..m : \E i \in 1..Len(map) : found[k] = map[i] /\ Meets(map[i], asked)
        /\ \A i \in 1..Len(map) : Meets(map[i], asked) => \E k \in 1..m : found[k] = map[i]
        /\ OneAfterTheOther(found)
        /\ asked.min < Top => found # <<>> /\ asked.max <= Last(found).max
    <2>1. Complete(map) /\ asked \in QueryRanges /\ ~isEmpty(asked)
      BY <1>2
    <2>2. FindsAll(map, asked, Overlapping(map, asked))
      <3> HIDE <1>00
      <3> QED BY <2>1, OverlappingLists
    <2>3. FindsAll(map, asked, found)
      BY <1>3, <2>2
    <2> QED BY <2>3 DEF FindsAll
  <1>5. /\ Len(all) = n + m /\ n \in Nat /\ m \in Nat
        /\ all \in Seq(PartitionKeyRanges)
        /\ \A k \in 1..n : all[k] = ps[k]
        /\ \A k \in 1..m : all[n + k] = found[k]
        /\ \A k \in 1..(n + m) : k > n => k - n \in 1..m /\ all[k] = found[k - n]
    BY <1>0, <1>1, <1>4, Joined DEF n, m
  <1>6. /\ \A k \in 1..n : ps[k] \in PartitionKeyRanges
        /\ \A k \in 1..m : found[k] \in PartitionKeyRanges
        /\ \A k \in 1..Len(map) : map[k] \in PartitionKeyRanges
    <2>1. \A k \in 1..Len(map) : map[k] \in PartitionKeyRanges
      BY CompleteFacts
    <2> QED BY <1>1, <1>4, <2>1
  <1>7. found # <<>> => Last(all) = Last(found) /\ all # <<>>
    BY <1>4, <1>5 DEF Last
  <1> HIDE DEF n, m
  <1>8. current.min < Top => found # <<>> /\ current.max <= Last(all).max
    BY <1>2, <1>4, <1>7
  <1>9. ASSUME found # <<>>
        PROVE  /\ CollectedFrom(all, map)
               /\ current.min < Top
               /\ Last(all).min <= current.max
               /\ \A k \in 1..Len(all) : k > n =>
                      \E x \in Points :
                          Holds(AsQueryRange(all[k]), x) /\ Holds(current, x)
               /\ \A x \in Points : Holds(current, x) => HeldBy(all, x)
    <2>1. ASSUME NEW k \in 1..n, NEW l \in 1..m PROVE ps[k].max <= found[l].min
      <3>1. PICK i \in 1..Len(map) : ps[k] = map[i]
        BY <1>1 DEF n
      <3>2. PICK j \in 1..Len(map) : found[l] = map[j] /\ Meets(map[j], asked)
        BY <1>4
      <3>3. ps[k].max <= Last(ps).max /\ ps # <<>> /\ Last(ps) \in PartitionKeyRanges
        <4>1. ps # <<>>
          BY <1>1, <2>1 DEF n
        <4> QED BY <1>1, <4>1, LastIsTheLast DEF n
      <3>4. map[i].max < map[j].max
        <4>1. asked.min < map[j].max
          BY <3>2 DEF Meets
        <4>2. /\ map[i].max \in Nat /\ map[j].max \in Nat
              /\ Last(ps).max \in Nat /\ asked.min \in Nat
          BY <1>2, <1>6, <3>3, RangeBounds
        <4> QED BY <1>2, <3>1, <3>3, <4>1, <4>2
      <3>5. /\ i \in Nat /\ j \in Nat /\ map[i].max \in Nat /\ map[j].max \in Nat
            /\ map[i].min \in Nat /\ map[i].min < map[i].max
        BY <1>6, RangeBounds, CompleteFacts
      <3>6. i # j
        BY <3>4, <3>5
      <3>7. j < i => map[j].max <= map[i].min
        BY MapIsOrdered
      <3>8. i < j
        BY <3>4, <3>5, <3>6, <3>7
      <3> QED BY <3>1, <3>2, <3>8, MapIsOrdered
    <2>2. CollectedFrom(all, map)
      <3>1. ASSUME NEW k \in 1..Len(all) PROVE \E i \in 1..Len(map) : all[k] = map[i]
        <4>1. CASE k \in 1..n
          BY <1>1, <1>5, <4>1 DEF n
        <4>2. CASE k > n
          <5>1. k - n \in 1..m /\ all[k] = found[k - n]
            BY <1>5, <4>2
          <5> QED BY <1>4, <5>1
        <4> QED BY <1>5, <4>1, <4>2
      <3>2. ASSUME NEW k \in 1..Len(all), NEW l \in 1..Len(all), k < l
            PROVE  all[k].max <= all[l].min
        <4>1. CASE l \in 1..n
          <5>1. k \in 1..n
            BY <1>5, <3>2, <4>1
          <5>2. ps[k].max <= ps[l].min
            BY <1>1, <3>2, <4>1, <5>1 DEF OneAfterTheOther, n
          <5> QED BY <1>5, <4>1, <5>1, <5>2
        <4>2. CASE l > n /\ k \in 1..n
          <5>1. l - n \in 1..m /\ all[l] = found[l - n]
            BY <1>5, <4>2
          <5> QED BY <1>5, <2>1, <4>2, <5>1
        <4>3. CASE l > n /\ k > n
          <5>1. /\ l - n \in 1..m /\ all[l] = found[l - n]
                /\ k - n \in 1..m /\ all[k] = found[k - n] /\ k - n < l - n
            BY <1>5, <3>2, <4>3
          <5>2. found[k - n].max <= found[l - n].min
            BY <1>4, <5>1 DEF OneAfterTheOther, m
          <5> QED BY <5>1, <5>2
        <4> QED BY <1>5, <4>1, <4>2, <4>3
      <3> QED BY <1>5, <3>1, <3>2 DEF CollectedFrom, OneAfterTheOther
    <2>3. ASSUME NEW l \in 1..m
          PROVE  /\ found[l] \in PartitionKeyRanges /\ Meets(found[l], asked)
                 /\ asked.min < found[l].max /\ found[l].min <= asked.max
      <3>1. found[l] \in PartitionKeyRanges /\ Meets(found[l], asked)
        BY <1>4, <1>6
      <3> QED BY <1>2, <3>1, RangeBounds DEF Meets
    <2>4. Len(found) \in 1..m /\ Last(found) = found[Len(found)]
      BY <1>4, <1>9 DEF Last, m
    <2>5. current.min < Top
      <3>1. asked.min < Last(found).max /\ Last(found) \in PartitionKeyRanges
        BY <2>3, <2>4
      <3> QED BY <1>2, <3>1, RangeBounds
    <2>6. Last(all).min <= current.max
      BY <1>2, <1>7, <1>9, <2>3, <2>4
    <2>7. ASSUME NEW k \in 1..Len(all), k > n
          PROVE  \E x \in Points : Holds(AsQueryRange(all[k]), x) /\ Holds(current, x)
      <3>1. k - n \in 1..m /\ all[k] = found[k - n]
        BY <1>5, <2>7
      <3>2. all[k] \in PartitionKeyRanges /\ Meets(all[k], asked)
        BY <2>3, <3>1
      <3>3. PICK x \in Points : Holds(asked, x) /\ Holds(AsQueryRange(all[k]), x)
        BY <1>2, <3>2, MeetsInAPoint
      <3>4. x \in Int
        BY RangeBounds DEF Points
      <3> QED BY <1>2, <3>3, <3>4
    <2>8. ASSUME NEW x \in Points, Holds(current, x) PROVE HeldBy(all, x)
      <3>0. x \in Int /\ Top \in Nat
        BY RangeBounds DEF Points
      <3>1. PICK i \in 1..Len(map) : 2 * map[i].min <= x /\ x < 2 * map[i].max
        BY PointIsInOne
      <3>2. ASSUME Meets(map[i], asked) PROVE HeldBy(all, x)
        <4>1. PICK k \in 1..m : found[k] = map[i]
          BY <1>4, <3>2
        <4>2. n + k \in 1..Len(all) /\ all[n + k] = map[i]
          BY <1>5, <4>1, SMTT(30)
        <4>3. Holds(AsQueryRange(map[i]), x)
          BY <1>6, <3>0, <3>1, HeldByPartition
        <4> QED BY <4>2, <4>3 DEF HeldBy
      <3>3. CASE Holds(asked, x)
        <4>1. Meets(map[i], asked)
          BY <1>2, <1>6, <3>0, <3>1, <3>3, PointMeets
        <4> QED BY <3>2, <4>1
      <3>4. CASE ~Holds(asked, x)
        <4> DEFINE last == Last(ps)
        <4>1. ps # <<>> /\ x <= 2 * last.max /\ x < 2 * current.max
              /\ last.max <= asked.min
          BY <1>2, <2>8, <3>0, <3>4
        <4>2. last = ps[n] /\ n \in 1..n /\ last \in PartitionKeyRanges
          BY <1>1, <4>1, LastIsTheLast DEF n
        <4> HIDE DEF last
        <4>3. /\ last.min \in Nat /\ last.max \in Nat /\ asked.min \in Nat
              /\ map[i].max \in Nat /\ map[i].min \in Nat
              /\ current.min \in Nat /\ current.max \in Nat
          BY <1>2, <1>6, <4>2, RangeBounds
        <4>4. 2 * current.min <= x /\ last.min <= current.min
          BY <2>8, <3>0, <4>1, HeldByRange DEF last
        <4>5. CASE x < 2 * last.max
          <5>1. Holds(AsQueryRange(last), x)
            BY <3>0, <4>2, <4>3, <4>4, <4>5, HeldByPartition, SMTT(30)
          <5>2. n \in 1..Len(all) /\ all[n] = last
            BY <1>5, <4>2
          <5> QED BY <5>1, <5>2 DEF HeldBy
        <4>6. CASE x = 2 * last.max
          <5>1. last.max < map[i].max /\ map[i].min < current.max
            <6> DEFINE a == last.max
                       b == map[i].max
                       c == map[i].min
                       d == current.max
            <6>1. a \in Nat /\ b \in Nat /\ c \in Nat /\ d \in Nat
              BY <4>3
            <6>2. x = 2 * a /\ x < 2 * b /\ 2 * c <= x /\ x < 2 * d
              BY <3>1, <4>1, <4>6
            <6> HIDE DEF a, b, c, d
            <6>3. a < b /\ c < d
              BY <3>0, <6>1, <6>2
            <6> QED BY <6>3 DEF a, b, c, d
          <5>2. asked.min = last.max
            <6>1. asked.min = last.max \/ asked.min = current.min
              BY <1>2, <4>1 DEF last
            <6> QED BY <3>0, <4>1, <4>3, <4>4, <4>6, <6>1
          <5>3. Meets(map[i], asked)
            BY <1>2, <4>3, <5>1, <5>2 DEF Meets
          <5> QED BY <3>2, <5>3
        <4>7. x < 2 * last.max \/ x = 2 * last.max
          <5>1. x <= 2 * last.max
            BY <4>1
          <5> DEFINE a == last.max
          <5>2. a \in Nat /\ x \in Int /\ x <= 2 * a
            BY <3>0, <4>3, <5>1
          <5> HIDE DEF a
          <5>3. x < 2 * a \/ x = 2 * a
            BY <5>2
          <5> QED BY <5>3 DEF a
        <4> QED BY <4>5, <4>6, <4>7
      <3> QED BY <3>3, <3>4
    <2> QED BY <2>2, <2>5, <2>6, <2>7, <2>8
  <1>10. found # <<>> => all # <<>> /\ Len(ps) <= Len(all)
             /\ \A k \in 1..Len(ps) : all[k] = ps[k]
    BY <1>5, <1>7 DEF n
  <1> QED BY <1>8, <1>9, <1>10 DEF n, Gathers

-----------------------------------------------------------------------------
(* The invariant *)

\* What the ranges before the one looked at ask for is collected, but for the last
\* point of one that ends where a partition does.
CollectedSoFar(s, ps, n) ==
    \A i \in 1..Len(s) : i < n => \A x \in Points : Holds(s[i], x) =>
        \/ HeldBy(ps, x)
        \/ /\ s[i].isMaxInclusive /\ x = 2 * s[i].max
           /\ \E k \in 1..Len(ps) : ps[k].max = s[i].max

NoneInVain(s, ps) ==
    \A k \in 1..Len(ps) : \E j \in 1..Len(s), x \in Points :
        Holds(AsQueryRange(ps[k]), x) /\ Holds(s[j], x)

\* The range looked at starts no earlier than the last partition collected, and
\* ends after it.
OnTheWay(s, ps, n) ==
    /\ n \in 1..Len(s)
    /\ ps # <<>> => Last(ps).max < s[n].max /\ Last(ps).min <= s[n].min

WalkInv ==
    /\ state \in {"listed", "mapped", "walking", "done", "threw"}
    /\ listed \subseteq PartitionKeyRanges
    /\ sortedRanges \in Seq(QueryRanges)
    /\ index \in Nat
    /\ CollectedFrom(partitionKeyRanges, orderedRanges)
    /\ state \in {"listed", "mapped"} => sortedRanges = <<>> /\ partitionKeyRanges = <<>>
    /\ state \in {"mapped", "walking", "done"} => Complete(orderedRanges)
    /\ state \in {"walking", "done"} =>
           /\ isSortedAndNonOverlapping(sortedRanges)
           /\ CollectedSoFar(sortedRanges, partitionKeyRanges, index)
           /\ NoneInVain(sortedRanges, partitionKeyRanges)
    /\ state = "walking" => OnTheWay(sortedRanges, partitionKeyRanges, index)
    /\ state = "done" => index > Len(sortedRanges)
    /\ OnlyBadRequestsThrow

-----------------------------------------------------------------------------
(* The steps *)

\* What a covered range asks for is in the last partition.
LEMMA CoveredIsCollected ==
    ASSUME NEW ps \in Seq(PartitionKeyRanges), OneAfterTheOther(ps), ps # <<>>,
           NEW r \in QueryRanges, Last(ps).min <= r.min, r.max <= Last(ps).max,
           NEW x \in Points, Holds(r, x)
    PROVE  \/ HeldBy(ps, x)
           \/ /\ r.isMaxInclusive /\ x = 2 * r.max
              /\ \E k \in 1..Len(ps) : ps[k].max = r.max
  <1> DEFINE last == Last(ps)
  <1>1. last \in PartitionKeyRanges /\ last = ps[Len(ps)] /\ Len(ps) \in 1..Len(ps)
    BY LastIsTheLast
  <1>2. x \in Int
    BY RangeBounds DEF Points
  <1>3. /\ 2 * r.min <= x /\ x <= 2 * r.max /\ (x = 2 * r.max => r.isMaxInclusive)
    BY <1>2, HeldByRange
  <1>4. last.min <= r.min /\ r.max <= last.max
    OBVIOUS
  <1> HIDE DEF last
  <1> DEFINE a == last.min
             b == last.max
             c == r.min
             d == r.max
  <1>5. a \in Nat /\ b \in Nat /\ c \in Nat /\ d \in Nat
    BY <1>1, RangeBounds
  <1>6. 2 * c <= x /\ x <= 2 * d /\ a <= c /\ d <= b
    BY <1>3, <1>4
  <1> HIDE DEF a, b, c, d
  <1>7. 2 * a <= x /\ (x < 2 * b \/ (x = 2 * d /\ b = d))
    BY <1>2, <1>5, <1>6
  <1>8. CASE x < 2 * b
    <2>1. Holds(AsQueryRange(last), x)
      BY <1>1, <1>2, <1>7, <1>8, HeldByPartition DEF a, b
    <2> QED BY <1>1, <2>1 DEF HeldBy
  <1>9. CASE x = 2 * d /\ b = d
    <2>1. x = 2 * r.max /\ last.max = r.max
      BY <1>9 DEF b, d
    <2> QED BY <1>1, <1>3, <2>1
  <1> QED BY <1>7, <1>8, <1>9

\* The next range that is not covered, and those before it, which are.
LEMMA NextIndexFacts ==
    ASSUME sortedRanges \in Seq(QueryRanges), NEW i \in 1..Len(sortedRanges), NEW last,
           NEW next, next = NextIndex(i, last)
    PROVE  /\ next \in Nat /\ i < next /\ next <= Len(sortedRanges) + 1
           /\ next <= Len(sortedRanges) =>
                  next \in 1..Len(sortedRanges) /\ ~(sortedRanges[next].max <= last.max)
           /\ \A j \in 1..Len(sortedRanges) :
                  i < j /\ j < next => sortedRanges[j].max <= last.max
  <1> DEFINE n == Len(sortedRanges)
             Open == {j \in DOMAIN sortedRanges : j > i /\ ~CoveredBy(sortedRanges[j], last)}
             T == {n + 1} \union Open
  <1>1. n \in Nat /\ DOMAIN sortedRanges = 1..n /\ i \in 1..n
    OBVIOUS
  <1>2. next = Min(T)
    BY DEF NextIndex
  <1>3. \A j \in 1..n : j \in Open <=> j > i /\ ~(sortedRanges[j].max <= last.max)
    BY DEF CoveredBy
  <1>4. \A j \in Open : j \in 1..n
    BY <1>1
  <1> HIDE DEF Open, n
  <1>5. T \in SUBSET Nat /\ T # {}
    BY <1>1, <1>4
  <1>6. next \in T /\ \A m \in T : next <= m
    <2> HIDE DEF T
    <2> QED BY <1>2, <1>5, MinOfNumbers
  <1>7. next = n + 1 \/ next \in Open
    BY <1>6
  <1>8. next <= n + 1 /\ \A m \in Open : next <= m
    BY <1>6
  <1>9. next \in Nat /\ i < next /\ (next <= n => next \in 1..n /\ next \in Open)
    BY <1>1, <1>3, <1>4, <1>7
  <1>10. ASSUME NEW j \in 1..n, i < j, j < next PROVE sortedRanges[j].max <= last.max
    <2>1. j \notin Open
      BY <1>1, <1>8, <1>9, <1>10
    <2> QED BY <1>1, <1>3, <1>10, <2>1
  <1> QED BY <1>3, <1>8, <1>9, <1>10 DEF n

LEMMA CreateStep ==
    ASSUME WalkInv, CreateRoutingMap
    PROVE  WalkInv'
  <1>1. /\ state = "listed" /\ orderedRanges' = Sorted(listed)
        /\ state' = IF isCompleteSetOfRange(Sorted(listed)) THEN "mapped" ELSE "threw"
        /\ UNCHANGED <<listed, sortedRanges, index, partitionKeyRanges>>
    BY DEF CreateRoutingMap
  <1>2. /\ listed \in SUBSET PartitionKeyRanges
        /\ sortedRanges = <<>> /\ partitionKeyRanges = <<>> /\ index \in Nat
    BY <1>1 DEF WalkInv
  <1>3. Sorted(listed) \in Seq(PartitionKeyRanges)
    <2>1. Sorted(listed) \in Seq(listed)
      BY <1>2, SortedLists
    <2> QED BY <1>2, <2>1
  <1>4. state' = "mapped" => Complete(orderedRanges)'
    BY <1>1, <1>3 DEF Complete
  <1>5. CollectedFrom(partitionKeyRanges, orderedRanges)'
    BY <1>1, <1>2 DEF CollectedFrom, OneAfterTheOther
  <1>6. OnlyBadRequestsThrow'
    BY <1>1, <1>2 DEF OnlyBadRequestsThrow
  <1>7. sortedRanges' = <<>> /\ sortedRanges' \in Seq(QueryRanges)
        /\ partitionKeyRanges' = <<>> /\ state' \in {"mapped", "threw"}
    BY <1>1, <1>2
  <1> QED BY <1>1, <1>2, <1>4, <1>5, <1>6, <1>7 DEF WalkInv

LEMMA GetStep ==
    ASSUME WalkInv, GetOverlappingRanges
    PROVE  WalkInv'
  <1>1. PICK ranges \in Requests :
            /\ sortedRanges' = ranges
            /\ index' = 1
            /\ state' = IF ~isSortedAndNonOverlapping(ranges) THEN "threw"
                        ELSE IF ranges = <<>> THEN "done" ELSE "walking"
    BY DEF GetOverlappingRanges
  <1>2. state = "mapped" /\ UNCHANGED <<listed, orderedRanges, partitionKeyRanges>>
    BY DEF GetOverlappingRanges
  <1>3. /\ ranges \in Seq(QueryRanges) /\ Len(ranges) \in Nat
        /\ partitionKeyRanges = <<>> /\ Complete(orderedRanges)
        /\ CollectedFrom(partitionKeyRanges, orderedRanges)
        /\ listed \subseteq PartitionKeyRanges
    BY <1>2, InputAssumption DEF WalkInv
  <1>4. Complete(orderedRanges)' /\ CollectedFrom(partitionKeyRanges, orderedRanges)'
    BY <1>2, <1>3
  <1>5. CollectedSoFar(sortedRanges, partitionKeyRanges, index)'
    <2>1. \A i \in 1..Len(ranges) : ~(i < 1)
      BY <1>3
    <2> QED BY <1>1, <2>1 DEF CollectedSoFar
  <1>6. NoneInVain(sortedRanges, partitionKeyRanges)'
    BY <1>2, <1>3 DEF NoneInVain
  <1>7. state' = "walking" => OnTheWay(sortedRanges, partitionKeyRanges, index)'
    <2>1. ranges # <<>> => 1 \in 1..Len(ranges)
      BY <1>3
    <2> QED BY <1>1, <1>2, <1>3, <2>1 DEF OnTheWay
  <1>8. state' \in {"walking", "done"} => isSortedAndNonOverlapping(sortedRanges)'
    BY <1>1
  <1>9. state' = "done" => index' > Len(sortedRanges)'
    BY <1>1
  <1>10. OnlyBadRequestsThrow'
    <2> SUFFICES ASSUME state' = "threw" PROVE OnlyBadRequestsThrow'
      BY DEF OnlyBadRequestsThrow
    <2>1. ~isSortedAndNonOverlapping(ranges)
      BY <1>1
    <2>2. \/ \E i, j \in DOMAIN ranges : i < j /\
                \/ ranges[i].max > ranges[j].min
                \/ \E x \in 0..(2 * Top) : Holds(ranges[i], x) /\ Holds(ranges[j], x)
          \/ \E i \in DOMAIN ranges : isEmpty(ranges[i])
      BY <1>3, <2>1, TurnedDown
    <2> QED BY <1>1, <2>2 DEF OnlyBadRequestsThrow
  <1> QED BY <1>1, <1>2, <1>3, <1>4, <1>5, <1>6, <1>7, <1>8, <1>9, <1>10 DEF WalkInv

\* Where the walk is now, and that it goes on to range n.
LEMMA GoesOn ==
    ASSUME WalkInv, state = "walking", UNCHANGED <<listed, orderedRanges, sortedRanges>>,
           NEW n, n \in Nat, GoTo(n), n <= Len(sortedRanges) + 1,
           CollectedFrom(partitionKeyRanges', orderedRanges),
           CollectedSoFar(sortedRanges, partitionKeyRanges', n),
           NoneInVain(sortedRanges, partitionKeyRanges'),
           n <= Len(sortedRanges) => OnTheWay(sortedRanges, partitionKeyRanges', n)
    PROVE  WalkInv'
  <1>1. /\ index' = n
        /\ state' = IF n > Len(sortedRanges) THEN "done" ELSE "walking"
    BY DEF GoTo
  <1>2. /\ listed \subseteq PartitionKeyRanges /\ sortedRanges \in Seq(QueryRanges)
        /\ Complete(orderedRanges) /\ isSortedAndNonOverlapping(sortedRanges)
        /\ Len(sortedRanges) \in Nat
    BY DEF WalkInv
  <1>3. /\ CollectedFrom(partitionKeyRanges, orderedRanges)' /\ Complete(orderedRanges)'
        /\ CollectedSoFar(sortedRanges, partitionKeyRanges, index)'
        /\ NoneInVain(sortedRanges, partitionKeyRanges)'
        /\ isSortedAndNonOverlapping(sortedRanges)'
    BY <1>1, <1>2
  <1>4. state' = "walking" => OnTheWay(sortedRanges, partitionKeyRanges, index)'
    BY <1>1, <1>2
  <1>5. state' = "done" => index' > Len(sortedRanges)'
    BY <1>1, <1>2
  <1>6. OnlyBadRequestsThrow'
    BY <1>1 DEF OnlyBadRequestsThrow
  <1>7. state' \in {"walking", "done"}
    BY <1>1
  <1> QED BY <1>1, <1>2, <1>3, <1>4, <1>5, <1>6, <1>7 DEF WalkInv

\* The bounds of two ranges in a row.
LEMMA NextOfRequest ==
    ASSUME WalkInv, state = "walking",
           NEW j \in 1..Len(sortedRanges), index < j
    PROVE  /\ sortedRanges[index] \in QueryRanges /\ sortedRanges[j] \in QueryRanges
           /\ sortedRanges[index].max <= sortedRanges[j].min
           /\ sortedRanges[index].min \in Nat /\ sortedRanges[index].max \in Nat
           /\ sortedRanges[j].min \in Nat /\ sortedRanges[j].max \in Nat
           /\ sortedRanges[index].min <= sortedRanges[index].max
           /\ sortedRanges[j].min <= sortedRanges[j].max
  <1>1. /\ sortedRanges \in Seq(QueryRanges) /\ isSortedAndNonOverlapping(sortedRanges)
        /\ index \in 1..Len(sortedRanges)
    BY DEF WalkInv, OnTheWay
  <1>2. sortedRanges[index].max <= sortedRanges[j].min
    <2> DEFINE i == index
    <2>1. i \in 1..Len(sortedRanges) /\ i < j
      BY <1>1
    <2> HIDE DEF i
    <2>2. sortedRanges[i].max <= sortedRanges[j].min
      BY <1>1, <2>1, RequestIsOrdered
    <2> QED BY <2>2 DEF i
  <1>3. sortedRanges[index] \in QueryRanges /\ sortedRanges[j] \in QueryRanges
    BY <1>1
  <1> QED BY <1>2, <1>3, RangeBounds

LEMMA SkipStep ==
    ASSUME WalkInv, SkipEmptyRange
    PROVE  WalkInv'
  <1>1. /\ state = "walking" /\ isEmpty(sortedRanges[index]) /\ GoTo(index + 1)
        /\ UNCHANGED <<listed, orderedRanges, sortedRanges, partitionKeyRanges>>
    BY DEF SkipEmptyRange
  <1>2. /\ sortedRanges \in Seq(QueryRanges) /\ Len(sortedRanges) \in Nat
        /\ CollectedFrom(partitionKeyRanges, orderedRanges)
        /\ CollectedSoFar(sortedRanges, partitionKeyRanges, index)
        /\ NoneInVain(sortedRanges, partitionKeyRanges)
        /\ index \in 1..Len(sortedRanges)
        /\ partitionKeyRanges # <<>> =>
               /\ Last(partitionKeyRanges).max < sortedRanges[index].max
               /\ Last(partitionKeyRanges).min <= sortedRanges[index].min
    BY <1>1 DEF WalkInv, OnTheWay
  <1>3. sortedRanges[index] \in QueryRanges /\ index + 1 \in Nat
        /\ index + 1 <= Len(sortedRanges) + 1
    BY <1>2
  <1>4. CollectedSoFar(sortedRanges, partitionKeyRanges, index + 1)
    <2>1. \A x \in Points : ~Holds(sortedRanges[index], x)
      <3>1. \A x \in Points : x \in Int
        BY RangeBounds DEF Points
      <3> QED BY <1>1, <1>3, <3>1, HeldByRange
    <2>2. \A i \in 1..Len(sortedRanges) : i < index + 1 => i < index \/ i = index
      BY <1>2
    <2> QED BY <1>2, <2>1, <2>2 DEF CollectedSoFar
  <1>5. ASSUME index + 1 <= Len(sortedRanges)
        PROVE  OnTheWay(sortedRanges, partitionKeyRanges, index + 1)
    <2> DEFINE j == index + 1
    <2>1. j \in 1..Len(sortedRanges) /\ index < j
      BY <1>2, <1>5
    <2> HIDE DEF j
    <2>2. /\ sortedRanges[index].max <= sortedRanges[j].min
          /\ sortedRanges[index].min \in Nat /\ sortedRanges[index].max \in Nat
          /\ sortedRanges[j].min \in Nat /\ sortedRanges[j].max \in Nat
          /\ sortedRanges[index].min <= sortedRanges[index].max
          /\ sortedRanges[j].min <= sortedRanges[j].max
      BY <1>1, <2>1, NextOfRequest
    <2>3. ASSUME partitionKeyRanges # <<>>
          PROVE  /\ Last(partitionKeyRanges).max < sortedRanges[j].max
                 /\ Last(partitionKeyRanges).min <= sortedRanges[j].min
      <3>1. Last(partitionKeyRanges) \in PartitionKeyRanges
        <4> DEFINE ps == partitionKeyRanges
        <4>1. ps \in Seq(PartitionKeyRanges) /\ OneAfterTheOther(ps) /\ ps # <<>>
          BY <1>2, <2>3 DEF CollectedFrom
        <4> HIDE DEF ps
        <4>2. Last(ps) \in PartitionKeyRanges
          BY <4>1, LastIsTheLast
        <4> QED BY <4>2 DEF ps
      <3>2. Last(partitionKeyRanges).max \in Nat /\ Last(partitionKeyRanges).min \in Nat
        BY <3>1, RangeBounds
      <3> QED BY <1>2, <2>2, <2>3, <3>2
    <2> QED BY <2>1, <2>3 DEF OnTheWay, j
  <1> DEFINE n == index + 1
  <1>6. n \in Nat /\ n <= Len(sortedRanges) + 1 /\ GoTo(n)
    BY <1>1, <1>3
  <1>7. CollectedSoFar(sortedRanges, partitionKeyRanges', n)
        /\ (n <= Len(sortedRanges) => OnTheWay(sortedRanges, partitionKeyRanges', n))
        /\ CollectedFrom(partitionKeyRanges', orderedRanges)
        /\ NoneInVain(sortedRanges, partitionKeyRanges')
    BY <1>1, <1>2, <1>4, <1>5
  <1> HIDE DEF n
  <1> QED BY <1>1, <1>6, <1>7, GoesOn

\* A range is collected, or turned down because it begins where the hash space ends.
LEMMA CollectStep ==
    ASSUME WalkInv, CollectRange
    PROVE  WalkInv'
  <1> DEFINE s == sortedRanges
             ps == partitionKeyRanges
             current == s[index]
             found == Overlapping(orderedRanges, Asked(current, ps))
             all == ps \o found
             last == Last(all)
             n == NextIndex(index, last)
  <1>1. /\ state = "walking" /\ ~isEmpty(current)
        /\ UNCHANGED <<listed, orderedRanges, sortedRanges>>
        /\ IF found = <<>> \/ current.max > last.max
           THEN state' = "threw" /\ UNCHANGED <<index, partitionKeyRanges>>
           ELSE partitionKeyRanges' = all /\ GoTo(n)
    BY DEF CollectRange, Asked
  <1>2. /\ s \in Seq(QueryRanges) /\ Len(s) \in Nat
        /\ Complete(orderedRanges) /\ CollectedFrom(ps, orderedRanges)
        /\ CollectedSoFar(s, ps, index) /\ NoneInVain(s, ps)
        /\ index \in 1..Len(s)
        /\ ps # <<>> => Last(ps).max < current.max /\ Last(ps).min <= current.min
    BY <1>1 DEF WalkInv, OnTheWay
  <1>3. current \in QueryRanges
    BY <1>2
  <1>4. found = Overlapping(orderedRanges, Asked(current, ps)) /\ all = ps \o found
    OBVIOUS
  <1>5. last = Last(all) /\ n = NextIndex(index, last)
    OBVIOUS
  <1>6. ps = partitionKeyRanges /\ s = sortedRanges /\ current = s[index]
    OBVIOUS
  <1> HIDE DEF current, found, all, last, n, ps, s
  <1>7. /\ current.min < Top => found # <<>> /\ current.max <= Last(all).max
        /\ found # <<>> =>
               /\ CollectedFrom(all, orderedRanges) /\ all # <<>>
               /\ current.min < Top
               /\ Last(all).min <= current.max
               /\ Len(ps) <= Len(all) /\ \A k \in 1..Len(ps) : all[k] = ps[k]
               /\ \A k \in 1..Len(all) : k > Len(ps) =>
                      \E x \in Points :
                          Holds(AsQueryRange(all[k]), x) /\ Holds(current, x)
               /\ \A x \in Points : Holds(current, x) => HeldBy(all, x)
    <2> DEFINE map == orderedRanges
    <2>1. Complete(map) /\ CollectedFrom(ps, map)
      BY <1>2
    <2>2. found = Overlapping(map, Asked(current, ps))
      BY <1>4
    <2>3. all = ps \o found
      BY <1>4
    <2>4. ps # <<>> => Last(ps).max < current.max /\ Last(ps).min <= current.min
      BY <1>2
    <2>5. ~isEmpty(current)
      BY <1>1
    <2>6. WalksFrom(map, ps, current, found, all)
      BY <1>3, <2>1, <2>2, <2>3, <2>4, <2>5 DEF WalksFrom
    <2>7. Gathers(map, ps, current, found, all)
      <3> HIDE DEF map
      <3> QED BY <2>6, CollectFacts
    <2> QED BY <2>7 DEF map, Gathers
  <1>8. CASE found = <<>> \/ current.max > last.max
    <2>1. /\ state' = "threw"
          /\ UNCHANGED <<listed, orderedRanges, sortedRanges, index, partitionKeyRanges>>
      BY <1>1, <1>8
    <2>2. current.min = Top
      <3>1. ~(current.min < Top)
        <4>1. CASE found = <<>>
          BY <1>7, <4>1
        <4>2. CASE found # <<>> /\ current.max > last.max
          <5>1. last \in PartitionKeyRanges
            BY <1>5, <1>7, <4>2, LastIsTheLast DEF CollectedFrom
          <5>2. last.max \in Nat /\ current.max \in Nat
            BY <1>3, <5>1, RangeBounds
          <5> QED BY <1>5, <1>7, <4>2, <5>2
        <4> QED BY <1>8, <4>1, <4>2
      <3> QED BY <1>3, <3>1, RangeBounds
    <2>3. OnlyBadRequestsThrow'
      <3>1. index \in DOMAIN sortedRanges /\ sortedRanges[index].min = Top
        BY <1>2, <1>6, <2>2
      <3> QED BY <2>1, <3>1 DEF OnlyBadRequestsThrow
    <2>4. CollectedFrom(partitionKeyRanges, orderedRanges)'
      BY <1>2, <1>6, <2>1
    <2> QED BY <2>1, <2>3, <2>4 DEF WalkInv
  <1>9. CASE ~(found = <<>> \/ current.max > last.max)
    <2>1. partitionKeyRanges' = all /\ GoTo(n)
      BY <1>1, <1>9
    <2>2. /\ CollectedFrom(all, orderedRanges) /\ all # <<>>
          /\ last.min <= current.max
          /\ Len(ps) <= Len(all) /\ \A k \in 1..Len(ps) : all[k] = ps[k]
          /\ \A k \in 1..Len(all) : k > Len(ps) =>
                 \E x \in Points : Holds(AsQueryRange(all[k]), x) /\ Holds(current, x)
          /\ \A x \in Points : Holds(current, x) => HeldBy(all, x)
      BY <1>5, <1>7, <1>9
    <2>3. /\ all \in Seq(PartitionKeyRanges) /\ OneAfterTheOther(all)
          /\ ps \in Seq(PartitionKeyRanges)
          /\ Len(ps) \in Nat /\ Len(all) \in Nat
      BY <1>2, <2>2 DEF CollectedFrom
    <2>4. last \in PartitionKeyRanges
      BY <1>5, <2>2, <2>3, LastIsTheLast
    <2>5. last.min \in Nat /\ last.max \in Nat
      BY <2>4, RangeBounds
    <2>6. /\ n \in Nat /\ index < n /\ n <= Len(s) + 1
          /\ n <= Len(s) => n \in 1..Len(s) /\ ~(s[n].max <= last.max)
          /\ \A j \in 1..Len(s) : index < j /\ j < n => s[j].max <= last.max
      <3> DEFINE i == index
      <3>1. i \in 1..Len(sortedRanges) /\ sortedRanges \in Seq(QueryRanges)
            /\ n = NextIndex(i, last)
        BY <1>2, <1>5, <1>6
      <3> HIDE DEF i
      <3>2. /\ n \in Nat /\ i < n /\ n <= Len(sortedRanges) + 1
            /\ n <= Len(sortedRanges) =>
                   n \in 1..Len(sortedRanges) /\ ~(sortedRanges[n].max <= last.max)
            /\ \A j \in 1..Len(sortedRanges) :
                   i < j /\ j < n => sortedRanges[j].max <= last.max
        BY <3>1, NextIndexFacts
      <3> QED BY <1>6, <3>2 DEF i
    <2>7. ASSUME NEW j \in 1..Len(s), index < j
          PROVE  /\ s[j] \in QueryRanges /\ s[j].min \in Nat /\ s[j].max \in Nat
                 /\ last.min <= s[j].min
      <3>1. /\ s[j] \in QueryRanges
            /\ current.max <= s[j].min /\ current.max \in Nat
            /\ s[j].min \in Nat /\ s[j].max \in Nat
        BY <1>1, <1>6, <2>7, NextOfRequest
      <3> QED BY <2>2, <2>5, <3>1
    <2>8. \A x \in Points : HeldBy(ps, x) => HeldBy(all, x)
      <3>1. \A k \in 1..Len(ps) : k \in 1..Len(all) /\ all[k] = ps[k]
        BY <2>2, <2>3
      <3> QED BY <3>1 DEF HeldBy
    <2>9. CollectedSoFar(s, all, n)
      <3> SUFFICES ASSUME NEW i \in 1..Len(s), i < n, NEW x \in Points, Holds(s[i], x)
                   PROVE  \/ HeldBy(all, x)
                          \/ /\ s[i].isMaxInclusive /\ x = 2 * s[i].max
                             /\ \E k \in 1..Len(all) : all[k].max = s[i].max
        BY DEF CollectedSoFar
      <3>1. CASE i < index
        <4>1. \/ HeldBy(ps, x)
              \/ /\ s[i].isMaxInclusive /\ x = 2 * s[i].max
                 /\ \E k \in 1..Len(ps) : ps[k].max = s[i].max
          BY <1>2, <3>1 DEF CollectedSoFar
        <4>2. \A k \in 1..Len(ps) : k \in 1..Len(all) /\ all[k] = ps[k]
          BY <2>2, <2>3
        <4> QED BY <2>8, <4>1, <4>2
      <3>2. CASE i = index
        BY <1>6, <2>2, <3>2
      <3>3. CASE index < i
        <4>1. s[i] \in QueryRanges /\ last.min <= s[i].min
          BY <2>7, <3>3
        <4>2. s[i].max <= last.max
          BY <2>6, <3>3
        <4> QED BY <1>5, <2>2, <2>3, <4>1, <4>2, CoveredIsCollected
      <3> QED BY <1>2, <3>1, <3>2, <3>3
    <2>10. NoneInVain(s, all)
      <3> SUFFICES ASSUME NEW k \in 1..Len(all)
                   PROVE  \E j \in 1..Len(s), x \in Points :
                              Holds(AsQueryRange(all[k]), x) /\ Holds(s[j], x)
        BY DEF NoneInVain
      <3>1. CASE k \in 1..Len(ps)
        BY <1>2, <2>2, <3>1 DEF NoneInVain
      <3>2. CASE k > Len(ps)
        BY <1>2, <1>6, <2>2, <3>2
      <3> QED BY <2>3, <3>1, <3>2
    <2>11. n <= Len(s) => OnTheWay(s, all, n)
      <3> SUFFICES ASSUME n <= Len(s)
                   PROVE  n \in 1..Len(s) /\ last.max < s[n].max /\ last.min <= s[n].min
        BY <1>5 DEF OnTheWay
      <3>1. n \in 1..Len(s) /\ ~(s[n].max <= last.max) /\ index < n
        BY <2>6
      <3>2. last.min <= s[n].min /\ s[n].max \in Nat
        BY <2>7, <3>1
      <3> QED BY <2>5, <3>1, <3>2
    <2>12. /\ CollectedFrom(partitionKeyRanges', orderedRanges)
           /\ CollectedSoFar(sortedRanges, partitionKeyRanges', n)
           /\ NoneInVain(sortedRanges, partitionKeyRanges')
           /\ n <= Len(sortedRanges) => OnTheWay(sortedRanges, partitionKeyRanges', n)
           /\ n <= Len(sortedRanges) + 1
      BY <1>6, <2>1, <2>2, <2>6, <2>9, <2>10, <2>11
    <2> QED BY <1>1, <2>1, <2>6, <2>12, GoesOn
  <1> QED BY <1>8, <1>9

-----------------------------------------------------------------------------
(* The theorems *)

\* The invariant of the walk: what is collected is of the map, in order and each
\* once, all of what was walked is in it, and each of it was asked for.
THEOREM WalkInvariant == Spec => []WalkInv
  <1>1. Init => WalkInv
    <2> SUFFICES ASSUME Init PROVE WalkInv
      OBVIOUS
    <2>1. /\ listed \in Listings /\ state = "listed" /\ orderedRanges = <<>>
          /\ sortedRanges = <<>> /\ index = 1 /\ partitionKeyRanges = <<>>
      BY DEF Init
    <2>2. listed \subseteq PartitionKeyRanges
      BY <2>1, InputAssumption
    <2>3. CollectedFrom(partitionKeyRanges, orderedRanges)
      BY <2>1 DEF CollectedFrom, OneAfterTheOther
    <2> QED BY <2>1, <2>2, <2>3 DEF WalkInv, OnlyBadRequestsThrow
  <1>2. WalkInv /\ [Next]_vars => WalkInv'
    <2> SUFFICES ASSUME WalkInv, [Next]_vars PROVE WalkInv'
      OBVIOUS
    <2>1. CASE CreateRoutingMap
      BY <2>1, CreateStep
    <2>2. CASE GetOverlappingRanges
      BY <2>2, GetStep
    <2>3. CASE SkipEmptyRange
      BY <2>3, SkipStep
    <2>4. CASE CollectRange
      BY <2>4, CollectStep
    <2>5. CASE UNCHANGED vars
      BY <2>5 DEF vars, WalkInv, OnlyBadRequestsThrow
    <2> QED BY <2>1, <2>2, <2>3, <2>4, <2>5 DEF Next
  <1> QED BY <1>1, <1>2, PTL DEF Spec

\* A routing map is used only if each point of the hash space is in exactly one of
\* its ranges (createCompleteRoutingMap), for any listing of the service.
THEOREM UsedMapsTile == Spec => []MapsTileTheHashSpace
  <1>1. WalkInv => MapsTileTheHashSpace
    <2> SUFFICES ASSUME WalkInv, state \in {"mapped", "walking", "done"}, NEW x \in Points
                 PROVE  Cardinality({i \in DOMAIN orderedRanges :
                            Holds(AsQueryRange(orderedRanges[i]), x)}) = 1
      BY DEF MapsTileTheHashSpace
    <2> DEFINE map == orderedRanges
    <2>1. Complete(map)
      BY DEF WalkInv
    <2> HIDE DEF map
    <2>2. PICK i \in 1..Len(map) :
              /\ 2 * map[i].min <= x /\ x < 2 * map[i].max
              /\ \A j \in 1..Len(map) :
                     2 * map[j].min <= x /\ x < 2 * map[j].max => j = i
      BY <2>1, PointIsInOne
    <2>3. DOMAIN map = 1..Len(map) /\ \A j \in 1..Len(map) : map[j] \in PartitionKeyRanges
      BY <2>1, CompleteFacts
    <2>4. x \in Int
      BY RangeBounds DEF Points
    <2>5. \A j \in 1..Len(map) :
              Holds(AsQueryRange(map[j]), x) <=> (2 * map[j].min <= x /\ x < 2 * map[j].max)
      BY <2>3, <2>4, HeldByPartition
    <2>6. {j \in DOMAIN map : Holds(AsQueryRange(map[j]), x)} = {i}
      BY <2>2, <2>3, <2>5
    <2>7. Cardinality({j \in DOMAIN map : Holds(AsQueryRange(map[j]), x)}) = 1
      BY <2>6, FS_Singleton
    <2> QED BY <2>7 DEF map
  <1> QED BY <1>1, WalkInvariant, PTL

\* A query goes to the partitions that hold a point it asks for, and to no other.
THEOREM WhatIsAskedIsReached == Spec => []AskedAreReached
  <1>1. WalkInv => AskedAreReached
    <2> SUFFICES ASSUME WalkInv, state = "done" PROVE AskedAreReached
      BY DEF AskedAreReached
    <2>1. /\ sortedRanges \in Seq(QueryRanges) /\ Len(sortedRanges) \in Nat
          /\ partitionKeyRanges \in Seq(PartitionKeyRanges)
          /\ DOMAIN sortedRanges = 1..Len(sortedRanges)
          /\ DOMAIN partitionKeyRanges = 1..Len(partitionKeyRanges)
          /\ index > Len(sortedRanges) /\ index \in Nat
          /\ CollectedSoFar(sortedRanges, partitionKeyRanges, index)
          /\ NoneInVain(sortedRanges, partitionKeyRanges)
      BY DEF WalkInv, CollectedFrom
    <2>2. ASSUME NEW i \in DOMAIN sortedRanges, NEW x \in Points, Holds(sortedRanges[i], x)
          PROVE  Reached(x) \/ LastPointAtBoundary(sortedRanges[i], x)
      <3>1. i \in 1..Len(sortedRanges) /\ i < index
        BY <2>1
      <3>2. \/ HeldBy(partitionKeyRanges, x)
            \/ /\ sortedRanges[i].isMaxInclusive /\ x = 2 * sortedRanges[i].max
               /\ \E k \in 1..Len(partitionKeyRanges) :
                      partitionKeyRanges[k].max = sortedRanges[i].max
        BY <2>1, <2>2, <3>1 DEF CollectedSoFar
      <3> QED BY <2>1, <3>2 DEF Reached, HeldBy, LastPointAtBoundary
    <2>3. \A k \in DOMAIN partitionKeyRanges :
              \E j \in DOMAIN sortedRanges, x \in Points :
                  /\ Holds(AsQueryRange(partitionKeyRanges[k]), x)
                  /\ Holds(sortedRanges[j], x)
      BY <2>1 DEF NoneInVain
    <2> QED BY <2>2, <2>3 DEF AskedAreReached
  <1> QED BY <1>1, WalkInvariant, PTL

\* No row is read twice: partitions are collected in order of the hash space, each
\* once.
THEOREM PartitionsComeOnce == Spec => []NoPartitionTwice
  <1>1. WalkInv => NoPartitionTwice
    BY DEF WalkInv, CollectedFrom, OneAfterTheOther, NoPartitionTwice
  <1> QED BY <1>1, WalkInvariant, PTL

\* A request is turned down only if it is out of order, or asks for nothing or for
\* the end of the hash space.
THEOREM GoodRequestsAreServed == Spec => []OnlyBadRequestsThrow
  <1>1. WalkInv => OnlyBadRequestsThrow
    BY DEF WalkInv
  <1> QED BY <1>1, WalkInvariant, PTL
=============================================================================

------------------------------ MODULE RoutingMap ------------------------------
(***************************************************************************)
(* Which partitions a query goes to: the partition key ranges the service  *)
(* lists become a routing map if they tile the hash space                  *)
(* (CollectionRoutingMapFactory), and SmartRoutingMapProvider walks the    *)
(* sorted hash ranges of the query, asking the map for each of them less   *)
(* what the partitions already collected cover.                            *)
(*                                                                         *)
(* The bounds of ranges are hexadecimal strings, compared as strings; here *)
(* they are the numbers 0..Top, Top being "FF", which no hash reaches.     *)
(***************************************************************************)
EXTENDS Integers, Sequences, FiniteSets, SequencesExt, FiniteSetsExt

CONSTANTS
    Top,         \* MaximumExclusiveEffectivePartitionKey; the minimum is 0
    Listings,    \* what the service may list: sets of partition key ranges
    Requests     \* what may be asked for: sequences of query ranges

ASSUME TopAssumption == Top \in Nat \ {0}

Bounds == 0..Top

\* A partition key range holds its min and not its max.
PartitionKeyRanges == {r \in [min : Bounds, max : Bounds] : r.min < r.max}

QueryRanges ==
    {r \in [min : Bounds, max : Bounds, isMinInclusive : BOOLEAN,
            isMaxInclusive : BOOLEAN] : r.min <= r.max}

ASSUME InputAssumption ==
    /\ Listings \subseteq SUBSET PartitionKeyRanges
    /\ \A request \in Requests : request \in Seq(QueryRanges)

VARIABLES
    listed,             \* the ranges the service listed
    state,              \* "listed", "mapped", "walking", "done" or "threw"
    orderedRanges,      \* the routing map
    sortedRanges,       \* the ranges asked for
    index,              \* the one being looked at
    partitionKeyRanges  \* the partitions collected for them

vars == <<listed, state, orderedRanges, sortedRanges, index, partitionKeyRanges>>

-----------------------------------------------------------------------------
(* CollectionRoutingMapFactory *)

ComesBefore(a, b) == a.min < b.min \/ (a.min = b.min /\ a.max < b.max)
Place(r, ranges) == 1 + Cardinality({q \in ranges : ComesBefore(q, r)})

Sorted(ranges) ==
    [i \in 1..Cardinality(ranges) |-> CHOOSE r \in ranges : Place(r, ranges) = i]

Adjacent(ranges, i) == ranges[i - 1].max = ranges[i].min

\* A mutant: the last range need not end at the maximum.
StartsAndConnects(ranges) ==
    /\ ranges # <<>>
    /\ ranges[1].min = 0
    /\ \A i \in 2..Len(ranges) : Adjacent(ranges, i)

isCompleteSetOfRange(ranges) ==
    /\ ranges # <<>>
    /\ ranges[1].min = 0
    /\ ranges[Len(ranges)].max = Top
    /\ \A i \in 2..Len(ranges) : Adjacent(ranges, i)

-----------------------------------------------------------------------------
(* QueryRange and InMemoryCollectionRoutingMap *)

isEmpty(r) == ~(r.isMinInclusive /\ r.isMaxInclusive) /\ r.min = r.max

AsQueryRange(p) ==
    [min |-> p.min, max |-> p.max, isMinInclusive |-> TRUE, isMaxInclusive |-> FALSE]

\* The code joins the two comparisons with "or", so they never tell: only the
\* ends that touch do.
overlaps(r1, r2) ==
    /\ ~isEmpty(r1) /\ ~isEmpty(r2)
    /\ r1.min <= r2.max \/ r2.min <= r1.max
    /\ ~(r1.min = r2.max /\ ~(r1.isMinInclusive /\ r2.isMaxInclusive))
    /\ ~(r2.min = r1.max /\ ~(r2.isMinInclusive /\ r1.isMaxInclusive))

\* _vbCompareFunction: by value, and at one value FALSE before TRUE.
AtMost(v, b, w, c) == v < w \/ (v = w /\ (b => c))

\* The last range that starts at or before the query range (bs.le), and the
\* first that ends at or after it (bs.ge), one past the end if none does.
MinIndex(map, r) ==
    Max({0} \union {i \in DOMAIN map :
                        AtMost(map[i].min, FALSE, r.min, ~r.isMinInclusive)})
MaxIndex(map, r) ==
    Min({Len(map) + 1} \union {i \in DOMAIN map :
                        AtMost(r.max, r.isMaxInclusive, map[i].max, FALSE)})

\* The overlapping ranges of one query range that is not empty, in order.
Overlapping(map, r) ==
    Sorted({map[j] : j \in {i \in DOMAIN map :
                /\ i \in MinIndex(map, r)..MaxIndex(map, r)
                /\ overlaps(r, AsQueryRange(map[i]))}})

-----------------------------------------------------------------------------
(* SmartRoutingMapProvider *)

\* A mutant: ranges that touch are taken for overlapping.
StrictlyAfter(r1, r2) == r1.max < r2.min

SecondRangeIsAfterFirstRange(r1, r2) ==
    /\ r1.max <= r2.min
    /\ ~(r1.max = r2.min /\ r1.isMaxInclusive /\ r2.isMinInclusive)

isSortedAndNonOverlapping(ranges) ==
    \A i \in 2..Len(ranges) : SecondRangeIsAfterFirstRange(ranges[i - 1], ranges[i])

\* A mutant: the part that is covered is not taken off.
WholeRange(r, p) == r

subtractRange(r, p) ==
    LET left == Max({p.max, r.min})
    IN [min |-> left, max |-> r.max,
        isMinInclusive |-> IF left = r.min THEN r.isMinInclusive ELSE FALSE,
        isMaxInclusive |-> r.isMaxInclusive]

\* A mutant: a range that starts in what is covered is taken for covered.
StartsCovered(r, last) == r.min <= last.max

\* Ranges that end where the last partition does are covered too.
CoveredBy(r, last) == r.max <= last.max

\* Where the walk goes on after range i: past those the last partition covers.
NextIndex(i, last) ==
    Min({Len(sortedRanges) + 1} \union
        {j \in DOMAIN sortedRanges : j > i /\ ~CoveredBy(sortedRanges[j], last)})

GoTo(i) ==
    /\ index' = i
    /\ state' = IF i > Len(sortedRanges) THEN "done" ELSE "walking"

-----------------------------------------------------------------------------

\* onCollectionRoutingMap.  A list with overlaps throws; for a list with gaps
\* there is no map, and its first use throws.
CreateRoutingMap ==
    /\ state = "listed"
    /\ orderedRanges' = Sorted(listed)
    /\ state' = IF isCompleteSetOfRange(Sorted(listed)) THEN "mapped" ELSE "threw"
    /\ UNCHANGED <<listed, sortedRanges, index, partitionKeyRanges>>

GetOverlappingRanges ==
    /\ state = "mapped"
    /\ \E ranges \in Requests :
        /\ sortedRanges' = ranges
        /\ index' = 1
        /\ state' = IF ~isSortedAndNonOverlapping(ranges) THEN "threw"
                    ELSE IF ranges = <<>> THEN "done" ELSE "walking"
    /\ UNCHANGED <<listed, orderedRanges, partitionKeyRanges>>

SkipEmptyRange ==
    /\ state = "walking"
    /\ isEmpty(sortedRanges[index])
    /\ GoTo(index + 1)
    /\ UNCHANGED <<listed, orderedRanges, sortedRanges, partitionKeyRanges>>

\* What is left of the range, asked of the map, and the ranges it then covers.
CollectRange ==
    /\ state = "walking"
    /\ ~isEmpty(sortedRanges[index])
    /\ LET current == sortedRanges[index]
           asked == IF partitionKeyRanges = <<>> THEN current
                    ELSE subtractRange(current, Last(partitionKeyRanges))
           found == Overlapping(orderedRanges, asked)
           collected == partitionKeyRanges \o found
       IN IF found = <<>> \/ current.max > Last(collected).max
          THEN /\ state' = "threw"
               /\ UNCHANGED <<index, partitionKeyRanges>>
          ELSE /\ partitionKeyRanges' = collected
               /\ GoTo(NextIndex(index, Last(collected)))
    /\ UNCHANGED <<listed, orderedRanges, sortedRanges>>

Init ==
    /\ listed \in Listings
    /\ state = "listed"
    /\ orderedRanges = <<>> /\ sortedRanges = <<>>
    /\ index = 1
    /\ partitionKeyRanges = <<>>

Next == CreateRoutingMap \/ GetOverlappingRanges \/ SkipEmptyRange \/ CollectRange

Spec == Init /\ [][Next]_vars

-----------------------------------------------------------------------------
(* Properties: the hash space as points, the bounds at even places and what *)
(* lies between two of them at the odd place between.                       *)

Points == 0..(2 * Top - 1)

Holds(r, x) ==
    /\ 2 * r.min < x \/ (2 * r.min = x /\ r.isMinInclusive)
    /\ x < 2 * r.max \/ (x = 2 * r.max /\ r.isMaxInclusive)

\* A routing map is used only if each point of the hash space is in exactly one
\* of its ranges (createCompleteRoutingMap).
MapsTileTheHashSpace ==
    state \in {"mapped", "walking", "done"} =>
        \A x \in Points : Cardinality(
            {i \in DOMAIN orderedRanges : Holds(AsQueryRange(orderedRanges[i]), x)}) = 1

\* The points that a range skipped as covered may lose: its last, if it belongs
\* to the range and is where the last partition collected before it ends.
LastPointAtBoundary(r, x) ==
    /\ r.isMaxInclusive /\ x = 2 * r.max
    /\ \E i \in DOMAIN partitionKeyRanges : partitionKeyRanges[i].max = r.max

Reached(x) ==
    \E i \in DOMAIN partitionKeyRanges : Holds(AsQueryRange(partitionKeyRanges[i]), x)

\* A query goes to the partitions that hold a point it asks for, and to no other:
\* no matching row is missed, but at an inclusive end on the boundary of two
\* partitions, and no partition is asked in vain.
AskedAreReached ==
    state = "done" =>
        /\ \A i \in DOMAIN sortedRanges, x \in Points :
               Holds(sortedRanges[i], x) =>
                   Reached(x) \/ LastPointAtBoundary(sortedRanges[i], x)
        /\ \A i \in DOMAIN partitionKeyRanges :
               \E j \in DOMAIN sortedRanges, x \in Points :
                   /\ Holds(AsQueryRange(partitionKeyRanges[i]), x)
                   /\ Holds(sortedRanges[j], x)

\* No row is read twice: no partition is collected twice, and they come in order
\* of the hash space.
NoPartitionTwice ==
    \A i, j \in DOMAIN partitionKeyRanges :
        i < j => partitionKeyRanges[i].max <= partitionKeyRanges[j].min

\* A request is turned down only if two of its ranges share a point or are out of
\* order, or one is empty or asks for the end of the hash space, which no
\* partition holds: the errors at lines 109 and 120 are never met otherwise.
OnlyBadRequestsThrow ==
    (state = "threw" /\ sortedRanges # <<>>) =>
        \/ \E i, j \in DOMAIN sortedRanges : i < j /\
              \/ sortedRanges[i].max > sortedRanges[j].min
              \/ \E x \in 0..(2 * Top) :
                    Holds(sortedRanges[i], x) /\ Holds(sortedRanges[j], x)
        \/ \E i \in DOMAIN sortedRanges :
              isEmpty(sortedRanges[i]) \/ sortedRanges[i].min = Top
=============================================================================

----------------------------- MODULE MCRoutingMap -----------------------------
(* Instances of RoutingMap for TLC: up to three partitions of any kind, any   *)
(* two query ranges, and two in order before a third of any kind.              *)
EXTENDS RoutingMap

SmallListings == {s \in SUBSET PartitionKeyRanges : Cardinality(s) <= 3}

Pairs == {<<r1, r2>> : r1 \in QueryRanges, r2 \in QueryRanges}
InOrder == {pair \in Pairs : pair[1].max <= pair[2].min}
Filled == {r \in QueryRanges : ~isEmpty(r)}
SmallRequests ==
    {<<>>} \union {<<r>> : r \in QueryRanges} \union Pairs
    \union {Append(pair, r) : pair \in InOrder, r \in Filled}
=============================================================================

-------------------------- MODULE MCSessionContainer --------------------------
(* Instances of SessionContainer for TLC: a region is added and one removed. *)
EXTENDS SessionContainer, TLC

CONSTANTS east, west, north

ThreeRegions == {east, west, north}
ChangingRegions == <<{east, west}, {west, north}>>
TwoThenOne == <<2, 1>>   \* writes of the container, and of the one that follows

\* The operations are alike, and no property is about one of them.
OpSymmetry == Permutations(Ops)
=============================================================================

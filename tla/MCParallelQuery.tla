--------------------------- MODULE MCParallelQuery ---------------------------
(***************************************************************************)
(* Instances of ParallelQuery for TLC: the partition p splits into q and r,*)
(* r into s and t; u stays whole.  Rows are spread over pages so that a    *)
(* producer has rows buffered, is between pages or has an empty page when  *)
(* its partition goes.                                                     *)
(***************************************************************************)
EXTENDS ParallelQuery

CONSTANTS p, q, r, s, t, u

AllPartitions == {p, q, r, s, t, u}
TwoRoots == {p, u}
SplitTwice == [x \in AllPartitions |->
    IF x = p THEN {q, r} ELSE IF x = r THEN {s, t} ELSE {}]
Intervals == [x \in AllPartitions |->
    CASE x = p -> {1, 2, 3} [] x = q -> {1} [] x = r -> {2, 3}
      [] x = s -> {2} [] x = t -> {3} [] x = u -> {4}]
PagesOf == [x \in AllPartitions |->
    CASE x = p -> << <<1, 2>>, <<4>> >>
      [] x = q -> << <<1>> >>
      [] x = r -> << <<>>, <<2, 4>> >>
      [] x = s -> << <<2>> >>
      [] x = t -> << <<4>> >>
      [] x = u -> << <<3>>, <<>> >>]
=============================================================================

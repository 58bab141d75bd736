---------------------------- MODULE MCQueryPipeline ----------------------------
(* An instance of QueryPipeline for TLC: all combinations of clauses over      *)
(* three rows, and partial results that may be missing.                         *)
EXTENDS QueryPipeline

None == [aggregate |-> "None", distinct |-> "None", top |-> NoLimit,
         offset |-> 0, limit |-> NoLimit]

Clauses ==
    {[None EXCEPT !.distinct = d, !.top = t, !.offset = l[1], !.limit = l[2]] :
        d \in {"None", "Ordered", "Unordered"}, t \in {NoLimit, 0, 2},
        l \in {<<0, NoLimit>>, <<0, 2>>, <<1, 0>>, <<1, 1>>, <<1, 3>>, <<4, 1>>}}

Aggregates == {[None EXCEPT !.aggregate = op, !.top = t] :
                    op \in Operators, t \in {NoLimit, 1}}

AllPlans == Clauses \union Aggregates

\* No partition leaves out its count.  Min is asked of partitions that all have
\* rows (see its comment).
SmallValues(p) ==
    CASE p.aggregate = "None" -> 0..2
      [] p.aggregate \in {"Count", "Min"} -> 0..2
      [] p.aggregate \in {"Sum", "Max"} -> {Undefined, 1, 2}
      [] p.aggregate = "Average" -> {Undefined} \union [sum : {1, 2}, count : {1}]
=============================================================================

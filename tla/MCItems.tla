------------------------------- MODULE MCItems -------------------------------
(* Instances of Items for TLC.                                               *)
EXTENDS Items

CONSTANTS c1, c2, i1, i2

By(path) == [paths |-> <<path>>, systemKey |-> FALSE]
ByDefault == By("_partitionKey")
BySystem == [paths |-> <<"_partitionKey">>, systemKey |-> TRUE]

MCCallers == {c1, c2}
MCIds == {i1, i2}
MCFields == [c \in {c1, c2} |->
    [a |-> "x", b |-> NullAbove, _partitionKey |-> Undefined]]
MCPlugins == <<[on |-> "request", repeats |-> TRUE],
               [on |-> "operation", repeats |-> TRUE],
               [on |-> "operation", repeats |-> FALSE]>>

\* Containers of others: a key behind null, a key that is the id, and the system's.
MCForeign == {By("b"), By(IdPath), BySystem}
MCBodies == {[throughput |-> 400, partitionKey |-> By("a")], PlainBody}
MCCalls == [c \in {c1, c2} |->
    IF c = c1 THEN {"ensure container", "create container"}
    ELSE {"create", "replace", "delete container"}]
=============================================================================

----------------------------- MODULE QueryResults -----------------------------
(***************************************************************************)
(* What a cross-partition query promises its caller, whatever partitions,  *)
(* pages and producers it reads from: the rows of the container, each one  *)
(* handed over while it is still outstanding, the smallest first if the    *)
(* query is ordered, and an end only when none is outstanding.  The one    *)
(* licence it takes is to read rows again that it already handed over,     *)
(* which the code does after a partition split.                            *)
(***************************************************************************)
EXTENDS Integers, Sequences, Functions

CONSTANTS
    Rows,          \* the rows of the container, numbered in sort order
    MayReread      \* whether partitions may split while the query runs

VARIABLES
    ordered,       \* is it an ORDER BY query?
    outstanding,   \* rows still to hand over
    delivered,     \* rows handed over, in order
    outcome        \* "running", "ended" or "failed"

vars == <<ordered, outstanding, delivered, outcome>>

Init ==
    /\ ordered \in BOOLEAN
    /\ outstanding = Rows
    /\ delivered = <<>>
    /\ outcome = "running"

Deliver ==
    /\ outcome = "running"
    /\ \E row \in outstanding :
        /\ ordered => \A other \in outstanding : row <= other
        /\ outstanding' = outstanding \ {row}
        /\ delivered' = Append(delivered, row)
    /\ UNCHANGED <<ordered, outcome>>

Reread ==
    /\ MayReread
    /\ outcome = "running"
    /\ \E again \in SUBSET Range(delivered) :
        outstanding' = outstanding \union again
    /\ UNCHANGED <<ordered, delivered, outcome>>

Fail ==
    /\ outcome = "running"
    /\ outcome' = "failed"
    /\ outstanding' = {}
    /\ UNCHANGED <<ordered, delivered>>

End ==
    /\ outcome = "running"
    /\ outstanding = {}
    /\ outcome' = "ended"
    /\ UNCHANGED <<ordered, outstanding, delivered>>

Next == Deliver \/ Reread \/ Fail \/ End

Spec == Init /\ [][Next]_vars
=============================================================================

\* Calls of every kind in any order, and two fetches that fail.
CONSTANTS
    Pages <- FewPages
    Starts = {0, 2}
    PageSize = 3
    MaxFaults = 2
SPECIFICATION Spec
INVARIANTS
    RowsInOrder
    NoMoreMeansAll
PROPERTIES
    CallsEnd

\* Two items, three changes, two overlapping callers and a call that fails.
CONSTANTS
    Items = {x, y}
    Options <- WaysToStart
    MaxItemCount = 1
    Callers = {a, b}
    MaxChanges = 3
    MaxFaults = 1
SPECIFICATION Spec
CHECK_DEADLOCK FALSE
INVARIANTS
    NothingMissed
    ChangesInOrder

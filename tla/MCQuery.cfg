\* Two concurrent callers, two splits, one failing request.
CONSTANTS
    p = p
    q = q
    r = r
    s = s
    t = t
    u = u
    Partitions <- AllPartitions
    Roots <- TwoRoots
    Children <- SplitTwice
    Slots <- Intervals
    Pages <- PagesOf
    Falsy = {4}
    Degree = 1
    Callers = {a, b}
    MaxFaults = 1
    Gone = Gone
SPECIFICATION Spec
CHECK_DEADLOCK FALSE
INVARIANTS
    OneAtATime
    QueuedProducersHaveItems
    OneProducerPerSlot
PROPERTIES
    ImplementsQueryResults
    CallsSettleUnlessFailed

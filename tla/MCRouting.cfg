\* Every tiling of a hash space of three bounds, and the requests over them.
CONSTANTS
    Top = 3
    Listings <- SmallListings
    Requests <- SmallRequests
SPECIFICATION Spec
CHECK_DEADLOCK FALSE
INVARIANTS
    MapsTileTheHashSpace
    AskedAreReached
    NoPartitionTwice
    OnlyBadRequestsThrow

\* Two concurrent requests with one preferred region while the write region
\* moves back and forth, under fairness.
CONSTANTS
    east = east
    west = west
    global = global
    c1 = c1
    c2 = c2
    Locations <- MCLocations
    Endpoints <- MCEndpoints
    EndpointAt <- MCEndpointAt
    DefaultEndpoint = global
    Preferred <- EastFirst
    EnableEndpointDiscovery = TRUE
    UseMultipleWriteLocations = FALSE
    Accounts <- FailingOver
    Expiry = 1
    Callers <- TwoCallers
SPECIFICATION GemSpec
INVARIANTS
    AtMostOneRefresh
    RefreshFlagHeld
    NobodyWaitsInVain
    DegradedIsRefreshed
PROPERTIES
    InitializationEnds
    RegionRecovers

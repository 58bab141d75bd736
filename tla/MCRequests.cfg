\* One request of any kind, with several write regions and small budgets.
CONSTANTS
    east = east
    west = west
    global = global
    r = r
    Locations <- MCLocations
    Endpoints <- MCEndpoints
    EndpointAt <- MCEndpointAt
    DefaultEndpoint = global
    Preferred <- EastWest
    EnableEndpointDiscovery = TRUE
    UseMultipleWriteLocations = TRUE
    Accounts <- MultiMaster
    Expiry = 1
    Requests = {r}
    MaxDiscovery = 2
    MaxConnection = 1
    MaxThrottle = 3
    MaxWait = 2
    FixedInterval = 0
    RetryAfters = {0, 1, 3}
SPECIFICATION RequestSpec
CHECK_DEADLOCK FALSE
INVARIANTS
    WritesAppliedAtMostOnce
    RetriesAreBounded
    SessionRetriesTryEveryEndpoint
PROPERTY
    RequestsEnd

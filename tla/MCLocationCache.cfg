\* The policy the class is written for: discovery, two preferred regions and
\* opted in to multiple write locations.
CONSTANTS
    east = east
    west = west
    global = global
    Locations <- MCLocations
    Endpoints <- MCEndpoints
    EndpointAt <- MCEndpointAt
    DefaultEndpoint = global
    Preferred <- EastWest
    EnableEndpointDiscovery = TRUE
    UseMultipleWriteLocations = TRUE
    Accounts <- MCAccounts
    Expiry = 2
SPECIFICATION CacheSpec
INVARIANTS
    RoutesToListedEndpoint
    MarkedEndpointNotOffered
PROPERTIES
    MarksOutliveUpdates

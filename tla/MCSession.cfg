\* The configuration changes, and the container is deleted and created again.
CONSTANTS
    east = east
    west = west
    north = north
    NoToken = NoToken
    Ops = {a, b}
    Ranges = {p}
    Regions <- ThreeRegions
    RegionsAt <- ChangingRegions
    MaxRid = 2
    MaxWrites <- TwoThenOne
    EnableEndpointDiscovery = TRUE
SPECIFICATION Spec
SYMMETRY OpSymmetry
CHECK_DEADLOCK FALSE
INVARIANTS
    CaptureNeverThrows
    TokensNotAhead
    ReadYourWritesOfKnown
PROPERTIES
    TokensOnlyGrow

\* One caller makes the container, as others do, one works on items; one exchange
\* is lost.
CONSTANTS
    c1 = c1
    c2 = c2
    i1 = i1
    i2 = i2
    Callers <- MCCallers
    ForeignDefinitions <- MCForeign
    DefaultDefinition <- ByDefault
    Fields <- MCFields
    Ids <- MCIds
    ContainerBodies <- MCBodies
    CallsOf <- MCCalls
    Plugins <- MCPlugins
    MaxContainers = 2
    MaxFaults = 1
SPECIFICATION Spec
INVARIANTS
    RefusedOnlyIfStale
    CreatedOnce
    ThroughputAsAsked
    ConflictMeansRace

----------------------- MODULE MCGlobalEndpointManager -----------------------
(* Instances of GlobalEndpointManager for TLC: two regions, one write region *)
(* that moves between them, and concurrent requests.                         *)
EXTENDS GlobalEndpointManager

CONSTANTS east, west, global, c1, c2

MCLocations == {east, west}
MCEndpoints == {east, west, global}
MCEndpointAt == [l \in MCLocations |-> l]
EastFirst == <<east>>

SingleMaster(w) == [writable |-> <<w>>, readable |-> <<east, west>>,
                    multi |-> FALSE]
FailingOver == {SingleMaster(east), SingleMaster(west)}
TwoCallers == {c1, c2}
=============================================================================

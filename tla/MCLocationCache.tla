--------------------------- MODULE MCLocationCache ---------------------------
(* Instances of LocationCache for TLC: two regions, and accounts that fail   *)
(* over between them.                                                        *)
EXTENDS LocationCache

CONSTANTS east, west, global   \* two regions and the global endpoint

MCLocations == {east, west}
MCEndpoints == {east, west, global}
MCEndpointAt == [l \in MCLocations |-> l]

EastWest == <<east, west>>

SingleMaster(w) ==
    [writable |-> <<w>>, multi |-> FALSE,
     readable |-> IF w = east THEN <<east, west>> ELSE <<west, east>>]
MultiMaster(m) == [writable |-> <<west, east>>, readable |-> <<west, east>>,
                   multi |-> m]
\* An account without locations is what an emulator returns.
MCAccounts == {SingleMaster(east), SingleMaster(west), MultiMaster(TRUE),
               NoAccount, [SingleMaster(east) EXCEPT !.readable = <<west>>]}
=============================================================================

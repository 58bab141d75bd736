-------------------------- MODULE MCRequestExecution --------------------------
(* Instances of RequestExecution for TLC: one request of any kind in an       *)
(* account of two writable regions, which is read again meanwhile.            *)
EXTENDS RequestExecution

CONSTANTS east, west, global, r

MCLocations == {east, west}
MCEndpoints == {east, west, global}
MCEndpointAt == [l \in MCLocations |-> l]
EastWest == <<east, west>>

MultiMaster == {[writable |-> <<west, east>>, readable |-> <<west, east>>,
                 multi |-> TRUE]}
=============================================================================

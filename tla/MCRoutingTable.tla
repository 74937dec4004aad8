--------------------------- MODULE MCRoutingTable ---------------------------
(* RoutingTable on a small router: a port, a tunnel peer, and ranges that   *)
(* match, overlap and miss the port's own and each other's, one of which    *)
(* ends before it starts.                                                   *)
EXTENDS RoutingTable

MCRanges == {<<2, 3>>, <<3, 4>>, <<5, 6>>, <<6, 7>>, <<5, 4>>}
MCPortRange == [p \in Ports |-> <<2, 3>>]
MCPortZones == [p \in Ports |-> ZoneNames]
=============================================================================

\* The mesh, any tables: a datagram may loop through cables and tunnels; and
\* settled tables over a tunnel and a second router: everything in reach arrives.
SPECIFICATION ForwardLiveSpec
CONSTANTS
    A = A  B = B  C = C  D = D  E = E  F = F
    Routers = {A, B, C, D, E, F}
    Nets <- BothNets
    Attached <- BothAttached
    Tunnels <- BothTunnels
    RoutesOf <- BothRoutes
    MaxHops = 3
    FirstHops = {0, 2}
    FirstClaimed <- BothClaimed
INVARIANTS CrossingsBounded OneCopy
PROPERTIES Delivers
CHECK_DEADLOCK FALSE

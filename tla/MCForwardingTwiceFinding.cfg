\* Two routers joining the same two cables, which they both hear all of.
SPECIFICATION ForwardSpec
CONSTANTS
    A = A  B = B  C = C  D = D  E = E  F = F
    Routers = {A, C}
    Nets <- PairNets
    Attached <- PairAttached
    Tunnels <- NoTunnels
    RoutesOf <- PairRoutes
    MaxHops = 3
    FirstHops = {0}
    FirstClaimed <- PairClaimed
INVARIANTS UnicastOnce
CHECK_DEADLOCK FALSE

\* One contested range, every operation, zone lists included.
CONSTANTS
    Ports = {p1}
    Peers = {e1}
    Routers = {n1}
    NoNext = NoNext
    Ranges <- MCRanges
    PortRange <- MCPortRange
    PortZones <- MCPortZones
    Distances = {0, 14, 15, 31}
    ZoneNames = {"home"}
    Totals = {2}
    Validity = 1
    None = None
SPECIFICATION Spec
INVARIANTS
    NoOverlap
    DirectAlone
    IncumbentIsBest
    ReportsAreComplete
    ZonesHaveRoutes
    TunnelRoutesStayGood
PROPERTIES
    IncumbentKept

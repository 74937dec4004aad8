SPECIFICATION Spec
CONSTANTS
    ours = ours  far = far
    c1 = c1  c2 = c2  c3 = c3  c4 = c4
    e2 = e2  e3 = e3
    z1 = z1  z2 = z2  z3 = z3
    Router = {ours, far}
    Cable = {c1, c2, c3, c4}
    PortsOf <- Ports
    CableZones <- ZonesOf
    OurCable = c1
    OurRouter = ours
    Entity = {e2, e3}
    At <- Where
    InZone <- Named
    Commands <- SomeCommands
    Starts <- Learned
    PageNames = 1
    Tries <- SomeTries
    MaxPages = 4
    Probes = 2
    MaxMessages = 2
    MaxForeign = 0
    None = None
INVARIANT ZoneListAnswered
CHECK_DEADLOCK FALSE

SPECIFICATION LiveSpec
CONSTANTS
    h = h  r1 = r1  r2 = r2  r3 = r3
    c0 = c0  c1 = c1  c2 = c2  c3 = c3  z1 = z1  z2 = z2  z3 = z3
    Router = {h, r1, r2, r3}
    Cable = {c0, c1, c2, c3}
    On <- Triangle
    Home = h
    Network <- Far
    PortRange <- Nets
    Distance <- Hops
    Zones = {z1, z2, z3}
    Pages <- TwoPages
    MaxTotal = 255
    Validity = 2
    MaxFaults = 1
    None = None
PROPERTIES Forgotten

SPECIFICATION Spec
CONSTANTS
    p1 = p1  p2 = p2  n1 = n1  i1 = i1  i2 = i2  i3 = i3
    Port = {p1, p2}
    Node = {n1}
    Cables <- SomeCables
    Ids = {i1, i2, i3}
    Tries <- SomeTries
    AddressTries = 2
    MaxLost = 3
    None = None
SYMMETRY Alike
INVARIANTS OneHolder
PROPERTIES GivesWayToOthers

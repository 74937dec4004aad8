\* Two nodes and anything that may arrive from either link.
SPECIFICATION LiveSpec
CONSTANTS
    Nodes = {n1, n2}
    Ttl = 2
    QueryTimeout = 1
INVARIANTS
    LastWordCounts
    DoubtIsAsked
    ProxyHasEvidence
    AcksAreEarned
PROPERTIES
    DoubtEnds

\* A LocalTalk node claims an ID that is believed to be on LocalTalk still.
SPECIFICATION Spec
CONSTANTS
    Nodes = {n1}
    Ttl = 2
    QueryTimeout = 1
PROPERTIES
    AcksArePaid

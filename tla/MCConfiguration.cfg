SPECIFICATION Spec
CONSTANTS
    cwd = cwd  etc = etc  other = other
    none = none  None = none
    Files = {cwd, etc, other}
    DEFAULTS <- Looked
    Names = {"appletalk", "r1", "zone", "euro"}
    Interfaces = {"eth0", "eth1", "default", "tty"}
    MacRoman = {"appletalk", "r1", "zone"}
    MAX_NET = 3
    Hosts = {"a.net", "A.net", "b.net", "B.net"}
    Lower <- LowerCase
    Written <- SomeFiles
    Lists <- SomeLists
    Flags <- SomeFlags
    Importers = {1}
    MaxEdits = 2
    MaxImports = 2
INVARIANTS NeverHalf RunningIsSound
PROPERTIES ImportOnlyAdds
CHECK_DEADLOCK FALSE

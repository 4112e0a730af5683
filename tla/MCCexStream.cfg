CONSTANTS
    NPairs = 3
    MaxPerConn = 2
    MaxConns = 2
    FailMax = 2
    Worlds <- MCWorlds
    None = None
SPECIFICATION FairStreams
INVARIANTS
    NoSilentPair
PROPERTIES
    PairsStream
    DeadHostsEscaped

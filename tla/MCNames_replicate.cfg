\* Two hosts, two handlers on one of them and one on the other.
CONSTANTS
    h1 = h1
    h2 = h2
    r1 = r1
    r2 = r2
    r3 = r3
    Host = {h1, h2}
    Name <- OneName
    Pair <- TwoPairs
    Request = {r1, r2, r3}
    HostOf <- Handlers
    MaxWrites = 2
    MaxDrops = 1
SPECIFICATION FairSpec
INVARIANTS
    NamesTypeOK
    NameForInvertsResolve
    
PROPERTIES
    ReplicationEnds
CHECK_DEADLOCK FALSE

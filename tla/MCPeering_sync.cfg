\* One peer and one board; drops, a stop, a rediscovery, a rescan, and a
\* board moved to this host.
CONSTANTS
    Uid = {u1}
    Port = {}
    Peer = {peer}
    Local = Local
    NoPort = NoPort
    Ident = {i1}
    NoIdent = NoIdent
    Nowhere = Nowhere
    Faults = {"drop", "stop", "here"}
    MaxPlugs = 1
    MaxFaults = 2
SPECIFICATION FairSpec
INVARIANTS
    PeeringTypeOK
    SyncedMirrorIsExact
PROPERTIES
    
    VanishedPeerIsNoticed
CHECK_DEADLOCK FALSE

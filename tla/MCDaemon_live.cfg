\* Liveness through flash waits, a rescan, and the crashes its purge causes.
CONSTANTS
    Uid = {u1}
    Port = {p1}
    Peer = {}
    Local = Local
    NoPort = NoPort
    Ident <- MCIdent
    NoIdent = NoIdent
    Holder = {c1}
    NoHolder = NoHolder
    Kind = {"flash"}
    Poll = poll
    Rescanners = {rescan}
    Version = {1}
    FirstVersion = 1
    MaxPlugs = 1
    MaxDeaths = 0
    MaxPeerEvents = 0
    Rivals = FALSE
SPECIFICATION FairSpec
PROPERTIES
    PresentBoardIsProbed
    AbsentBoardIsDelisted
    FlashWaitEnds

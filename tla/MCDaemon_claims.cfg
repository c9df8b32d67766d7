\* The poll loop alone with two boards, and a second instance on the host.
CONSTANTS
    Uid = {u1, u2}
    Port = {p1, p2}
    Peer = {}
    Local = Local
    NoPort = NoPort
    Ident <- MCIdent
    NoIdent = NoIdent
    Holder = {c1}
    NoHolder = NoHolder
    Kind = {"serial"}
    Poll = poll
    Rescanners = {}
    Version = {1}
    FirstVersion = 1
    MaxPlugs = 3
    MaxDeaths = 0
    MaxPeerEvents = 0
    Rivals = TRUE
SPECIFICATION FairSpec
INVARIANTS
    ProbeHoldsClaim
    AttachedIsClaimed
    FeedMatchesTable
PROPERTIES
    PresentBoardIsProbed

\* Two run_once threads, a lock client, a peer that reports the same board,
\* and a process death.
CONSTANTS
    Uid = {u1}
    Port = {p1}
    Peer = {peer}
    Local = Local
    NoPort = NoPort
    Ident <- MCIdent
    NoIdent = NoIdent
    Holder = {c1}
    NoHolder = NoHolder
    Kind = {"serial"}
    Poll = poll
    Rescanners = {rescan}
    Version = {1}
    FirstVersion = 1
    MaxPlugs = 2
    MaxDeaths = 1
    MaxPeerEvents = 2
    Rivals = FALSE
SPECIFICATION Spec
INVARIANTS
    TypeOK
    ClaimedIsOwned
    LockOnlyOnLiveRow
PROPERTIES
    AttachedRowStaysOurs

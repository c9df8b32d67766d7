\* A board probed after a restart while another instance has its claim.
CONSTANTS
    Uid = {u1}
    Port = {p1}
    Peer = {}
    Local = Local
    NoPort = NoPort
    Ident <- MCIdent
    NoIdent = NoIdent
    Holder = {}
    NoHolder = NoHolder
    Kind = {"flash"}
    Poll = poll
    Rescanners = {}
    Version = {1}
    FirstVersion = 1
    MaxPlugs = 2
    MaxDeaths = 1
    MaxPeerEvents = 0
    Rivals = TRUE
SPECIFICATION Spec
INVARIANTS
    ProbeHasNoRival

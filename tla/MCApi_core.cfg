\* Two connections of one process; everything may happen.
CONSTANTS
    Uid = {u1}
    Port = {p1}
    NoPort = NoPort
    a = a
    b = b
    r = r
    pidA = pidA
    pidB = pidB
    session = session
    Conn = {a, b}
    RemoteConn = {}
    Holder = {pidA, pidB, session}
    NoHolder = NoHolder
    HolderOf <- OneProcess
    NoConn = NoConn
    Kind = {"serial", "flash"}
    Disturbance = {"force", "detach", "death", "hangup"}
SPECIFICATION FairSpec
INVARIANTS
    TypeOK
    LockHasOwner
PROPERTIES
    DeadHolderReleased
    ShutConnCloses
    StreamEndsWithBoard

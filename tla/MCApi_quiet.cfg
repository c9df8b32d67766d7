\* Separate processes; no force_unlock, detach or death,
\* and no client leaves in the middle of its flash.
CONSTANTS
    Uid = {u1, u2}
    Port = {p1, p2}
    NoPort = NoPort
    a = a
    b = b
    r = r
    pidA = pidA
    pidB = pidB
    session = session
    Conn = {a, b, r}
    RemoteConn = {r}
    Holder = {pidA, pidB, session}
    NoHolder = NoHolder
    HolderOf <- TwoProcesses
    NoConn = NoConn
    Kind = {"serial", "flash"}
    Disturbance = {}
SPECIFICATION Spec
INVARIANTS
    ExclusiveUse
PROPERTIES
    ImplementsBoardUse
    ReleasedByItsConnection
\* Once every connection is closed and every board attached, nothing is left
\* to happen.
CHECK_DEADLOCK FALSE

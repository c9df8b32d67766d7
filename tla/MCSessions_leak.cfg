\* One relay and one console client whose port I/O may raise.
SPECIFICATION Spec
CONSTANTS
    Board = {b1}
    PoolSession = {p1}
    Command = {c1}
    Away = {}
    Untrusted = {p1}
    NoBoard = NoBoard
    NoSession = NoSession
INVARIANT PoolReturnsEveryRelay
CHECK_DEADLOCK FALSE

\* Two console clients, a command on the owner's host and one on a peer's
\* contend for one relay.  The port I/O of the commands may raise, the pool's may not.
SPECIFICATION FairSpec
CONSTANTS
    Board = {b1}
    PoolSession = {p1, p2}
    Command = {c1, r1}
    Away = {r1}
    Untrusted = {c1, r1}
    NoBoard = NoBoard
    NoSession = NoSession
INVARIANTS SessionsTypeOK OnlyHolderTalks HandedOverIsNormalized
PROPERTIES ImplementsBoardUse LeftBoardComesBack
CHECK_DEADLOCK FALSE

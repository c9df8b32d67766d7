\* A local and a remote deploy and a debug session race for one board.
CONSTANTS
    here = here
    there = there
    dbg = dbg
    main = main
    extra = extra
    Job = {here, there, dbg}
    Remote = {there}
    Debug = {dbg}
    Asset = {main, extra}
    Preferred = main
    Asked <- MCAsked
    NoJob = NoJob
    MaxReplugs = 1
SPECIFICATION FairSpec
INVARIANTS
    DeployTypeOK
    ReportedImageIsOnBoard
    ErasedBoardIsReported
PROPERTIES
    DeployEnds
\* Once every invocation is over nothing is left to happen.
CHECK_DEADLOCK FALSE

\* The services of both scopes on the default ports, and an instance run by
\* hand with its own ports and socket.
SPECIFICATION FairSpec
CONSTANTS
    ps = ps
    pu = pu
    pm = pm
    Proc = {ps, pu, pm}
    Service = {ps, pu}
    OwnSettings = {pm}
    ScopeOf <- MCScopeOf
    Omits <- MCOmits
    Platform = {"linux", "darwin"}
    NoProc = NoProc
    MaxCommands = 3
    MaxCrashes = 1
INVARIANTS BootTypeOK DaemonCanBeFound UninstalledIsGone
PROPERTY WantedServiceRuns
CHECK_DEADLOCK FALSE

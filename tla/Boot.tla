---------------------------------- MODULE Boot ----------------------------------
(***************************************************************************)
(* mbregistry as processes and as a service: registry/cli.py's run, which  *)
(* starts the store and the five servers in order and stops them in        *)
(* another, the service commands of registry/service.py, which drive       *)
(* systemd or launchd, and the socket files of registry/paths.py by which  *)
(* clients find a daemon.                                                  *)
(*                                                                         *)
(* The service manager is external: it runs a wanted service, starts it    *)
(* again when it fails, and waits for the end of one it stops.  A process  *)
(* that dies, or fails to start, loses its listeners, but the file of its  *)
(* Unix socket stays.                                                      *)
(***************************************************************************)
EXTENDS Naturals

CONSTANTS
    Proc,           \* mbregistry processes
    Service,        \* the ones run by a service manager, one for each scope
    ScopeOf,        \* Proc -> Scope: whose default paths it uses
    OwnSettings,    \* the ones given their own ports and socket path
    Omits,          \* Proc -> servers left out by --no-peering, --no-relay-pool
    Platform,       \* the platforms to consider
    NoProc,
    MaxCommands,    \* bound on service commands
    MaxCrashes      \* bound on process deaths

Scope == {"user", "system"}
Optional == {"peering", "pool"}

ASSUME ServiceAreProcs == Service \subseteq Proc /\ OwnSettings \subseteq Proc \ Service
ASSUME ScopeOfType == ScopeOf \in [Proc -> Scope]
ASSUME OneServicePerScope == \A s \in Scope : \E p \in Service :
                               ScopeOf[p] = s /\ \A q \in Service : ScopeOf[q] = s => q = p
ASSUME OmitsType == Omits \in [Proc -> SUBSET Optional]
ASSUME PlatformType == Platform \subseteq {"linux", "darwin"} /\ Platform # {}
ASSUME NoProcIsNoProc == NoProc \notin Proc \cup Scope
ASSUME OwnPathsDiffer == OwnSettings \cap Scope = {}
ASSUME BoundsAreNat == MaxCommands \in Nat /\ MaxCrashes \in Nat

VARIABLES
    platform,
    unit,       \* Scope -> its unit file or plist exists
    udev,       \* the udev rule is installed (Linux)
    want,       \* Scope -> the service manager wants the service to run
    cmd,        \* Scope -> the service command under way
    botched,    \* Scope -> history: the last uninstall removed the files of a
                \* service that it had failed to stop
    proc,       \* Proc -> [pc, up, left, asked]: the servers that listen,
                \* whether a handler of a stopped one still runs, and the stop
                \* event
    file,       \* socket path -> the process that bound the file there, or NoProc
    commands, crashes

manager == <<unit, udev, want, cmd, botched>>
vars == <<platform, unit, udev, want, cmd, botched, proc, file, commands, crashes>>

Svc(s) == CHOOSE p \in Service : ScopeOf[p] = s

\* The default socket path of a scope is named by the scope.
SocketOf(p) == IF p \in OwnSettings THEN p ELSE ScopeOf[p]
Path == Scope \cup OwnSettings

(***************************************************************************)
(* The order in which _run_registry starts and stops what it is made of.   *)
(***************************************************************************)
Server == {"store", "api", "remote", "peering", "names", "pool"}
StartOrder == [store |-> 1, api |-> 2, remote |-> 3, peering |-> 4, names |-> 5, pool |-> 6]

StopOrder == [names |-> 1, pool |-> 2, peering |-> 3, remote |-> 4, api |-> 5, store |-> 6]

\* What assemble_registry and its siblings build for this process.
Servers(p) == Server \ Omits[p]

First(order, set) == CHOOSE k \in set : \A j \in set : order[k] <= order[j]

\* A TCP port of the defaults is taken by whoever has that server up.
Bindable(p, k) ==
    \/ k \in {"store", "api"} \/ p \in OwnSettings
    \/ \A q \in Proc \ OwnSettings : k \notin proc[q].up

Alive(p) == proc[p].pc \notin {"unborn", "off"}
Running(p) == proc[p].pc = "running"

Off == [pc |-> "off", up |-> {}, left |-> FALSE, asked |-> FALSE]
Unborn == [pc |-> "unborn", up |-> {}, left |-> FALSE, asked |-> FALSE]

Init ==
    /\ platform \in Platform
    /\ unit = [s \in Scope |-> FALSE]
    /\ udev = FALSE
    /\ want = [s \in Scope |-> FALSE]
    /\ cmd = [s \in Scope |-> "idle"]
    /\ botched = [s \in Scope |-> FALSE]
    /\ proc = [p \in Proc |-> IF p \in Service THEN Off ELSE Unborn]
    /\ file = [x \in Path |-> NoProc]
    /\ commands = 0 /\ crashes = 0
-----------------------------------------------------------------------------
(***************************************************************************)
(* One process.                                                            *)
(***************************************************************************)
\* "mbregistry run" from a terminal or a parent program, once.
RunByHand(p) ==
    /\ p \notin Service /\ proc[p].pc = "unborn"
    /\ proc' = [proc EXCEPT ![p] = [Off EXCEPT !.pc = "starting"]]
    /\ UNCHANGED <<platform, manager, file, commands, crashes>>

\* Restart=on-failure, KeepAlive: a wanted service that is not there is run.
ManagerRuns(p) ==
    /\ p \in Service /\ want[ScopeOf[p]] /\ proc[p].pc = "off"
    /\ proc' = [proc EXCEPT ![p] = [Off EXCEPT !.pc = "starting"]]
    /\ UNCHANGED <<platform, manager, file, commands, crashes>>

Starts(p, k) ==
    /\ proc[p].pc = "starting"
    /\ Servers(p) \ proc[p].up # {}
    /\ k = First(StartOrder, Servers(p) \ proc[p].up)
    /\ Bindable(p, k)
    /\ proc' = [proc EXCEPT ![p].up = @ \cup {k}]
    /\ UNCHANGED <<platform, manager, commands, crashes>>

OpenStore(p) == Starts(p, "store") /\ UNCHANGED file
\* An existing file is unlinked, whoever bound it.
StartApi(p) == Starts(p, "api") /\ file' = [file EXCEPT ![SocketOf(p)] = p]
StartRemote(p) == Starts(p, "remote") /\ UNCHANGED file
StartPeering(p) == Starts(p, "peering") /\ UNCHANGED file
StartNames(p) == Starts(p, "names") /\ UNCHANGED file
StartPool(p) == Starts(p, "pool") /\ UNCHANGED file

\* Faulty variant: the failure is reported with exit status 0, which no
\* manager takes for a failure.
BindFailsWithSuccess(p) ==
    /\ proc[p].pc = "starting"
    /\ Servers(p) \ proc[p].up # {}
    /\ ~Bindable(p, First(StartOrder, Servers(p) \ proc[p].up))
    /\ proc' = [proc EXCEPT ![p] = Unborn]
    /\ UNCHANGED <<platform, manager, file, commands, crashes>>

\* The exception of a bind reaches no handler: the process ends, uncleaned.
BindFails(p) ==
    /\ proc[p].pc = "starting"
    /\ Servers(p) \ proc[p].up # {}
    /\ ~Bindable(p, First(StartOrder, Servers(p) \ proc[p].up))
    /\ proc' = [proc EXCEPT ![p] = Off]
    /\ UNCHANGED <<platform, manager, file, commands, crashes>>

\* Faulty variant: the ready line does not wait for the relay pool.
ReadyBeforePool(p) ==
    /\ proc[p].pc = "starting"
    /\ Servers(p) \ {"pool"} \subseteq proc[p].up
    /\ proc' = [proc EXCEPT ![p].pc = "running"]
    /\ UNCHANGED <<platform, manager, file, commands, crashes>>

\* The ready line, and the daemon's loop.
BecomesReady(p) ==
    /\ proc[p].pc = "starting"
    /\ proc[p].up = Servers(p)
    /\ proc' = [proc EXCEPT ![p].pc = "running"]
    /\ UNCHANGED <<platform, manager, file, commands, crashes>>

\* SIGTERM of a manager that waits for the end, a signal by hand, or the end
\* of the parent's pipe: the stop event, looked at by the daemon's loop only.
AskToStop(p) ==
    /\ proc[p].pc \in {"starting", "running"} /\ ~proc[p].asked
    /\ p \in Service => ~want[ScopeOf[p]]
    /\ proc' = [proc EXCEPT ![p].asked = TRUE]
    /\ UNCHANGED <<platform, manager, file, commands, crashes>>

BeginStop(p) ==
    /\ Running(p) /\ proc[p].asked
    /\ proc' = [proc EXCEPT ![p].pc = "stopping"]
    /\ UNCHANGED <<platform, manager, file, commands, crashes>>

\* A server closes its listener and joins its threads for two seconds each,
\* the names API not even those of its requests: one may outlive its server.
Stops(p, k) ==
    /\ proc[p].pc = "stopping"
    /\ proc[p].up # {}
    /\ k = First(StopOrder, proc[p].up)
    /\ \E b \in IF k = "store" THEN {FALSE} ELSE BOOLEAN :
         proc' = [proc EXCEPT ![p].up = @ \ {k}, ![p].left = @ \/ b]
    /\ UNCHANGED <<platform, manager, commands, crashes>>

StopNames(p) == Stops(p, "names") /\ UNCHANGED file
StopPool(p) == Stops(p, "pool") /\ UNCHANGED file
StopPeering(p) == Stops(p, "peering") /\ UNCHANGED file
StopRemote(p) == Stops(p, "remote") /\ UNCHANGED file
\* The file at the path is unlinked, whoever bound it.
StopApi(p) == Stops(p, "api") /\ file' = [file EXCEPT ![SocketOf(p)] = NoProc]
CloseStore(p) == Stops(p, "store") /\ UNCHANGED file

HandlersEnd(p) ==
    /\ proc[p].left
    /\ proc' = [proc EXCEPT ![p].left = FALSE]
    /\ UNCHANGED <<platform, manager, file, commands, crashes>>

\* All threads are daemons: none keeps the process alive.
Exits(p) ==
    /\ proc[p].pc = "stopping" /\ proc[p].up = {}
    /\ proc' = [proc EXCEPT ![p] = Off]
    /\ UNCHANGED <<platform, manager, file, commands, crashes>>

Crash(p) ==
    /\ crashes < MaxCrashes
    /\ proc[p].pc \in {"starting", "running", "stopping"}
    /\ proc' = [proc EXCEPT ![p] = Off]
    /\ crashes' = crashes + 1
    /\ UNCHANGED <<platform, manager, file, commands>>
-----------------------------------------------------------------------------
(***************************************************************************)
(* The service commands, one at a time in a scope.                         *)
(***************************************************************************)
Command(s) ==
    /\ cmd[s] = "idle"
    /\ commands < MaxCommands
    /\ commands' = commands + 1
    /\ UNCHANGED <<platform, proc, crashes>>

\* The files.  A user install on Linux needs the system's udev rule first.
Install(s) ==
    /\ Command(s)
    /\ (platform = "linux" /\ s = "user") => udev
    /\ unit' = [unit EXCEPT ![s] = TRUE]
    /\ udev' = (udev \/ (platform = "linux" /\ s = "system"))
    /\ cmd' = [cmd EXCEPT ![s] = "loading"]
    \* launchd is told to forget a service that is loaded already, or fails to
    /\ want' \in IF platform = "darwin" THEN {want, [want EXCEPT ![s] = FALSE]} ELSE {want}
    /\ UNCHANGED <<file, botched>>

\* enable --now, or bootstrap; or one of the tools fails, and so does install.
InstallLoads(s) ==
    /\ cmd[s] = "loading"
    /\ platform = "darwin" /\ ~want[s] => ~Alive(Svc(s))
    /\ want' \in {want, [want EXCEPT ![s] = TRUE]}
    /\ cmd' = [cmd EXCEPT ![s] = "idle"]
    /\ UNCHANGED <<platform, unit, udev, botched, proc, file, commands, crashes>>

\* Faulty variant: the socket goes before the service is stopped.
UninstallUnlinksFirst(s) ==
    /\ Command(s)
    /\ unit[s]
    /\ want' = [want EXCEPT ![s] = FALSE] /\ cmd' = [cmd EXCEPT ![s] = "removing"]
    /\ file' = [file EXCEPT ![s] = NoProc]
    /\ UNCHANGED <<unit, udev, botched>>

\* disable --now or bootout, which may fail: any failure is taken to mean that
\* the service was stopped already.
Uninstall(s) ==
    /\ Command(s)
    /\ unit[s]
    /\ \/ want' = [want EXCEPT ![s] = FALSE] /\ cmd' = [cmd EXCEPT ![s] = "removing"]
       \/ cmd' = [cmd EXCEPT ![s] = "forcing"] /\ UNCHANGED want
    /\ UNCHANGED <<unit, udev, botched, file>>

\* A tool that succeeds has waited for the service to end.
MayRemove(s) == cmd[s] = "forcing" \/ (cmd[s] = "removing" /\ ~Alive(Svc(s)))

\* What goes besides the socket.
Removes(s) ==
    /\ unit' = [unit EXCEPT ![s] = FALSE]
    /\ udev' = (udev /\ s # "system")
    /\ cmd' = [cmd EXCEPT ![s] = "idle"]
    /\ botched' = [botched EXCEPT ![s] = cmd[s] = "forcing" /\ (want[s] \/ Alive(Svc(s)))]
    /\ UNCHANGED <<platform, want, proc, commands, crashes>>

\* Faulty variant: the daemon's own stop is relied on for its socket.
UninstallRemovesUnitOnly(s) == MayRemove(s) /\ Removes(s) /\ UNCHANGED file

\* The unit, the socket, the udev rule.
UninstallRemoves(s) ==
    /\ MayRemove(s)
    /\ Removes(s)
    /\ file' = [file EXCEPT ![s] = NoProc]

\* service start and stop, of an installed service.
Control(s) ==
    /\ Command(s)
    /\ unit[s]
    /\ \E b \in BOOLEAN : want' = [want EXCEPT ![s] = b]
    /\ UNCHANGED <<unit, udev, cmd, botched, file>>

\* systemctl restart, kickstart -k: the old process ends before the new one.
Restart(s) ==
    /\ Command(s)
    /\ unit[s]
    /\ want' = [want EXCEPT ![s] = FALSE]
    /\ cmd' = [cmd EXCEPT ![s] = "restarting"]
    /\ UNCHANGED <<unit, udev, botched, file>>

RestartStarts(s) ==
    /\ cmd[s] = "restarting"
    /\ ~Alive(Svc(s))
    /\ want' = [want EXCEPT ![s] = TRUE]
    /\ cmd' = [cmd EXCEPT ![s] = "idle"]
    /\ UNCHANGED <<platform, unit, udev, botched, proc, file, commands, crashes>>
-----------------------------------------------------------------------------
Step(p) ==
    \/ OpenStore(p) \/ StartApi(p) \/ StartRemote(p) \/ StartPeering(p)
    \/ StartNames(p) \/ StartPool(p) \/ BindFails(p) \/ BecomesReady(p)
    \/ BeginStop(p) \/ StopNames(p) \/ StopPool(p) \/ StopPeering(p)
    \/ StopRemote(p) \/ StopApi(p) \/ CloseStore(p) \/ Exits(p)

Manage(p) == ManagerRuns(p) \/ (p \in Service /\ AskToStop(p))

Proceed(s) == InstallLoads(s) \/ UninstallRemoves(s) \/ RestartStarts(s)

Next ==
    \/ \E p \in Proc : Step(p) \/ Manage(p) \/ Crash(p) \/ HandlersEnd(p)
                         \/ RunByHand(p) \/ AskToStop(p)
    \/ \E s \in Scope : Proceed(s) \/ Install(s) \/ Uninstall(s) \/ Control(s) \/ Restart(s)

Spec == Init /\ [][Next]_vars

(***************************************************************************)
(* A process that starts or stops does so by itself, the manager does what *)
(* it is asked, and a command that was begun is finished.  Nothing obliges *)
(* anyone to run a command, to start a process by hand or to stop it, nor  *)
(* a handler that outlived its server to end.                              *)
(***************************************************************************)
Fairness ==
    /\ \A p \in Proc : WF_vars(Step(p)) /\ WF_vars(Manage(p))
    /\ \A s \in Scope : WF_vars(Proceed(s))

FairSpec == Spec /\ Fairness
-----------------------------------------------------------------------------
\* The types; a process that is off has nothing up, a running one has all,
\* and a handler outlives its server in a stop only.
BootTypeOK ==
    /\ platform \in Platform
    /\ unit \in [Scope -> BOOLEAN]
    /\ udev \in BOOLEAN
    /\ want \in [Scope -> BOOLEAN]
    /\ cmd \in [Scope -> {"idle", "loading", "removing", "forcing", "restarting"}]
    /\ botched \in [Scope -> BOOLEAN]
    /\ \A p \in Proc :
         /\ proc[p].pc \in {"unborn", "off", "starting", "running", "stopping"}
         /\ proc[p].up \subseteq Servers(p)
         /\ proc[p].asked \in BOOLEAN /\ proc[p].left \in BOOLEAN
         /\ proc[p].pc \in {"unborn", "off"} => proc[p].up = {}
         /\ Running(p) => proc[p].up = Servers(p)
         /\ proc[p].left => proc[p].pc = "stopping"
    /\ file \in [Path -> Proc \cup {NoProc}]

\* A process whose API listens is found by its clients: the file at its path
\* is the one it bound.  Everyone who starts, stops or is uninstalled unlinks
\* the file at a path, whoever bound it (api.py, start and stop; service.py),
\* so it rests on the orders of those steps.  Not so where an uninstall could
\* not stop the service whose socket it removed.
DaemonCanBeFound ==
    \A p \in Proc :
        "api" \in proc[p].up /\ ~(p \in Service /\ botched[ScopeOf[p]])
            => file[SocketOf(p)] = p

\* service.py: an uninstall, of whatever an earlier command, a crash or a
\* start that failed has left, leaves no service process and no socket file,
\* except when the service runs and the tool that should stop it fails.
UninstalledIsGone ==
    \A s \in Scope :
        (~unit[s] /\ cmd[s] = "idle" /\ ~botched[s]) =>
            /\ ~want[s] /\ ~Alive(Svc(s))
            /\ file[s] = NoProc

\* Services that are wanted for good, though they fight over the default
\* ports, end up with one of them running for good.
WantedServiceRuns ==
    <>[](\E s \in Scope : want[s]) => <>[](\E p \in Service : Running(p))

=============================================================================

------------------------------- MODULE BootProofs -------------------------------
(***************************************************************************)
(* TLAPS proofs about Boot, for any number of processes, with whatever     *)
(* servers they omit, and any number of service commands and crashes.      *)
(***************************************************************************)
EXTENDS Boot, TLAPS

-----------------------------------------------------------------------------
(***************************************************************************)
(* The inductive invariant.                                                *)
(***************************************************************************)
\* The places of the servers when a process starts.
LEMMA StartPlaces ==
    /\ StartOrder["store"] = 1 /\ StartOrder["api"] = 2 /\ StartOrder["remote"] = 3
    /\ StartOrder["peering"] = 4 /\ StartOrder["names"] = 5 /\ StartOrder["pool"] = 6
  BY DEF StartOrder

\* What starts first comes before everything else that is still to start.
LEMMA FirstStarts ==
    ASSUME NEW set \in SUBSET Server, set # {}
    PROVE  /\ First(StartOrder, set) \in set
           /\ \A j \in set : StartOrder[First(StartOrder, set)] <= StartOrder[j]
  <1>1. \E k \in set : \A j \in set : StartOrder[k] <= StartOrder[j]
    <2> USE StartPlaces DEF Server
    <2>1. CASE "store" \in set
      BY <2>1
    <2>2. CASE "api" \in set /\ set \subseteq {"api", "remote", "peering", "names", "pool"}
      BY <2>2
    <2>3. CASE "remote" \in set /\ set \subseteq {"remote", "peering", "names", "pool"}
      BY <2>3
    <2>4. CASE "peering" \in set /\ set \subseteq {"peering", "names", "pool"}
      BY <2>4
    <2>5. CASE "names" \in set /\ set \subseteq {"names", "pool"}
      BY <2>5
    <2>6. CASE "pool" \in set /\ set \subseteq {"pool"}
      BY <2>6
    <2> QED
      BY <2>1, <2>2, <2>3, <2>4, <2>5, <2>6
  <1> QED
    BY <1>1 DEF First

ProcState == [pc: {"unborn", "off", "starting", "running", "stopping"},
              up: SUBSET Server, left: BOOLEAN, asked: BOOLEAN]

ProcOK(p, s) ==
    /\ s.up \subseteq Servers(p)
    /\ s.pc \in {"unborn", "off"} => s.up = {}
    /\ s.pc = "running" => s.up = Servers(p)
    /\ s.left => s.pc = "stopping"

Manager ==
    /\ platform \in Platform
    /\ unit \in [Scope -> BOOLEAN]
    /\ udev \in BOOLEAN
    /\ want \in [Scope -> BOOLEAN]
    /\ cmd \in [Scope -> {"idle", "loading", "removing", "forcing", "restarting"}]
    /\ botched \in [Scope -> BOOLEAN]

Inv ==
    /\ Manager
    /\ proc \in [Proc -> ProcState]
    /\ \A p \in Proc : ProcOK(p, proc[p])
    /\ file \in [Path -> Proc \cup {NoProc}]

\* What a process may run are servers, and it has its own or its scope's path.
LEMMA ServersAndPaths ==
    ASSUME NEW p \in Proc
    PROVE  /\ Servers(p) \subseteq Server
           /\ {"store", "api"} \subseteq Servers(p)
           /\ SocketOf(p) \in Path
  BY OmitsType, ScopeOfType DEF Servers, Server, Optional, SocketOf, Path

\* The initial state satisfies the invariant.
LEMMA InitInv == Init => Inv
  <1> SUFFICES ASSUME Init
               PROVE  Inv
    OBVIOUS
  <1>1. /\ Off \in ProcState /\ Unborn \in ProcState
        /\ \A p \in Proc : ProcOK(p, Off) /\ ProcOK(p, Unborn)
    BY DEF ProcState, ProcOK, Off, Unborn
  <1>2. \A p \in Proc : proc[p] = Off \/ proc[p] = Unborn
    BY DEF Init
  <1> HIDE DEF Off, Unborn
  <1>3. proc \in [Proc -> ProcState] /\ \A p \in Proc : ProcOK(p, proc[p])
    BY <1>1, <1>2 DEF Init
  <1> QED
    BY <1>3 DEF Init, Inv, Manager

\* A process that begins, ends or changes its state keeps the invariant, if
\* its own part holds.
LEMMA ProcKeepsInv ==
    ASSUME Inv, NEW p \in Proc, NEW s \in ProcState, ProcOK(p, s),
           proc' = [proc EXCEPT ![p] = s], UNCHANGED <<platform, manager>>,
           file' \in [Path -> Proc \cup {NoProc}]
    PROVE  Inv'
  BY DEF Inv, Manager, manager

\* One more server is up, one of this process's.
LEMMA StartsKeepsInv ==
    ASSUME Inv, NEW p \in Proc, NEW k \in Server, Starts(p, k),
           file' \in [Path -> Proc \cup {NoProc}]
    PROVE  Inv'
  <1> DEFINE s == [proc[p] EXCEPT !.up = @ \cup {k}]
             rest == Servers(p) \ proc[p].up
  <1>1. proc[p] \in ProcState /\ ProcOK(p, proc[p]) /\ proc \in [Proc -> ProcState]
    BY DEF Inv
  <1>2. s \in ProcState /\ proc' = [proc EXCEPT ![p] = s]
        /\ s.up = proc[p].up \cup {k} /\ s.pc = "starting"
    BY <1>1 DEF Starts, ProcState
  <1>3. k \in rest
    BY ServersAndPaths, FirstStarts DEF Starts
  <1>4. ProcOK(p, s)
    BY <1>1, <1>2, <1>3 DEF Starts, ProcOK, ProcState
  <1> HIDE DEF s
  <1> QED
    BY <1>2, <1>4, ProcKeepsInv DEF Starts

\* One server less is up, and perhaps a handler of it is left.
LEMMA StopsKeepsInv ==
    ASSUME Inv, NEW p \in Proc, NEW k \in Server, Stops(p, k),
           file' \in [Path -> Proc \cup {NoProc}]
    PROVE  Inv'
  <1>1. proc[p] \in ProcState /\ ProcOK(p, proc[p]) /\ proc \in [Proc -> ProcState]
    BY DEF Inv
  <1>2. PICK b \in BOOLEAN : proc' = [proc EXCEPT ![p].up = @ \ {k}, ![p].left = @ \/ b]
    BY DEF Stops
  <1> DEFINE s == [proc[p] EXCEPT !.up = @ \ {k}, !.left = @ \/ b]
             up == proc[p].up
  <1>3. s \in ProcState /\ s.up = up \ {k} /\ s.pc = "stopping"
    BY <1>1 DEF Stops, ProcState
  <1>4. proc' = [proc EXCEPT ![p] = s]
    BY <1>1, <1>2
  <1>5. ProcOK(p, s)
    BY <1>1, <1>3 DEF ProcOK
  <1> HIDE DEF s
  <1> QED
    BY <1>3, <1>4, <1>5, ProcKeepsInv DEF Stops

\* Every step of a process keeps the invariant.
LEMMA ProcessKeepsInv ==
    ASSUME Inv, NEW p \in Proc,
           Step(p) \/ Manage(p) \/ Crash(p) \/ HandlersEnd(p) \/ RunByHand(p) \/ AskToStop(p)
    PROVE  Inv'
  <1>1. proc[p] \in ProcState /\ ProcOK(p, proc[p]) /\ proc \in [Proc -> ProcState]
        /\ file \in [Path -> Proc \cup {NoProc}]
    BY DEF Inv
  <1>2. CASE OpenStore(p) \/ StartApi(p) \/ StartRemote(p) \/ StartPeering(p)
              \/ StartNames(p) \/ StartPool(p)
    <2>1. file' \in [Path -> Proc \cup {NoProc}]
      BY <1>1, <1>2, ServersAndPaths
      DEF OpenStore, StartApi, StartRemote, StartPeering, StartNames, StartPool
    <2>2. \E k \in Server : Starts(p, k)
      BY <1>2 DEF OpenStore, StartApi, StartRemote, StartPeering, StartNames, StartPool, Server
    <2> QED
      BY <2>1, <2>2, StartsKeepsInv
  <1>3. CASE StopNames(p) \/ StopPool(p) \/ StopPeering(p) \/ StopRemote(p)
              \/ StopApi(p) \/ CloseStore(p)
    <2>1. file' \in [Path -> Proc \cup {NoProc}]
      BY <1>1, <1>3, ServersAndPaths
      DEF StopNames, StopPool, StopPeering, StopRemote, StopApi, CloseStore
    <2>2. \E k \in Server : Stops(p, k)
      BY <1>3 DEF StopNames, StopPool, StopPeering, StopRemote, StopApi, CloseStore, Server
    <2> QED
      BY <2>1, <2>2, StopsKeepsInv
  <1>4. CASE BindFails(p) \/ Crash(p) \/ Exits(p)
    <2>1. Off \in ProcState /\ ProcOK(p, Off)
      BY DEF Off, ProcState, ProcOK
    <2> QED
      BY <1>1, <1>4, <2>1, ProcKeepsInv DEF BindFails, Crash, Exits
  <1>5. CASE RunByHand(p) \/ ManagerRuns(p)
    <2> DEFINE s == [Off EXCEPT !.pc = "starting"]
    <2>1. s \in ProcState /\ ProcOK(p, s)
      BY DEF Off, ProcState, ProcOK
    <2> HIDE DEF s
    <2>2. proc' = [proc EXCEPT ![p] = s]
      BY <1>5 DEF RunByHand, ManagerRuns, s
    <2> QED
      BY <1>1, <1>5, <2>1, <2>2, ProcKeepsInv DEF RunByHand, ManagerRuns
  <1>6. CASE BecomesReady(p)
    <2> DEFINE s == [proc[p] EXCEPT !.pc = "running"]
    <2>1. s \in ProcState /\ ProcOK(p, s) /\ proc' = [proc EXCEPT ![p] = s]
      BY <1>1, <1>6 DEF BecomesReady, ProcState, ProcOK
    <2> HIDE DEF s
    <2> QED
      BY <1>1, <1>6, <2>1, ProcKeepsInv DEF BecomesReady
  <1>7. CASE BeginStop(p)
    <2> DEFINE s == [proc[p] EXCEPT !.pc = "stopping"]
    <2>1. s \in ProcState /\ ProcOK(p, s) /\ proc' = [proc EXCEPT ![p] = s]
      BY <1>1, <1>7 DEF BeginStop, Running, ProcState, ProcOK
    <2> HIDE DEF s
    <2> QED
      BY <1>1, <1>7, <2>1, ProcKeepsInv DEF BeginStop
  <1>8. CASE AskToStop(p)
    <2> DEFINE s == [proc[p] EXCEPT !.asked = TRUE]
    <2>1. s \in ProcState /\ ProcOK(p, s) /\ proc' = [proc EXCEPT ![p] = s]
      BY <1>1, <1>8 DEF AskToStop, ProcState, ProcOK
    <2> HIDE DEF s
    <2> QED
      BY <1>1, <1>8, <2>1, ProcKeepsInv DEF AskToStop
  <1>9. CASE HandlersEnd(p)
    <2> DEFINE s == [proc[p] EXCEPT !.left = FALSE]
    <2>1. s \in ProcState /\ ProcOK(p, s) /\ proc' = [proc EXCEPT ![p] = s]
      BY <1>1, <1>9 DEF HandlersEnd, ProcState, ProcOK
    <2> HIDE DEF s
    <2> QED
      BY <1>1, <1>9, <2>1, ProcKeepsInv DEF HandlersEnd
  <1> QED
    BY <1>2, <1>3, <1>4, <1>5, <1>6, <1>7, <1>8, <1>9 DEF Step, Manage

\* A service command changes no process.
LEMMA CommandKeepsInv ==
    ASSUME Inv, NEW s \in Scope,
           Proceed(s) \/ Install(s) \/ Uninstall(s) \/ Control(s) \/ Restart(s)
    PROVE  Inv'
  <1>1. proc' = proc
    BY DEF Proceed, InstallLoads, UninstallRemoves, Removes, RestartStarts, Install, Uninstall,
           Control, Restart, Command
  <1>2. file' \in [Path -> Proc \cup {NoProc}]
    BY DEF Inv, Path, Proceed, InstallLoads, UninstallRemoves, RestartStarts, Install, Uninstall,
           Control, Restart
  <1>3. Manager'
    <2> USE DEF Inv, Manager
    <2>1. CASE Proceed(s)
      BY <2>1 DEF Proceed, InstallLoads, UninstallRemoves, Removes, RestartStarts
    <2>2. CASE Install(s)
      BY <2>2 DEF Install, Command
    <2>3. CASE Uninstall(s) \/ Control(s) \/ Restart(s)
      BY <2>3 DEF Uninstall, Control, Restart, Command
    <2> QED
      BY <2>1, <2>2, <2>3
  <1> QED
    BY <1>1, <1>2, <1>3 DEF Inv

\* The invariant holds throughout.
LEMMA Invariance == Spec => []Inv
  <1>1. Inv /\ [Next]_vars => Inv'
    <2>1. Inv /\ UNCHANGED vars => Inv'
      BY DEF vars, Inv, Manager
    <2> QED
      BY <2>1, ProcessKeepsInv, CommandKeepsInv DEF Next
  <1> QED
    BY <1>1, InitInv, PTL DEF Spec

\* Every state is well typed; a process that is off has nothing up, and one
\* that says it is ready has all of its servers up.
THEOREM BootTyped == Spec => []BootTypeOK
  <1>1. Inv => BootTypeOK
    BY DEF Inv, Manager, ProcState, ProcOK, BootTypeOK, Running
  <1> QED
    BY <1>1, Invariance, PTL

-----------------------------------------------------------------------------
(***************************************************************************)
(* Socket files and uninstalling, where a process run by hand has its own  *)
(* settings.  One that uses the default path of a scope would bind the     *)
(* scope's file.                                                           *)
(***************************************************************************)
\* A scope without its unit file has no command under way, and no service
\* unless the uninstall was botched; the service is unwanted while it is being
\* removed.
GoneIn(s) ==
    /\ ~unit[s] =>
         /\ cmd[s] = "idle"
         /\ ~botched[s] => ~want[s] /\ ~Alive(Svc(s)) /\ file[s] = NoProc
    /\ cmd[s] = "removing" => ~want[s]

Found(p) ==
    "api" \in proc[p].up /\ ~(p \in Service /\ botched[ScopeOf[p]]) => file[SocketOf(p)] = p

\* The service of a scope.
LEMMA ServiceOfScope ==
    ASSUME NEW s \in Scope
    PROVE  /\ Svc(s) \in Service /\ Svc(s) \in Proc /\ ScopeOf[Svc(s)] = s
           /\ \A q \in Service : ScopeOf[q] = s => q = Svc(s)
  <1>1. \E p \in Service : ScopeOf[p] = s /\ \A q \in Service : ScopeOf[q] = s => q = p
    BY OneServicePerScope
  <1>2. Svc(s) \in Service /\ ScopeOf[Svc(s)] = s
    BY <1>1 DEF Svc
  <1> QED
    BY <1>1, <1>2, ServiceAreProcs

\* What a step of a process does to the rest: it changes no other process,
\* and at most the file at its own path, which is its own while it listens.
LEMMA OwnStep ==
    ASSUME Inv, NEW p \in Proc,
           Step(p) \/ Manage(p) \/ Crash(p) \/ HandlersEnd(p) \/ RunByHand(p) \/ AskToStop(p)
    PROVE  /\ UNCHANGED manager
           /\ \A q \in Proc \ {p} : proc'[q] = proc[q]
           /\ \A x \in Path \ {SocketOf(p)} : file'[x] = file[x]
           /\ "api" \in proc'[p].up =>
                file'[SocketOf(p)] = p \/ ("api" \in proc[p].up /\ file' = file)
  <1>1. proc \in [Proc -> ProcState] /\ file \in [Path -> Proc \cup {NoProc}]
        /\ SocketOf(p) \in Path
    BY ServersAndPaths DEF Inv
  <1>2. CASE StartApi(p)
    BY <1>1, <1>2 DEF StartApi, Starts
  <1>3. CASE StopApi(p)
    BY <1>1, <1>3 DEF StopApi, Stops, ProcState
  <1>4. ASSUME NEW k \in Server, k # "api", Starts(p, k) \/ Stops(p, k), UNCHANGED file
        PROVE  /\ UNCHANGED manager
               /\ \A q \in Proc \ {p} : proc'[q] = proc[q]
               /\ "api" \in proc'[p].up => "api" \in proc[p].up
    <2>1. CASE Starts(p, k)
      BY <1>1, <1>4, <2>1 DEF Starts, ProcState
    <2>2. CASE Stops(p, k)
      BY <1>1, <2>2 DEF Stops, ProcState
    <2> QED
      BY <1>4, <2>1, <2>2
  <1>5. CASE OpenStore(p) \/ StartRemote(p) \/ StartPeering(p) \/ StartNames(p) \/ StartPool(p)
    BY <1>4, <1>5 DEF OpenStore, StartRemote, StartPeering, StartNames, StartPool, Server
  <1>6. CASE StopNames(p) \/ StopPool(p) \/ StopPeering(p) \/ StopRemote(p) \/ CloseStore(p)
    BY <1>4, <1>6 DEF StopNames, StopPool, StopPeering, StopRemote, CloseStore, Server
  <1>7. CASE BindFails(p) \/ Crash(p) \/ Exits(p) \/ RunByHand(p) \/ ManagerRuns(p)
    BY <1>1, <1>7 DEF BindFails, Crash, Exits, RunByHand, ManagerRuns, Off
  <1>8. CASE BecomesReady(p) \/ BeginStop(p) \/ AskToStop(p) \/ HandlersEnd(p)
    BY <1>1, <1>8 DEF BecomesReady, BeginStop, AskToStop, HandlersEnd, ProcState
  <1> QED
    BY <1>2, <1>3, <1>5, <1>6, <1>7, <1>8 DEF Step, Manage

\* No two processes share a path.
LEMMA PathsDiffer ==
    ASSUME Proc \ Service \subseteq OwnSettings, NEW p \in Proc, NEW q \in Proc, p # q
    PROVE  SocketOf(p) # SocketOf(q)
  <1>1. p \in Service /\ q \in Service => ScopeOf[p] # ScopeOf[q]
    BY ServiceOfScope, ScopeOfType
  <1> QED
    BY <1>1, OwnPathsDiffer, ServiceAreProcs, ScopeOfType DEF SocketOf

\* The step of a process brings nothing back into a scope without its unit:
\* its service is not started, and nobody else binds its path.
LEMMA ProcessKeepsGone ==
    ASSUME Proc \ Service \subseteq OwnSettings, Inv, NEW p \in Proc, NEW s \in Scope, GoneIn(s),
           Step(p) \/ Manage(p) \/ Crash(p) \/ HandlersEnd(p) \/ RunByHand(p) \/ AskToStop(p)
    PROVE  GoneIn(s)'
  <1>1. UNCHANGED manager
    BY OwnStep
  <1>2. SUFFICES ASSUME ~unit[s], ~botched[s]
                 PROVE  ~Alive(Svc(s))' /\ file'[s] = NoProc
    BY <1>1 DEF GoneIn, manager
  <1>3. ~want[s] /\ ~Alive(Svc(s)) /\ file[s] = NoProc /\ s \in Path
    BY <1>2 DEF GoneIn, Path
  <1>4. CASE Svc(s) = p
    <2>1. proc[p].pc \in {"unborn", "off"} /\ ~proc[p].left /\ p \in Service /\ ScopeOf[p] = s
      BY <1>3, <1>4, ServiceOfScope DEF Alive, Inv, ProcOK
    <2> QED
      BY <1>3, <2>1
      DEF Step, Manage, Crash, HandlersEnd, Exits, RunByHand, AskToStop, ManagerRuns, OpenStore,
          StartApi, StartRemote, StartPeering, StartNames, StartPool, Starts, BindFails,
          BecomesReady, BeginStop, Running, StopNames, StopPool, StopPeering, StopRemote, StopApi,
          CloseStore, Stops
  <1>5. CASE Svc(s) # p
    <2>1. SocketOf(p) # s
      BY <1>5, ServiceOfScope, OwnPathsDiffer, ServiceAreProcs DEF SocketOf
    <2> QED
      BY <1>3, <1>5, <2>1, OwnStep, ServiceOfScope DEF Alive
  <1> QED
    BY <1>4, <1>5

\* Nor does a command, in this scope or the other.
LEMMA CommandKeepsGone ==
    ASSUME Inv, NEW s \in Scope, NEW c \in Scope, GoneIn(s),
           Proceed(c) \/ Install(c) \/ Uninstall(c) \/ Control(c) \/ Restart(c)
    PROVE  GoneIn(s)'
  <1>1. proc' = proc
    BY DEF Proceed, InstallLoads, UninstallRemoves, Removes, RestartStarts, Install, Uninstall,
           Control, Restart, Command
  <1>2. Alive(Svc(s))' <=> Alive(Svc(s))
    BY <1>1 DEF Alive
  <1>3. file'[s] = file[s] \/ file'[s] = NoProc
    BY DEF Inv, Path, Proceed, InstallLoads, UninstallRemoves, RestartStarts, Install, Uninstall,
           Control, Restart
  <1> USE DEF Inv, Manager
  <1>4. CASE c # s
    <2>1. /\ unit'[s] = unit[s] /\ want'[s] = want[s] /\ cmd'[s] = cmd[s]
          /\ botched'[s] = botched[s]
      BY <1>4 DEF Proceed, InstallLoads, UninstallRemoves, Removes, RestartStarts, Install,
                  Uninstall, Control, Restart, Command
    <2> QED
      BY <1>2, <1>3, <2>1 DEF GoneIn
  <1>5. CASE c = s
    <2>1. CASE InstallLoads(s)
      BY <2>1 DEF InstallLoads, GoneIn
    <2>2. CASE UninstallRemoves(s)
      <3>1. file'[s] = NoProc
        BY <2>2 DEF UninstallRemoves, Path
      <3> QED
        BY <1>2, <2>2, <3>1 DEF UninstallRemoves, MayRemove, Removes, GoneIn
    <2>3. CASE RestartStarts(s)
      BY <2>3 DEF RestartStarts, GoneIn
    <2>4. CASE Install(s)
      BY <2>4 DEF Install, Command, GoneIn
    <2>5. CASE Uninstall(s) \/ Control(s) \/ Restart(s)
      BY <2>5 DEF Uninstall, Control, Restart, Command, GoneIn
    <2> QED
      BY <1>5, <2>1, <2>2, <2>3, <2>4, <2>5 DEF Proceed
  <1> QED
    BY <1>4, <1>5

\* After an uninstall nothing is left: no process that the manager would run
\* or has running, and no socket file for a client to find (service.py,
\* paths.py), whatever crashed and whatever command failed before, unless the
\* tool failed to stop a service that ran, which the code takes for one that
\* was stopped already.
THEOREM UninstallLeavesNothing ==
    ASSUME Proc \ Service \subseteq OwnSettings
    PROVE  Spec => []UninstalledIsGone
  <1> DEFINE Gone == \A s \in Scope : GoneIn(s)
  <1>1. Init => Gone
    <2> SUFFICES ASSUME Init, NEW s \in Scope
                 PROVE  GoneIn(s)
      OBVIOUS
    <2>1. proc[Svc(s)] = Off
      BY ServiceOfScope DEF Init
    <2> QED
      BY <2>1 DEF Init, GoneIn, Alive, Off, Path
  <1>2. Inv /\ Gone /\ [Next]_vars => Gone'
    <2> SUFFICES ASSUME Inv, Gone, [Next]_vars, NEW s \in Scope
                 PROVE  GoneIn(s)'
      OBVIOUS
    <2>1. GoneIn(s)
      OBVIOUS
    <2>2. CASE UNCHANGED vars
      BY <2>1, <2>2 DEF vars, GoneIn, Alive
    <2> QED
      BY <2>1, <2>2, ProcessKeepsGone, CommandKeepsGone DEF Next
  <1>3. Gone => UninstalledIsGone
    BY DEF GoneIn, UninstalledIsGone
  <1> QED
    BY <1>1, <1>2, <1>3, Invariance, PTL DEF Spec

\* A daemon whose API listens is the one its clients find at its path, for
\* any number of processes with their own settings beside the two services,
\* through crashes, restarts, failed starts and uninstalls that race a stop
\* (api.py, start and stop; service.py, the uninstalls), unless an uninstall
\* failed to stop the service.
THEOREM ListeningDaemonIsFound ==
    ASSUME Proc \ Service \subseteq OwnSettings
    PROVE  Spec => []DaemonCanBeFound
  <1> DEFINE AllFound == \A p \in Proc : Found(p)
  <1>1. Init => AllFound
    <2> SUFFICES ASSUME Init, NEW p \in Proc
                 PROVE  Found(p)
      OBVIOUS
    <2>1. proc[p].up = {}
      BY DEF Init, Off, Unborn
    <2> QED
      BY <2>1 DEF Found
  <1>2. Inv /\ AllFound /\ [Next]_vars => AllFound'
    <2> SUFFICES ASSUME Inv, AllFound, [Next]_vars, NEW p \in Proc
                 PROVE  Found(p)'
      OBVIOUS
    <2>1. Found(p) /\ SocketOf(p) \in Path
      BY ServersAndPaths
    <2>2. CASE UNCHANGED vars
      BY <2>1, <2>2 DEF vars, Found
    <2>3. ASSUME NEW q \in Proc, Step(q) \/ Manage(q) \/ Crash(q) \/ HandlersEnd(q)
                                   \/ RunByHand(q) \/ AskToStop(q)
          PROVE  Found(p)'
      <3>1. UNCHANGED manager
        BY <2>3, OwnStep
      <3>2. CASE q = p
        BY <2>1, <2>3, <3>1, <3>2, OwnStep DEF Found, manager
      <3>3. CASE q # p
        <4>1. proc'[p] = proc[p] /\ file'[SocketOf(p)] = file[SocketOf(p)]
          BY <2>1, <2>3, <3>3, OwnStep, PathsDiffer
        <4> QED
          BY <2>1, <3>1, <4>1 DEF Found, manager
      <3> QED
        BY <3>2, <3>3
    <2>4. ASSUME NEW s \in Scope,
                 Proceed(s) \/ Install(s) \/ Uninstall(s) \/ Control(s) \/ Restart(s)
          PROVE  Found(p)'
      <3>1. proc' = proc
        BY <2>4 DEF Proceed, InstallLoads, UninstallRemoves, Removes, RestartStarts, Install,
                    Uninstall, Control, Restart, Command
      <3>2. CASE UninstallRemoves(s)
        <4>1. /\ file' = [file EXCEPT ![s] = NoProc] /\ file \in [Path -> Proc \cup {NoProc}]
              /\ \A c \in Scope : c # s => botched'[c] = botched[c]
              /\ botched'[s] = (cmd[s] = "forcing" /\ (want[s] \/ Alive(Svc(s))))
          BY <3>2 DEF UninstallRemoves, Removes, Inv, Manager
        <4>2. CASE SocketOf(p) = s
          <5>1. p = Svc(s) /\ p \in Service /\ ScopeOf[p] = s
            BY <4>2, OwnPathsDiffer, ServiceOfScope DEF SocketOf
          <5>2. CASE Alive(p)
            BY <3>2, <4>1, <5>1, <5>2 DEF UninstallRemoves, MayRemove, Found
          <5>3. CASE ~Alive(p)
            BY <3>1, <5>3 DEF Alive, Inv, ProcOK, Found
          <5> QED
            BY <5>2, <5>3
        <4>3. CASE SocketOf(p) # s
          <5>1. file'[SocketOf(p)] = file[SocketOf(p)]
            BY <2>1, <4>1, <4>3
          <5>2. p \in Service => botched'[ScopeOf[p]] = botched[ScopeOf[p]]
            BY <4>1, <4>3, ScopeOfType, ServiceAreProcs DEF SocketOf
          <5> QED
            BY <2>1, <3>1, <5>1, <5>2 DEF Found
        <4> QED
          BY <4>2, <4>3
      <3>3. CASE ~UninstallRemoves(s)
        <4>1. file' = file /\ botched' = botched
          BY <2>4, <3>3 DEF Proceed, InstallLoads, RestartStarts, Install, Uninstall, Control, Restart
        <4> QED
          BY <2>1, <3>1, <4>1 DEF Found
      <3> QED
        BY <3>2, <3>3
    <2> QED
      BY <2>2, <2>3, <2>4 DEF Next
  <1>3. AllFound => DaemonCanBeFound
    BY DEF Found, DaemonCanBeFound
  <1> QED
    BY <1>1, <1>2, <1>3, Invariance, PTL DEF Spec
=============================================================================

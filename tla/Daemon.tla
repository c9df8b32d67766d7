--------------------------------- MODULE Daemon ---------------------------------
(***************************************************************************)
(* The registry service around registry/daemon.py: the USB scan, the diff  *)
(* against the store, the cross-instance claim, the probe pipeline and the *)
(* post-flash re-probe, run by the poll loop and, through `rescan`, by API *)
(* threads at the same time; with the lock clients, the replicated events  *)
(* of peers and the process's own death and restart around it.             *)
(*                                                                         *)
(* Every section the code runs under the shared RLock is one action; port  *)
(* I/O and event callbacks, which run outside it, are actions of their own.*)
(***************************************************************************)
EXTENDS DeviceStore, Locks, Naturals

CONSTANTS
    Poll,           \* the main thread, in Daemon.run
    Rescanners,     \* API threads that may serve a `rescan`
    Version,        \* firmware versions
    FirstVersion,
    MaxPlugs,       \* bound: how often a board is plugged in or moved
    MaxDeaths,      \* bound: how often the process dies
    MaxPeerEvents,  \* bound: how many peer events are applied
    Rivals          \* is there a second instance on this host (TRUE/FALSE)

ASSUME UidNonempty == Uid # {}
ASSUME PollIsNoRescanner == Poll \notin Rescanners
ASSUME FirstVersionIsOne == FirstVersion \in Version
ASSUME IdentIsBoardAndVersion == Ident = Uid \X Version
ASSUME BoundsAreNat ==
    MaxPlugs \in Nat /\ MaxDeaths \in Nat /\ MaxPeerEvents \in Nat
ASSUME RivalsIsFlag == Rivals \in BOOLEAN

Runner == Rescanners \cup {Poll}

VARIABLES
    plugged,        \* Uid -> Port or NoPort: the USB bus
    firmware,       \* Uid -> Version: what each board runs
    up,             \* is the service process alive
    rows,           \* the device table (on disk)
    reach,          \* the peer table: Peer -> "up", "down" or "absent"
    locks,          \* LockManager._locks
    claims,         \* Daemon._claims: uids whose flock this process holds
    rival,          \* uids whose flock another instance holds
    flashPending,   \* Daemon._flash_pending: "none", "waiting" or "due"
    runner,         \* the run_once call in progress on each thread
    feed,           \* what a subscriber of the event stream knows of a board
    plugs, deaths, peerEvents

bus == <<plugged, firmware>>
store == <<rows, reach>>
volatile == <<locks, claims, flashPending>>
bounds == <<plugs, deaths, peerEvents>>
vars == <<plugged, firmware, up, rows, reach, locks, claims, rival,
          flashPending, runner, feed, plugs, deaths, peerEvents>>

-----------------------------------------------------------------------------
(***************************************************************************)
(* One run_once call.  seen and expired are the scan and the deadlines     *)
(* reached by the `now` read before it; fire holds the events to publish,  *)
(* todo the uids left to offer to _maybe_probe, and uid/answered/ident/    *)
(* chip the probe in progress.                                             *)
(***************************************************************************)
Pcs == {"idle", "purged", "scanned", "firing", "choosing", "probing",
        "silent", "applying", "raised"}

EventTypes == {"attach", "detach", "identity", "removed"}
Event == EventTypes \X Uid

RunnerState ==
    [pc: Pcs, seen: [Uid -> Port \cup {NoPort}], expired: SUBSET Uid,
     fire: SUBSET Event, todo: SUBSET Uid, uid: Uid, answered: BOOLEAN,
     ident: Ident \cup {NoIdent}, chip: BOOLEAN]

Idle == [pc |-> "idle", seen |-> [u \in Uid |-> NoPort], expired |-> {},
         fire |-> {}, todo |-> {}, uid |-> CHOOSE u \in Uid : TRUE,
         answered |-> FALSE, ident |-> NoIdent, chip |-> FALSE]

AllIdle == [r \in Runner |-> Idle]

Init ==
    /\ plugged = [u \in Uid |-> NoPort]
    /\ firmware = [u \in Uid |-> FirstVersion]
    /\ up = TRUE
    /\ rows = [u \in Uid |-> NoRow]
    /\ reach = [h \in Peer |-> "absent"]
    /\ locks = EmptyTable(Uid)
    /\ claims = {}
    /\ rival = {}
    /\ flashPending = [u \in Uid |-> "none"]
    /\ runner = AllIdle
    /\ feed = [u \in Uid |-> "unknown"]
    /\ plugs = 0 /\ deaths = 0 /\ peerEvents = 0

-----------------------------------------------------------------------------
(***************************************************************************)
(* The environment: USB, the clock, the other instance, the process.       *)
(***************************************************************************)
\* A board is plugged in on a free port; it may come back on another one.
Plug(u, p) ==
    /\ plugs < MaxPlugs
    /\ plugged[u] = NoPort
    /\ \A v \in Uid : plugged[v] # p
    /\ plugged' = [plugged EXCEPT ![u] = p]
    /\ plugs' = plugs + 1
    /\ UNCHANGED <<firmware, up, store, volatile, rival, runner, feed,
                   deaths, peerEvents>>

Unplug(u) ==
    /\ plugged[u] # NoPort
    /\ plugged' = [plugged EXCEPT ![u] = NoPort]
    /\ UNCHANGED <<firmware, up, store, volatile, rival, runner, feed, bounds>>

\* A flash-lock holder (or mbdeploy behind it) writes new firmware.
Flash(u, v) ==
    /\ locks[u].kind = "flash"
    /\ plugged[u] # NoPort
    /\ firmware' = [firmware EXCEPT ![u] = v]
    /\ UNCHANGED <<plugged, up, store, volatile, rival, runner, feed, bounds>>

\* flash_reprobe_timeout_s elapses for a pending uid.
DeadlinePasses(u) ==
    /\ flashPending[u] = "waiting"
    /\ flashPending' = [flashPending EXCEPT ![u] = "due"]
    /\ UNCHANGED <<bus, up, store, locks, claims, rival, runner, feed, bounds>>

\* claims.try_claim: flock refuses a second descriptor, of this process too.
TryClaim(u) == u \notin rival /\ u \notin claims

RivalClaims(u) ==
    /\ Rivals
    /\ plugged[u] # NoPort
    /\ TryClaim(u)
    /\ rival' = rival \cup {u}
    /\ UNCHANGED <<bus, up, store, volatile, runner, feed, bounds>>

RivalReleases(u) ==
    /\ u \in rival
    /\ plugged[u] = NoPort
    /\ rival' = rival \ {u}
    /\ UNCHANGED <<bus, up, store, volatile, runner, feed, bounds>>

\* Process exit: the kernel drops the flocks, every in-memory table is gone.
Exit ==
    /\ up' = FALSE
    /\ locks' = EmptyTable(Uid)
    /\ claims' = {}
    /\ flashPending' = [u \in Uid |-> "none"]
    /\ runner' = AllIdle
    /\ UNCHANGED <<bus, store, rival, feed>>

Die ==
    /\ up
    /\ deaths < MaxDeaths
    /\ deaths' = deaths + 1
    /\ Exit
    /\ UNCHANGED <<plugs, peerEvents>>

Restart ==
    /\ ~up
    /\ up' = TRUE
    /\ UNCHANGED <<bus, store, volatile, rival, runner, feed, bounds>>

-----------------------------------------------------------------------------
(***************************************************************************)
(* Locks, as the API takes and drops them under the shared lock.           *)
(***************************************************************************)
\* A release of uids with Daemon._on_flash_release as its callback: a fresh
\* deadline lies beyond every `now` a running cycle has read.
ReleaseLocks(uids) ==
    LET flashed == FlashReleased(locks, uids)
    IN  /\ locks' = Drop(locks, uids)
        /\ flashPending' = [u \in Uid |-> IF u \in flashed THEN "waiting"
                                          ELSE flashPending[u]]
        /\ runner' = [r \in Runner |->
                        [runner[r] EXCEPT !.expired = @ \ flashed]]

\* _op_lock resolves a known row and refuses a detached local one.
LiveRow(row) == Exists(row) /\ ~(IsLocal(row) /\ row.state = "disconnected")

OpLock(c, u, kind) ==
    /\ up
    /\ LiveRow(rows[u])
    /\ CanAcquire(locks, u)
    /\ locks' = Acquire(locks, u, kind, c)
    /\ UNCHANGED <<bus, up, store, claims, flashPending, rival, runner, feed,
                   bounds>>

\* The holder's unlock, flash end or connection close.
OpRelease(c, u) ==
    /\ up
    /\ Releases(locks, u, c)
    /\ ReleaseLocks({u})
    /\ UNCHANGED <<bus, up, store, claims, rival, feed, bounds>>

\* The liveness sweep: every lock of a holder whose process is gone.
Sweep(c) ==
    /\ up
    /\ DeadHeld(locks, {c}) # {}
    /\ ReleaseLocks(DeadHeld(locks, {c}))
    /\ UNCHANGED <<bus, up, store, claims, rival, feed, bounds>>

-----------------------------------------------------------------------------
(***************************************************************************)
(* Replicated events of peers (peering._apply_event), each applied under   *)
(* the shared lock, and the reachability of the peer's link.  An event     *)
(* still in the socket is applied whatever the link's state is by then.    *)
(***************************************************************************)
PeerEvent ==
    /\ up
    /\ peerEvents < MaxPeerEvents
    /\ peerEvents' = peerEvents + 1
    /\ UNCHANGED <<bus, up, reach, volatile, rival, runner, feed, plugs, deaths>>

PeerAttach(h, u, p) ==
    /\ PeerEvent
    /\ rows' = [rows EXCEPT ![u] = UpsertDevice(@, h, p)]

\* peering._attributed_to; an unknown uid is dropped by the KeyError.
AttributedTo(u, h) == Exists(rows[u]) /\ rows[u].host = h

PeerDetach(h, u) ==
    /\ PeerEvent
    /\ AttributedTo(u, h)
    /\ rows' = [rows EXCEPT ![u] = MarkDisconnected(@)]

\* The event's state field selects the store method.
PeerProbed(row, u, state) ==
    CASE state = "connected" -> ApplyProbeResult(row, TRUE, <<u, FirstVersion>>)
      [] state = "attached_no_announce" -> ApplyProbeResult(row, FALSE, NoIdent)
      [] state = "connected_no_firmware" -> ApplyKnownBlank(row)

PeerIdentity(h, u, state) ==
    /\ PeerEvent
    /\ AttributedTo(u, h)
    /\ rows' = [rows EXCEPT ![u] = PeerProbed(rows[u], u, state)]

\* record_peer_seen / mark_peer_reachable, and mark_peer_unreachable.
PeerSeen(h) ==
    /\ up /\ reach[h] # "up"
    /\ reach' = [reach EXCEPT ![h] = "up"]
    /\ UNCHANGED <<bus, up, rows, volatile, rival, runner, feed, bounds>>

PeerLost(h) ==
    /\ up /\ reach[h] = "up"
    /\ reach' = [reach EXCEPT ![h] = "down"]
    /\ UNCHANGED <<bus, up, rows, volatile, rival, runner, feed, bounds>>

-----------------------------------------------------------------------------
(***************************************************************************)
(* run_once, step by step, on thread r.                                    *)
(***************************************************************************)
\* _op_rescan's locked section: purge every stale row that is not locked.
StaleUnlocked == {u \in CandidatesForPurge(rows, reach) : ~Locked(locks, u)}

RescanPurge(r) ==
    /\ up
    /\ r \in Rescanners
    /\ runner[r].pc = "idle"
    /\ rows' = Purge(rows, reach, StaleUnlocked)
    /\ reach' = PurgePeers(reach)
    /\ runner' = [runner EXCEPT ![r] =
                    [Idle EXCEPT !.pc = "purged",
                                 !.fire = {"removed"} \X StaleUnlocked]]
    /\ UNCHANGED <<bus, up, volatile, rival, feed, bounds>>

\* now = self._now(); current = self._usbwatch.scan(), outside the lock.
Scan(r) ==
    /\ up
    /\ runner[r].pc = IF r = Poll THEN "idle" ELSE "purged"
    /\ runner[r].fire = {}
    /\ runner' = [runner EXCEPT ![r] =
                    [Idle EXCEPT !.pc = "scanned", !.seen = plugged,
                        !.expired = {u \in Uid : flashPending[u] = "due"}]]
    /\ UNCHANGED <<bus, up, store, volatile, rival, feed, bounds>>

Current(r) == {u \in Uid : runner[r].seen[u] # NoPort}

\* Faulty variant: disconnected rows count as attached.
PreviouslyKnown == {u \in Uid : IsLocal(rows[u])}

\* The uids attached here as of the last cycle.
PreviouslyAttached == {u \in Uid : LocallyAttached(rows[u])}

\* The newly seen uids whose claim is granted.
Granted(r) == {u \in Current(r) \ PreviouslyAttached : TryClaim(u)}

\* Faulty variant: only claimed boards can go missing.
UnclaimedNotGone(r) == claims \ Current(r)

\* The uids that went missing.
Gone(r) == PreviouslyAttached \ Current(r)

\* Faulty variant: a detach keeps the claim.
ClaimsLeaked(r) == claims \cup Granted(r)

\* Faulty variant: a granted handle is not kept, so it is closed.
ClaimsNotKept(r) == claims \ Gone(r)

\* What is left of the claims, and of the locks, after the detaches.
ClaimsAfter(r) == (claims \cup Granted(r)) \ Gone(r)

\* Faulty variant: a detach leaves the lock in place.
LocksKept(r) == locks

LocksAfter(r) == Drop(locks, Gone(r))

\* Pending uids still absent past their deadline, once the locks of the
\* uids gone missing have been released (which renews a flash deadline).
TimedOut(r) ==
    {u \in runner[r].expired \ (Current(r) \cup FlashReleased(locks, Gone(r))) :
        flashPending[u] = "due"}

\* The table after the diff, with the timed-out uids in blank marked.
DiffedRow(r, blank, u) ==
    LET row == CASE u \in Granted(r) -> UpsertAttached(rows[u], runner[r].seen[u])
                 [] u \in Gone(r) -> MarkDisconnected(rows[u])
                 [] OTHER -> rows[u]
    IN  IF u \in blank THEN ApplyKnownBlank(row) ELSE row

\* The writes of the locked section, ending in the runner state next.
DiffWrites(r, blank, next) ==
    LET flashed == FlashReleased(locks, Gone(r))
    IN  /\ claims' = ClaimsAfter(r)
        /\ locks' = LocksAfter(r)
        /\ rows' = [u \in Uid |-> DiffedRow(r, blank, u)]
        /\ flashPending' = [u \in Uid |-> CASE u \in flashed -> "waiting"
                                            [] u \in blank -> "none"
                                            [] OTHER -> flashPending[u]]
        /\ runner' = [s \in Runner |->
                        IF s = r THEN next
                        ELSE [runner[s] EXCEPT !.expired = @ \ flashed]]
        /\ UNCHANGED <<bus, up, reach, rival, feed, bounds>>

\* Faulty variant: detach events are not published.
NoDetachEvents(r) ==
    ({"attach"} \X Granted(r)) \cup ({"identity"} \X TimedOut(r))

DiffEvents(r) ==
    ({"attach"} \X Granted(r)) \cup ({"detach"} \X Gone(r))
        \cup ({"identity"} \X TimedOut(r))

\* Attach, detach and timed-out uids; then everything owned and present
\* goes to the probe pass.
Diff(r) ==
    /\ runner[r].pc = "scanned"
    /\ \A u \in TimedOut(r) : Exists(rows[u])
    /\ DiffWrites(r, TimedOut(r),
         [runner[r] EXCEPT
            !.pc = "firing",
            !.expired = {},
            !.fire = DiffEvents(r),
            !.todo = Granted(r) \cup (PreviouslyAttached \cap Current(r))])

\* A timed-out uid without a row: apply_known_blank raises KeyError out of
\* the locked section; what was written before it stays written.
DiffRaises(r, done) ==
    /\ runner[r].pc = "scanned"
    /\ \E u \in TimedOut(r) : ~Exists(rows[u])
    /\ done \subseteq {u \in TimedOut(r) : Exists(rows[u])}
    /\ DiffWrites(r, done, [runner[r] EXCEPT !.pc = "raised"])

\* _fire_events, outside the lock: all attach events, then detach, then
\* identity; and before its scan a rescan's device_removed events.  A
\* subscriber takes an attach or identity for "present".
FireEvent(r, e) ==
    /\ runner[r].pc \in {"purged", "firing"}
    /\ e \in runner[r].fire
    /\ e[1] = "detach" => \A f \in runner[r].fire : f[1] # "attach"
    /\ e[1] = "identity" => \A f \in runner[r].fire : f[1] = "identity"
    /\ feed' = [feed EXCEPT ![e[2]] = IF e[1] \in {"detach", "removed"}
                                        THEN "gone" ELSE "present"]
    /\ runner' = [runner EXCEPT ![r].fire = @ \ {e}]
    /\ UNCHANGED <<bus, up, store, volatile, rival, bounds>>

FireDone(r) ==
    /\ runner[r].pc = "firing"
    /\ runner[r].fire = {}
    /\ runner' = [runner EXCEPT ![r].pc = "choosing"]
    /\ UNCHANGED <<bus, up, store, volatile, rival, feed, bounds>>

\* Faulty variant: a flash-pending board is not eligible again.
EligibleOnce(u) == NeedsProbe(rows[u])

\* _maybe_probe's eligibility check, under the lock; needs_probe raises
\* KeyError for a uid whose row a concurrent rescan purged.
Eligible(u) == NeedsProbe(rows[u]) \/ flashPending[u] # "none"
Probes(u) == Exists(rows[u]) /\ Eligible(u) /\ ~Locked(locks, u)

EligibilityRaises(r, u) ==
    /\ runner[r].pc = "choosing"
    /\ u \in runner[r].todo
    /\ ~Exists(rows[u])
    /\ runner' = [runner EXCEPT ![r].pc = "raised"]
    /\ UNCHANGED <<bus, up, store, volatile, rival, feed, bounds>>

StartProbe(r, u) ==
    /\ runner[r].pc = "choosing"
    /\ u \in runner[r].todo
    /\ Probes(u)
    /\ runner' = [runner EXCEPT ![r] =
                    [runner[r] EXCEPT !.pc = "probing", !.todo = @ \ {u}, !.uid = u]]
    /\ UNCHANGED <<bus, up, store, volatile, rival, feed, bounds>>

SkipProbe(r, u) ==
    /\ runner[r].pc = "choosing"
    /\ u \in runner[r].todo
    /\ Exists(rows[u]) /\ ~Probes(u)
    /\ runner' = [runner EXCEPT ![r].todo = @ \ {u}]
    /\ UNCHANGED <<bus, up, store, volatile, rival, feed, bounds>>

CycleDone(r) ==
    /\ runner[r].pc = "choosing"
    /\ runner[r].todo = {}
    /\ runner' = [runner EXCEPT ![r] = Idle]
    /\ UNCHANGED <<bus, up, store, volatile, rival, feed, bounds>>

\* identity.probe on the scanned port: no answer, a malformed line, or the
\* announcement of whichever board is on that port now.
ProbeReturns(r, answered, ident) ==
    /\ runner[r].pc = "probing"
    /\ ident # NoIdent =>
         /\ answered
         /\ plugged[ident[1]] = runner[r].seen[runner[r].uid]
         /\ ident[2] = firmware[ident[1]]
    /\ runner' = [runner EXCEPT ![r] =
                    [@ EXCEPT !.answered = answered, !.ident = ident,
                              !.pc = IF ident = NoIdent THEN "silent"
                                     ELSE "applying"]]
    /\ UNCHANGED <<bus, up, store, volatile, rival, feed, bounds>>

\* The SWD fallback: read only while no chip identity is cached; it may fail.
SwdFallback(r, read) ==
    /\ runner[r].pc = "silent"
    /\ read => Exists(rows[runner[r].uid]) /\ ~rows[runner[r].uid].chip
    /\ runner' = [runner EXCEPT ![r] = [@ EXCEPT !.chip = read, !.pc = "applying"]]
    /\ UNCHANGED <<bus, up, store, volatile, rival, feed, bounds>>

\* _maybe_probe's second locked section.
ProbedRow(r) ==
    LET row == rows[runner[r].uid]
        probed == IF ~runner[r].answered /\ flashPending[runner[r].uid] # "none"
                    THEN ApplyKnownBlank(row)
                    ELSE ApplyProbeResult(row, runner[r].answered, runner[r].ident)
    IN  IF runner[r].chip THEN SetChipIdentity(probed) ELSE probed

Apply(r) ==
    LET u == runner[r].uid
    IN  /\ runner[r].pc = "applying"
        /\ Exists(rows[u])
        /\ rows' = [rows EXCEPT ![u] = ProbedRow(r)]
        /\ flashPending' = [flashPending EXCEPT ![u] = "none"]
        /\ runner' = [runner EXCEPT ![r] =
                        [@ EXCEPT !.pc = "firing", !.fire = {<<"identity", u>>},
                                  !.answered = FALSE, !.ident = NoIdent,
                                  !.chip = FALSE]]
        /\ UNCHANGED <<bus, up, reach, locks, claims, rival, feed, bounds>>

ApplyRaises(r) ==
    /\ runner[r].pc = "applying"
    /\ ~Exists(rows[runner[r].uid])
    /\ runner' = [runner EXCEPT ![r].pc = "raised"]
    /\ UNCHANGED <<bus, up, store, volatile, rival, feed, bounds>>

\* An exception ends the poll loop, and with it the process; on an API
\* thread it only ends that thread's connection.
Unwind(r) ==
    /\ runner[r].pc = "raised"
    /\ \/ r = Poll /\ Exit /\ UNCHANGED bounds
       \/ /\ r \in Rescanners
          /\ runner' = [runner EXCEPT ![r] = Idle]
          /\ UNCHANGED <<bus, up, store, volatile, rival, feed, bounds>>

-----------------------------------------------------------------------------
Environment ==
    \/ \E u \in Uid, p \in Port : Plug(u, p)
    \/ \E u \in Uid : Unplug(u) \/ DeadlinePasses(u)
    \/ \E u \in Uid, v \in Version : Flash(u, v)
    \/ \E u \in Uid : RivalClaims(u) \/ RivalReleases(u)
    \/ Die
    \/ Restart

Clients ==
    \/ \E c \in Holder, u \in Uid, k \in Kind : OpLock(c, u, k)
    \/ \E c \in Holder, u \in Uid : OpRelease(c, u)
    \/ \E c \in Holder : Sweep(c)

Peers ==
    \/ \E h \in Peer, u \in Uid, p \in Port : PeerAttach(h, u, p)
    \/ \E h \in Peer, u \in Uid : PeerDetach(h, u)
    \/ \E h \in Peer, u \in Uid, s \in Attached \ {"attached_unprobed"} :
         PeerIdentity(h, u, s)
    \/ \E h \in Peer : PeerSeen(h) \/ PeerLost(h)

Step(r) ==
    \/ RescanPurge(r)
    \/ Scan(r)
    \/ Diff(r)
    \/ \E done \in SUBSET Uid : DiffRaises(r, done)
    \/ \E e \in Event : FireEvent(r, e)
    \/ FireDone(r)
    \/ \E u \in Uid :
         EligibilityRaises(r, u) \/ StartProbe(r, u) \/ SkipProbe(r, u)
    \/ CycleDone(r)
    \/ \E answered \in BOOLEAN, ident \in Ident \cup {NoIdent} :
         ProbeReturns(r, answered, ident)
    \/ \E read \in BOOLEAN : SwdFallback(r, read)
    \/ Apply(r)
    \/ ApplyRaises(r)
    \/ Unwind(r)

Next == Environment \/ Clients \/ Peers \/ \E r \in Runner : Step(r)

Spec == Init /\ [][Next]_vars
-----------------------------------------------------------------------------
(***************************************************************************)
(* Properties.                                                             *)
(***************************************************************************)
\* The type invariant: every row has a known owner and state, every lock is
\* whole or absent, every run_once call is at a known step.
TypeOK ==
    /\ plugged \in [Uid -> Port \cup {NoPort}]
    /\ firmware \in [Uid -> Version]
    /\ up \in BOOLEAN
    /\ rows \in [Uid -> Row]
    /\ reach \in [Peer -> {"up", "down", "absent"}]
    /\ locks \in [Uid -> Entry]
    /\ claims \subseteq Uid
    /\ rival \subseteq Uid
    /\ flashPending \in [Uid -> {"none", "waiting", "due"}]
    /\ runner \in [Runner -> RunnerState]
    /\ feed \in [Uid -> {"unknown", "present", "gone"}]
    /\ plugs \in 0..MaxPlugs
    /\ deaths \in 0..MaxDeaths
    /\ peerEvents \in 0..MaxPeerEvents

\* A held flock always belongs to a row this host owns and has attached: no
\* claim outlives its attachment, through any interleaving of the two
\* run_once threads, purges, peers and flash timeouts.  A leaked claim would
\* deny the board to this process for ever (run_once's claim branch), since
\* flock refuses the process's own second descriptor.
ClaimedIsOwned == \A u \in claims : LocallyAttached(rows[u])

\* A lock is only ever on a row that exists and is not a local disconnected
\* one: detach releases it in the same locked section (UC-002), rescan never
\* purges under it, _op_lock never takes it on a detached board.
LockOnlyOnLiveRow == \A u \in Uid : Locked(locks, u) => LiveRow(rows[u])

\* While this host has a board attached, no step of anyone removes its row
\* or hands it to a peer: a purge or a peer's claim needs an earlier detach.
AttachedRowStaysOurs ==
    [][\A u \in Uid : LocallyAttached(rows[u]) => IsLocal(rows[u])']_vars

\* A port is only opened, and the debug probe only read, for a board whose
\* flock this process holds: what run_once's claim-then-own order is for
\* ("this is what stops this instance from ever opening a port").
ProbeHoldsClaim ==
    \A r \in Runner : runner[r].pc \in {"probing", "silent"} =>
        runner[r].uid \in claims

\* "Two instances on one host must never both open a board"
\* (robot-console-integration.md): no port is opened for a board whose flock
\* another instance holds, restarts of this process included.
ProbeHasNoRival ==
    \A r \in Runner : runner[r].pc \in {"probing", "silent"} =>
        runner[r].uid \notin rival

\* Every row listed as attached here has its claim held: run_once ties a
\* claim's lifetime to "this uid is currently attached to this instance".
AttachedIsClaimed == \A u \in Uid : up /\ LocallyAttached(rows[u]) => u \in claims

\* Whenever no event is waiting to be published, the event stream has told
\* its subscribers exactly which boards are attached here: _fire_events loses
\* no change and no attach overtakes the detach that undid it.
FeedMatchesTable ==
    (up /\ \A r \in Runner : runner[r].fire = {}) =>
        \A u \in Uid : feed[u] = "present" <=> LocallyAttached(rows[u])

(***************************************************************************)
(* Fairness: the poll loop runs for ever, a rescan that started is carried *)
(* through, time passes, and the service manager restarts a dead process.  *)
(* Nothing is assumed of clients, peers, the bus or the other instance.    *)
(***************************************************************************)
Continue(r) == runner[r].pc # "idle" /\ Step(r)

FairSpec ==
    /\ Spec
    /\ WF_vars(Step(Poll))
    /\ \A r \in Rescanners : WF_vars(Continue(r))
    /\ \A u \in Uid : WF_vars(DeadlinePasses(u))
    /\ WF_vars(Restart)

\* A board left plugged in, unlocked and unclaimed by a rival ends up listed
\* as attached and probed, whatever deaths, rescans and peers came before.
PresentBoardIsProbed ==
    \A u \in Uid :
        <>[](plugged[u] # NoPort /\ ~Locked(locks, u) /\ u \notin rival)
            => <>[](LocallyAttached(rows[u]) /\ rows[u].probed)

\* A board that stays away is eventually no longer listed as attached here,
\* even if the flash timeout marked its row known-blank after it had gone.
\* The premise on locks is needed: a client that flash-locks the known-blank
\* row every time it reappears has it marked known-blank again by the
\* release that the next scan's detach makes.
AbsentBoardIsDelisted ==
    \A u \in Uid : <>[](plugged[u] = NoPort /\ ~Locked(locks, u))
        => <>[]~LocallyAttached(rows[u])

\* The wait for a post-flash re-probe ends, by a probe or by the timeout,
\* once the board is left unlocked.  The premise on rival is needed: a board
\* another instance has claimed is in the scan, so its wait cannot time out,
\* and not in the probe pass, so it cannot be probed.
FlashWaitEnds ==
    \A u \in Uid :
        <>[](~Locked(locks, u) /\ u \notin rival)
            => (flashPending[u] # "none" ~> flashPending[u] = "none")
=============================================================================

-------------------------------- MODULE Peering --------------------------------
(***************************************************************************)
(* registry/peering.py: how this registry mirrors the boards of its peers. *)
(*                                                                         *)
(* Each peer writes its own device table, publishes an event for every     *)
(* change, and answers snapshot requests.  Here, one link per peer runs    *)
(* three kinds of threads on the shared store: the receive loop, the       *)
(* socket monitor, and fetches of the snapshot (the link's first one, the  *)
(* resync of a dropped link, the one a rescan forces, and one of those     *)
(* that outlives a replaced link).  The subscription and the snapshot      *)
(* request use different TCP connections, so nothing orders their          *)
(* messages, and either may be lost without the other.                     *)
(*                                                                         *)
(* Lock display events and names are left out; ports are dropped from the  *)
(* payloads.                                                               *)
(***************************************************************************)
EXTENDS DeviceStore, Sequences, Naturals

CONSTANTS
    Nowhere,        \* a board plugged in nowhere
    Faults,         \* subset of {"drop", "stop", "here"}
    MaxPlugs,       \* bound on how often boards are moved
    MaxFaults       \* bound on drops, lost requests, stops, rediscoveries
                    \* and rescans

ASSUME NowhereIsNoHost == Nowhere \notin Peer \cup {Local}
ASSUME BoundsAreNat == {MaxPlugs, MaxFaults} \subseteq Nat

VARIABLES
    plug,       \* Uid -> the host its USB cable is in
    own,        \* Peer -> that peer's own device table
    unsent,     \* Peer -> events its daemon has written but not published
    alive,      \* Peer -> its process runs
    rows,       \* this registry's device table
    reach,      \* Peer -> "up", "down", or "absent" without a peer row
    sub,        \* Peer -> the SUB connection: "none", "connecting", "up", "down"
    inbox,      \* Peer -> events queued in the SUB socket
    monitor,    \* Peer -> connection events queued in the monitor socket
    dropped,    \* Peer -> _link_dropped
    receiving,  \* Peer -> the receive loop runs
    fetch,      \* Peer -> thread -> where its _fetch_snapshot is
    sync,       \* history: Peer -> "lost", "intact", "synced" or "purged"
    count       \* how much of each bound is used

peerVars == <<plug, own, unsent, alive>>
linkVars == <<sub, inbox, monitor, dropped, receiving>>
vars == <<plug, own, unsent, alive, rows, reach, sub, inbox, monitor, dropped,
          receiving, fetch, sync, count>>

(***************************************************************************)
(* The threads that fetch: _snapshot_thread, _resync_thread, and           *)
(* force_resync's; the last two share _resync_guard.  "old" is a thread of *)
(* force_resync whose link was replaced: stop() joins the other two only.  *)
(* It still looks at the _link_dropped of its own link, which nobody sets  *)
(* any more (seen).                                                        *)
(***************************************************************************)
Threads == {"first", "resync", "force", "old"}
FetchPcs == {"idle", "starting", "asking", "lost", "answered", "applied", "marking",
             "failed"}

NoSnapshot == [u \in {} |-> NoRow]
Fetch(pc, snap, inStep, seen) ==
    [pc |-> pc, snap |-> snap, inStep |-> inStep, seen |-> seen]
Idle == Fetch("idle", NoSnapshot, FALSE, FALSE)

(***************************************************************************)
(* History.  sync[h] is "lost" while events were lost that came after some *)
(* still in the inbox, "intact" when none were, and "synced" when also the *)
(* last snapshot was built for the intact subscription and was applied     *)
(* before any event that followed it (inStep).  It is "purged" from then   *)
(* on when a rescan deletes the peer's rows, or rows of boards this host   *)
(* had, about which it has ignored what the peer said.                     *)
(***************************************************************************)
Overtaken(h) ==
    [fetch EXCEPT ![h] = [t \in Threads |->
        [fetch[h][t] EXCEPT !.inStep = @ /\ fetch[h][t].pc # "answered"]]]
Refilled(h, queue) ==
    [sync EXCEPT ![h] = IF queue = <<>> /\ @ = "lost" THEN "intact" ELSE @]

\* _resync_guard is held from the request to the end of the fetch.
GuardFree(h) == \A t \in {"resync", "force"} : fetch[h][t].pc \in {"idle", "starting"}

\* Peers may have had boards attached and probed before this registry starts.
SilentRow == ApplyProbeResult(UpsertAttached(NoRow, NoPort), FALSE, NoIdent)

Init ==
    /\ plug \in [Uid -> Peer \cup {Nowhere}]
    /\ own = [h \in Peer |-> [u \in Uid |-> IF plug[u] = h THEN SilentRow ELSE NoRow]]
    /\ unsent = [h \in Peer |-> <<>>]
    /\ alive = [h \in Peer |-> TRUE]
    /\ rows = [u \in Uid |-> NoRow]
    /\ reach = [h \in Peer |-> "absent"]
    /\ sub = [h \in Peer |-> "none"]
    /\ inbox = [h \in Peer |-> <<>>]
    /\ monitor = [h \in Peer |-> <<>>]
    /\ dropped = [h \in Peer |-> FALSE]
    /\ receiving = [h \in Peer |-> FALSE]
    /\ fetch = [h \in Peer |-> [t \in Threads |-> Idle]]
    /\ sync = [h \in Peer |-> "lost"]
    /\ count = [plugs |-> 0, faults |-> 0]

Use(what, bound) == count[what] < bound /\ count' = [count EXCEPT ![what] = @ + 1]
-----------------------------------------------------------------------------
(***************************************************************************)
(* The peer.  Its daemon writes one change at a time and publishes it      *)
(* after it has released its lock.                                         *)
(***************************************************************************)
Plug(u, h) ==
    /\ h # plug[u]
    /\ h = Local => "here" \in Faults
    /\ Use("plugs", MaxPlugs)
    /\ plug' = [plug EXCEPT ![u] = h]
    /\ UNCHANGED <<own, unsent, alive, rows, reach, linkVars, fetch, sync>>

Event(type, u, row) == [type |-> type, uid |-> u, row |-> row]

PeerWrite(h, u, type, row) ==
    /\ alive[h] /\ unsent[h] = <<>>
    /\ own' = [own EXCEPT ![h][u] = row]
    /\ unsent' = [unsent EXCEPT ![h] = <<Event(type, u, row)>>]
    /\ UNCHANGED <<plug, alive, rows, reach, linkVars, fetch, sync, count>>

PeerAttach(h, u) ==
    /\ plug[u] = h /\ ~IsAttached(own[h][u])
    /\ PeerWrite(h, u, "attach", UpsertAttached(own[h][u], NoPort))

PeerDetach(h, u) ==
    /\ plug[u] # h /\ IsAttached(own[h][u])
    /\ PeerWrite(h, u, "detach", MarkDisconnected(own[h][u]))

\* The board announces itself or stays silent.
PeerProbe(h, u) ==
    /\ IsAttached(own[h][u]) /\ NeedsProbe(own[h][u])
    /\ \/ \E i \in Ident :
            PeerWrite(h, u, "identity", ApplyProbeResult(own[h][u], TRUE, i))
       \/ PeerWrite(h, u, "identity", ApplyProbeResult(own[h][u], FALSE, NoIdent))

\* publish_event: PUB drops what no subscriber is connected for.
PeerPublish(h) ==
    /\ alive[h] /\ unsent[h] # <<>>
    /\ unsent' = [unsent EXCEPT ![h] = Tail(@)]
    /\ inbox' = IF sub[h] = "up" THEN [inbox EXCEPT ![h] = Append(@, Head(unsent[h]))]
                ELSE inbox
    /\ IF sub[h] = "up" THEN UNCHANGED <<sync, fetch>>
         ELSE sync' = [sync EXCEPT ![h] = "lost"] /\ fetch' = Overtaken(h)
    /\ UNCHANGED <<plug, own, alive, rows, reach, sub, monitor, dropped, receiving, count>>

(***************************************************************************)
(* The SUB connection, which ZeroMQ makes and remakes by itself.  What a   *)
(* lost connection had already delivered may still be read or may be gone. *)
(***************************************************************************)
Lose(h) ==
    /\ sub' = [sub EXCEPT ![h] = IF @ = "none" THEN "none" ELSE "down"]
    /\ monitor' = IF sub[h] = "up" THEN [monitor EXCEPT ![h] = Append(@, "disconnected")]
                  ELSE monitor
    /\ inbox' \in {inbox, [inbox EXCEPT ![h] = <<>>]}
    /\ sync' = [sync EXCEPT ![h] = "lost"]
    /\ fetch' = Overtaken(h)

Handshake(h) ==
    /\ alive[h] /\ sub[h] \in {"connecting", "down"}
    /\ sub' = [sub EXCEPT ![h] = "up"]
    /\ monitor' = [monitor EXCEPT ![h] = Append(@, "connected")]
    /\ sync' = Refilled(h, inbox[h])
    /\ UNCHANGED <<peerVars, rows, reach, inbox, dropped, receiving, fetch, count>>

LinkDrops(h) ==
    /\ "drop" \in Faults /\ sub[h] = "up"
    /\ Use("faults", MaxFaults)
    /\ Lose(h)
    /\ UNCHANGED <<peerVars, rows, reach, dropped, receiving>>

PeerStops(h) ==
    /\ "stop" \in Faults /\ alive[h]
    /\ Use("faults", MaxFaults)
    /\ alive' = [alive EXCEPT ![h] = FALSE]
    /\ unsent' = [unsent EXCEPT ![h] = <<>>]
    /\ Lose(h)
    /\ UNCHANGED <<plug, own, rows, reach, dropped, receiving>>
-----------------------------------------------------------------------------
(***************************************************************************)
(* Applying what a peer says to the store.                                 *)
(***************************************************************************)
\* The announcement and state layer of a snapshot device or identity event.
ApplyState(row, told) ==
    CASE told.state = "connected" -> ApplyProbeResult(row, TRUE, told.ident)
      [] told.state = "attached_no_announce" -> ApplyProbeResult(row, FALSE, NoIdent)
      [] told.state = "connected_no_firmware" -> ApplyKnownBlank(row)
      [] OTHER -> row

AttributedTo(row, h) == Exists(row) /\ row.host = h

ApplyEvent(table, h, e) ==
    LET row == table[e.uid]
    IN  [table EXCEPT ![e.uid] =
           CASE e.type = "attach" -> UpsertDevice(row, h, NoPort)
             [] e.type = "detach" /\ AttributedTo(row, h) -> MarkDisconnected(row)
             [] e.type = "identity" /\ AttributedTo(row, h) -> ApplyState(row, e.row)
             [] OTHER -> row]

\* snapshot_local_devices: the rows the peer has attached.
SnapshotOf(table) == [u \in {v \in Uid : LocallyAttached(table[v])} |-> table[u]]

SnapshotDevice(row, h, told) ==
    LET claimed == UpsertDevice(row, h, NoPort)
    IN  IF claimed.host = h THEN ApplyState(claimed, told) ELSE claimed

\* Faulty variant: rows missing from the snapshot are left as they are.
ApplySnapshotAddOnly(table, h, snap) ==
    [u \in Uid |-> IF u \in DOMAIN snap THEN SnapshotDevice(table[u], h, snap[u])
                   ELSE table[u]]

\* The devices of the snapshot, then a detach for each row of this peer that
\* is missing from it.
ApplySnapshot(table, h, snap) ==
    [u \in Uid |->
        CASE u \in DOMAIN snap -> SnapshotDevice(table[u], h, snap[u])
          [] u \notin DOMAIN snap /\ AttributedTo(table[u], h) /\ IsAttached(table[u]) ->
                MarkDisconnected(table[u])
          [] OTHER -> table[u]]

\* The receive loop; the history notes the fetches an event overtakes.
ReceiveEvent(h) ==
    /\ receiving[h] /\ inbox[h] # <<>>
    /\ rows' = ApplyEvent(rows, h, Head(inbox[h]))
    /\ inbox' = [inbox EXCEPT ![h] = Tail(@)]
    /\ fetch' = Overtaken(h)
    /\ sync' = IF sub[h] = "up" THEN Refilled(h, Tail(inbox[h])) ELSE sync
    /\ UNCHANGED <<peerVars, reach, sub, monitor, dropped, receiving, count>>
-----------------------------------------------------------------------------
(***************************************************************************)
(* _fetch_snapshot, on any of the threads.                                 *)
(***************************************************************************)
SetReach(h, up) == reach' = [reach EXCEPT ![h] = IF @ = "absent" THEN @ ELSE up]
SetFetch(h, t, to) == fetch' = [fetch EXCEPT ![h][t] = to]
Goto(h, t, pc) == fetch' = [fetch EXCEPT ![h][t].pc = pc]

\* The peer's _rep_loop builds the reply under its lock.
PeerAnswers(h, t) ==
    /\ alive[h] /\ fetch[h][t].pc = "asking"
    /\ SetFetch(h, t, Fetch("answered", SnapshotOf(own[h]),
                            sub[h] = "up" /\ sync[h] # "lost", fetch[h][t].seen))
    /\ UNCHANGED <<peerVars, rows, reach, linkVars, sync, count>>

\* The connection of the request fails under it: neither a REQ nor its reply
\* is sent again.
RequestLost(h, t) ==
    /\ fetch[h][t].pc \in {"asking", "answered"}
    /\ Use("faults", MaxFaults)
    /\ SetFetch(h, t, Fetch("lost", NoSnapshot, FALSE, fetch[h][t].seen))
    /\ UNCHANGED <<peerVars, rows, reach, linkVars, sync>>

\* RCVTIMEO is over, whatever has become of the subscription since.
RequestTimesOut(h, t) ==
    /\ fetch[h][t].pc = "lost" \/ (fetch[h][t].pc = "asking" /\ ~alive[h])
    /\ SetReach(h, "down")
    /\ Goto(h, t, "failed")
    /\ UNCHANGED <<peerVars, rows, linkVars, sync, count>>

ApplyReply(h, t) ==
    /\ fetch[h][t].pc = "answered"
    /\ rows' = ApplySnapshot(rows, h, fetch[h][t].snap)
    /\ SetFetch(h, t, Fetch("applied", NoSnapshot, FALSE, fetch[h][t].seen))
    /\ sync' = [sync EXCEPT ![h] = IF fetch[h][t].inStep THEN "synced"
                                   ELSE IF @ = "lost" THEN "lost" ELSE "intact"]
    /\ UNCHANGED <<peerVars, reach, linkVars, count>>

\* A link already seen dropped is not marked reachable.
CheckDropped(h, t) ==
    /\ fetch[h][t].pc = "applied"
    /\ Goto(h, t, IF (IF t = "old" THEN fetch[h][t].seen ELSE dropped[h]) THEN "failed" ELSE "marking")
    /\ UNCHANGED <<peerVars, rows, reach, linkVars, sync, count>>

\* The first fetch is followed by the receive loop, whatever came of it.
StartReceiving(h, t) == receiving' = [receiving EXCEPT ![h] = @ \/ t = "first"]

MarkReachable(h, t) ==
    /\ fetch[h][t].pc = "marking"
    /\ SetReach(h, "up")
    /\ SetFetch(h, t, Idle)
    /\ StartReceiving(h, t)
    /\ UNCHANGED <<peerVars, rows, sub, inbox, monitor, dropped, sync, count>>

\* Faulty variant: a resync that fails leaves _link_dropped cleared.
FetchFailsSilently(h, t) ==
    /\ fetch[h][t].pc = "failed"
    /\ SetFetch(h, t, Idle)
    /\ StartReceiving(h, t)
    /\ UNCHANGED <<peerVars, rows, reach, sub, inbox, monitor, dropped, sync, count>>

\* A resync that fails sets _link_dropped again.
FetchFails(h, t) ==
    /\ fetch[h][t].pc = "failed"
    /\ SetFetch(h, t, Idle)
    /\ dropped' = [dropped EXCEPT ![h] = @ \/ t = "resync"]
    /\ StartReceiving(h, t)
    /\ UNCHANGED <<peerVars, rows, reach, sub, inbox, monitor, sync, count>>
-----------------------------------------------------------------------------
(***************************************************************************)
(* The link's other threads.                                               *)
(***************************************************************************)
\* connect_peer, from a resolved mDNS record or a --peer option: the peer is
\* recorded as reachable, the old link's threads end, but for the one of
\* force_resync, and a new link starts.  Bound: one such thread at a time.
LeftBehind(h) ==
    IF fetch[h]["force"].pc = "idle" THEN [fetch[h]["old"] EXCEPT !.inStep = FALSE]
    ELSE [fetch[h]["force"] EXCEPT !.inStep = FALSE, !.seen = dropped[h]]

PeerSeen(h) ==
    /\ IF sub[h] = "none" THEN UNCHANGED count ELSE Use("faults", MaxFaults)
    /\ \A t \in {"first", "resync"} : fetch[h][t].pc = "idle"
    /\ "idle" \in {fetch[h]["force"].pc, fetch[h]["old"].pc}
    /\ reach' = [reach EXCEPT ![h] = "up"]
    /\ sub' = [sub EXCEPT ![h] = "connecting"]
    /\ inbox' = [inbox EXCEPT ![h] = <<>>]
    /\ monitor' = [monitor EXCEPT ![h] = <<>>]
    /\ dropped' = [dropped EXCEPT ![h] = FALSE]
    /\ receiving' = [receiving EXCEPT ![h] = FALSE]
    /\ sync' = [sync EXCEPT ![h] = "lost"]
    /\ fetch' = [fetch EXCEPT ![h] =
                    [@ EXCEPT !["old"] = LeftBehind(h), !["force"] = Idle,
                              !["first"] = [Idle EXCEPT !.pc = "asking"]]]
    /\ UNCHANGED <<peerVars, rows>>

\* start_resync: its own thread, unless one is alive or nothing was dropped.
StartResync(h) ==
    fetch' = IF dropped[h] /\ fetch[h]["resync"].pc = "idle"
               THEN [fetch EXCEPT ![h]["resync"].pc = "starting"] ELSE fetch

\* Faulty variant: the store is told, _link_dropped is not set.
MonitorOnlyReports(h) ==
    /\ monitor[h] # <<>> /\ Head(monitor[h]) = "disconnected"
    /\ monitor' = [monitor EXCEPT ![h] = Tail(@)]
    /\ SetReach(h, "down")
    /\ UNCHANGED <<peerVars, rows, sub, inbox, dropped, receiving, fetch, sync, count>>

\* Flag and callback are one step: they are a few statements apart, a resync
\* that came between them a whole request.
MonitorDisconnected(h) ==
    /\ monitor[h] # <<>> /\ Head(monitor[h]) = "disconnected"
    /\ monitor' = [monitor EXCEPT ![h] = Tail(@)]
    /\ dropped' = [dropped EXCEPT ![h] = TRUE]
    /\ SetReach(h, "down")
    /\ UNCHANGED <<peerVars, rows, sub, inbox, receiving, fetch, sync, count>>

MonitorReconnected(h) ==
    /\ monitor[h] # <<>> /\ Head(monitor[h]) = "connected"
    /\ monitor' = [monitor EXCEPT ![h] = Tail(@)]
    /\ StartResync(h)
    /\ UNCHANGED <<peerVars, rows, reach, sub, inbox, dropped, receiving, sync, count>>

\* The periodic retry of _self_check_loop.
SelfCheck(h) ==
    /\ dropped[h] /\ fetch[h]["resync"].pc = "idle"
    /\ StartResync(h)
    /\ UNCHANGED <<peerVars, rows, reach, linkVars, sync, count>>

\* resync: the flag and the guard are looked at again on the thread.
BeginResync(h) ==
    /\ fetch[h]["resync"].pc = "starting"
    /\ IF dropped[h] /\ GuardFree(h)
         THEN /\ Goto(h, "resync", "asking")
              /\ dropped' = [dropped EXCEPT ![h] = FALSE]
         ELSE /\ Goto(h, "resync", "idle")
              /\ UNCHANGED dropped
    /\ UNCHANGED <<peerVars, rows, reach, sub, inbox, monitor, receiving, sync, count>>

\* A purge now deletes what only a snapshot of peer h can bring back.
PurgesFrom(h) ==
    reach[h] = "down" \/ \E u \in CandidatesForPurge(rows, reach) : IsLocal(rows[u])

\* _op_rescan: purge, then force_resync on every link.
Rescan ==
    /\ Use("faults", MaxFaults)
    /\ rows' = Purge(rows, reach, CandidatesForPurge(rows, reach))
    /\ reach' = PurgePeers(reach)
    /\ fetch' = [h \in Peer |->
                   IF sub[h] # "none" /\ fetch[h]["force"].pc = "idle"
                     THEN [fetch[h] EXCEPT !["force"].pc = "starting"] ELSE fetch[h]]
    /\ sync' = [h \in Peer |-> IF sync[h] = "synced" /\ PurgesFrom(h)
                                 THEN "purged" ELSE sync[h]]
    /\ UNCHANGED <<peerVars, linkVars>>

\* Faulty variant: _resync_guard is not taken.
BeginForcedUnguarded(h, t) ==
    /\ t \in {"force", "old"}
    /\ fetch[h][t].pc = "starting"
    /\ Goto(h, t, "asking")
    /\ UNCHANGED <<peerVars, rows, reach, linkVars, sync, count>>

\* The guard of a replaced link is free: its resync was joined.
BeginForced(h, t) ==
    /\ t \in {"force", "old"}
    /\ fetch[h][t].pc = "starting"
    /\ IF t = "old" \/ GuardFree(h) THEN Goto(h, t, "asking") ELSE SetFetch(h, t, Idle)
    /\ UNCHANGED <<peerVars, rows, reach, linkVars, sync, count>>

\* This host's own daemon.
ScanHere(u) ==
    /\ \/ /\ plug[u] = Local /\ ~LocallyAttached(rows[u])
          /\ rows' = [rows EXCEPT ![u] = UpsertAttached(@, NoPort)]
       \/ /\ plug[u] # Local /\ LocallyAttached(rows[u])
          /\ rows' = [rows EXCEPT ![u] = MarkDisconnected(@)]
    /\ UNCHANGED <<peerVars, reach, linkVars, fetch, sync, count>>
-----------------------------------------------------------------------------
PeerDaemon(h) ==
    \/ \E u \in Uid : PeerAttach(h, u) \/ PeerDetach(h, u) \/ PeerProbe(h, u)
    \/ PeerPublish(h)

FetchSteps(h, t) ==
    \/ BeginForced(h, t) \/ PeerAnswers(h, t) \/ RequestTimesOut(h, t)
    \/ ApplyReply(h, t) \/ CheckDropped(h, t) \/ MarkReachable(h, t) \/ FetchFails(h, t)

LinkSteps(h) ==
    \/ ReceiveEvent(h) \/ MonitorDisconnected(h) \/ MonitorReconnected(h)
    \/ BeginResync(h)

Next ==
    \/ \E u \in Uid, h \in Peer \cup {Local, Nowhere} : Plug(u, h)
    \/ \E u \in Uid : ScanHere(u)
    \/ \E h \in Peer :
        \/ PeerDaemon(h) \/ PeerStops(h) \/ PeerSeen(h)
        \/ Handshake(h) \/ LinkDrops(h) \/ LinkSteps(h) \/ SelfCheck(h)
        \/ \E t \in Threads : FetchSteps(h, t) \/ RequestLost(h, t)
    \/ Rescan

Spec == Init /\ [][Next]_vars

(***************************************************************************)
(* Fairness: threads run on, a live peer answers or the request times out, *)
(* ZeroMQ reconnects, the self-check wakes up, daemons scan.  Nothing is   *)
(* assumed of boards, drops, stops, discovery and rescans.                 *)
(***************************************************************************)
FairSpec ==
    /\ Spec
    /\ \A u \in Uid : WF_vars(ScanHere(u))
    /\ \A h \in Peer :
        /\ WF_vars(PeerDaemon(h)) /\ WF_vars(Handshake(h))
        /\ WF_vars(ReceiveEvent(h)) /\ WF_vars(SelfCheck(h))
        /\ WF_vars(MonitorDisconnected(h) \/ MonitorReconnected(h))
        /\ WF_vars(BeginResync(h))
        /\ \A t \in Threads : WF_vars(FetchSteps(h, t))
-----------------------------------------------------------------------------
(***************************************************************************)
(* Properties.                                                             *)
(***************************************************************************)
\* The type invariant: both tables hold whole rows, every fetch is at a known
\* step, and only one of the guarded threads is inside its fetch.
PeeringTypeOK ==
    /\ plug \in [Uid -> Peer \cup {Local, Nowhere}]
    /\ own \in [Peer -> [Uid -> Row]]
    /\ rows \in [Uid -> Row]
    /\ alive \in [Peer -> BOOLEAN]
    /\ reach \in [Peer -> {"up", "down", "absent"}]
    /\ sub \in [Peer -> {"none", "connecting", "up", "down"}]
    /\ {dropped, receiving} \subseteq [Peer -> BOOLEAN]
    /\ sync \in [Peer -> {"lost", "intact", "synced", "purged"}]
    /\ \A h \in Peer, t \in Threads : fetch[h][t].pc \in FetchPcs
    /\ \A h \in Peer : {"idle", "starting"} \cap
                         {fetch[h]["resync"].pc, fetch[h]["force"].pc} # {}

\* Nothing about peer h is still on its way: its daemon has settled, its
\* events are applied, and no reply is waiting.
Settled(h) ==
    /\ alive[h] /\ unsent[h] = <<>>
    /\ \A u \in Uid : (plug[u] = h) = IsAttached(own[h][u])
    /\ \A u \in Uid : IsAttached(own[h][u]) => ~NeedsProbe(own[h][u])
    /\ sub[h] = "up" /\ ~dropped[h] /\ receiving[h]
    /\ inbox[h] = <<>> /\ monitor[h] = <<>>
    /\ \A t \in Threads : fetch[h][t].pc = "idle"

\* The row here says of the board what the row of peer h says.
Mirrors(row, h, theirs) ==
    IF IsAttached(theirs)
      THEN /\ AttributedTo(row, h) /\ row.state = theirs.state
           /\ row.state = "connected" => row.ident = theirs.ident
      ELSE ~(AttributedTo(row, h) /\ IsAttached(row))

\* "Subscribe before snapshot": when the last snapshot was built for a live
\* subscription, no event overtook it and nothing was lost since, the mirror
\* of a settled peer is exact for every board whose row is not this host's:
\* events queued before the snapshot and replayed after it do no harm.
SyncedMirrorIsExact ==
    \A h \in Peer, u \in Uid :
        sync[h] = "synced" /\ Settled(h) /\ ~IsLocal(rows[u]) => Mirrors(rows[u], h, own[h][u])

\* A peer that is alive and stays connected does not stay listed as
\* unreachable, however its drops and the requests lost with them raced the
\* fetches, as long as only resyncs lose theirs.  A first or forced fetch that
\* loses its request times out after the resync may have cleared _link_dropped,
\* and nothing asks again.
OnlyResyncsLost(h) == \A t \in Threads \ {"resync"} : fetch[h][t].pc # "lost"

ReconnectedPeerComesBack ==
    \A h \in Peer :
        <>[](alive[h] /\ sub[h] = "up") /\ []OnlyResyncsLost(h) => <>[](reach[h] # "down")

\* A peer that stops, and whose drop the monitor has reported or will, ends up
\* listed as unreachable for good, even if a reply it sent before arrives
\* late.  (Of one that stops while its subscription is down the monitor may
\* have nothing to say; and a fetch that a replaced link left behind may have
\* the last word, after its own link is gone.)
VanishedPeerIsNoticed ==
    \A h \in Peer : [](fetch[h]["old"].pc # "marking") =>
        ((~alive[h] /\ (dropped[h] \/ "disconnected" \in {monitor[h][i] : i \in DOMAIN monitor[h]}))
            ~> [](reach[h] # "up"))
=============================================================================

------------------------------ MODULE DeviceStore ------------------------------
(***************************************************************************)
(* The device and peer tables of registry/store.py, as operators on one    *)
(* row (device) or on a whole table (purge).  Store serialises every       *)
(* method with its own RLock, so each operator is one atomic step of       *)
(* whoever calls it.                                                       *)
(*                                                                         *)
(* A row keeps what the callers branch on: the owning host, the lifecycle  *)
(* state, the port, whether last_probe is non-zero, the last announcement, *)
(* and whether the chip identity is cached.  Timestamps, vid:pid and       *)
(* display columns are left out.                                           *)
(***************************************************************************)
EXTENDS FiniteSets

CONSTANTS
    Uid,        \* DAPLink unique ids
    Port,       \* serial port paths
    Peer,       \* instance names of other registries
    Local,      \* device.host IS NULL
    NoPort,     \* a board not on the bus, or a row without a port
    Ident,      \* announcements a board may make
    NoIdent     \* announcement columns still NULL

ASSUME LocalIsNoPeer == Local \notin Peer
ASSUME NoPortIsNoPort == NoPort \notin Port
ASSUME NoIdentIsNoIdent == NoIdent \notin Ident

(***************************************************************************)
(* device.state; "absent" stands for "no row with this uid".               *)
(***************************************************************************)
Attached == {"attached_unprobed", "connected", "attached_no_announce",
             "connected_no_firmware"}
States == Attached \cup {"disconnected", "absent"}

Row == [host: Peer \cup {Local}, state: States, port: Port \cup {NoPort},
        probed: BOOLEAN, ident: Ident \cup {NoIdent}, chip: BOOLEAN]

NoRow == [host |-> Local, state |-> "absent", port |-> NoPort,
          probed |-> FALSE, ident |-> NoIdent, chip |-> FALSE]

Exists(row) == row.state # "absent"
IsLocal(row) == Exists(row) /\ row.host = Local
IsAttached(row) == row.state \in Attached

\* A locally owned row that is not disconnected: what the daemon takes for
\* "attached last cycle", and what no peer may take over.
LocallyAttached(row) == IsLocal(row) /\ IsAttached(row)

\* Faulty variant: without the guard for rows attached here.
LastWriterWins(row, host, port) ==
    CASE ~Exists(row) ->
            [NoRow EXCEPT !.host = host, !.state = "attached_unprobed",
                          !.port = port]
      [] row.state = "disconnected" ->
            [row EXCEPT !.host = host, !.state = "attached_unprobed",
                        !.port = port, !.probed = FALSE]
      [] OTHER -> [row EXCEPT !.host = host, !.port = port]

(***************************************************************************)
(* Store._upsert_device: a new row starts unprobed; a peer's claim of a    *)
(* row attached here is dropped; a disconnected row is re-attached and its *)
(* probe session reset; any other row only changes owner and port.         *)
(***************************************************************************)
UpsertDevice(row, host, port) ==
    CASE ~Exists(row) ->
            [NoRow EXCEPT !.host = host, !.state = "attached_unprobed",
                          !.port = port]
      [] Exists(row) /\ host # Local /\ LocallyAttached(row) -> row
      [] row.state = "disconnected" ->
            [row EXCEPT !.host = host, !.state = "attached_unprobed",
                        !.port = port, !.probed = FALSE]
      [] OTHER -> [row EXCEPT !.host = host, !.port = port]

UpsertAttached(row, port) == UpsertDevice(row, Local, port)

\* Store.apply_probe_result: answered is "result is not None"; a malformed
\* announcement is an answer whose fields are blank (NoIdent).
ApplyProbeResult(row, answered, ident) ==
    IF answered
      THEN [row EXCEPT !.state = "connected", !.probed = TRUE, !.ident = ident]
      ELSE [row EXCEPT !.state = "attached_no_announce", !.probed = TRUE]

ApplyKnownBlank(row) ==
    [row EXCEPT !.state = "connected_no_firmware", !.probed = TRUE]

\* Store.set_chip_identity is write-once: a cached chip stays cached.
SetChipIdentity(row) == [row EXCEPT !.chip = TRUE]

MarkDisconnected(row) == [row EXCEPT !.state = "disconnected"]

NeedsProbe(row) == ~row.probed

(***************************************************************************)
(* Store.candidates_for_purge and purge.  reach maps each peer to "up",    *)
(* "down" or "absent" (no peer row).  candidates_for_purge groups three    *)
(* kinds of stale rows; purge re-checks a broader condition per uid.       *)
(***************************************************************************)
OfUnreachablePeer(row, reach) ==
    Exists(row) /\ row.host # Local /\ reach[row.host] = "down"

PurgeCandidate(row, reach) ==
    \/ IsLocal(row) /\ row.state = "disconnected"
    \/ OfUnreachablePeer(row, reach)
    \/ /\ row.state = "disconnected"
       /\ row.host # Local
       /\ reach[row.host] = "up"

CandidatesForPurge(rows, reach) == {u \in Uid : PurgeCandidate(rows[u], reach)}

Purge(rows, reach, uids) ==
    [u \in Uid |->
        IF u \in uids /\ (rows[u].state = "disconnected"
                           \/ OfUnreachablePeer(rows[u], reach))
          THEN NoRow ELSE rows[u]]

\* The peer rows a rescan deletes: the ones marked unreachable.
PurgePeers(reach) ==
    [h \in Peer |-> IF reach[h] = "down" THEN "absent" ELSE reach[h]]
=============================================================================

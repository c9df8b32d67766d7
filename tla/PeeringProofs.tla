----------------------------- MODULE PeeringProofs -----------------------------
(***************************************************************************)
(* TLAPS proofs about Peering, for any set of boards and announcements and *)
(* any value of the bounds: the types, for any number of peers, and that   *)
(* the mirror of a single peer is exact.                                   *)
(***************************************************************************)
EXTENDS Peering, TLAPS

(***************************************************************************)
(* Types.  A peer's own rows are attached as local rows, and a probe gives *)
(* them a state; an event carries the row as it was written.               *)
(***************************************************************************)
Snapshots == UNION {[D -> Row] : D \in SUBSET Uid}
FetchState == [pc: FetchPcs, snap: Snapshots, inStep: BOOLEAN, seen: BOOLEAN]

OwnRow(row) ==
    IsAttached(row) =>
        /\ row.host = Local
        /\ row.probed => row.state \in {"connected", "attached_no_announce"}

EventTypes == {"attach", "detach", "identity"}
Carries(e) ==
    /\ IsAttached(e.row) <=> e.type # "detach"
    /\ e.row.probed => e.type # "attach"
    /\ OwnRow(e.row)
Events == {e \in [type: EventTypes, uid: Uid, row: Row] : Carries(e)}

Types ==
    /\ PeeringTypeOK
    /\ \A h \in Peer, u \in Uid : OwnRow(own[h][u])
    /\ unsent \in [Peer -> Seq(Events)]
    /\ inbox \in [Peer -> Seq(Events)]
    /\ monitor \in [Peer -> Seq({"connected", "disconnected"})]
    /\ fetch \in [Peer -> [Threads -> FetchState]]

(***************************************************************************)
(* The events of a peer that are still to be applied, oldest first.        *)
(***************************************************************************)
Pending(h) == inbox[h] \o unsent[h]

\* q says nothing of board u; nothing of it going; that it came and, from
\* then on, nothing of it going.
Silent(q, u) == \A j \in DOMAIN q : q[j].uid # u
NoDetach(q, u) == \A j \in DOMAIN q : ~(q[j].uid = u /\ q[j].type = "detach")
Reattached(q, u) ==
    \E k \in DOMAIN q :
        /\ q[k].uid = u /\ q[k].type = "attach"
        /\ \A j \in DOMAIN q : j > k => ~(q[j].uid = u /\ q[j].type = "detach")

\* The last event of q about a board carries its row in the table.
Told(q, table) ==
    \A i \in DOMAIN q :
        (\A j \in DOMAIN q : j > i => q[j].uid # q[i].uid) =>
            table[q[i].uid] = q[i].row

\* An attached board is known (held), or q will make it so.
Covers(q, u, theirs, held) ==
    IsAttached(theirs) => Reattached(q, u) \/ (NoDetach(q, u) /\ held)

\* The row here is of a board attached at peer h.
Held(row, h) == AttributedTo(row, h) /\ IsAttached(row)

\* Mirrors, for a peer that may not have probed the board yet.
AlmostMirrors(row, h, theirs) ==
    IF IsAttached(theirs)
      THEN Held(row, h) /\ (theirs.probed => Mirrors(row, h, theirs))
      ELSE ~Held(row, h)

(***************************************************************************)
(* The invariant.  Nothing the peer wrote is missing from an intact        *)
(* stream; a reply still in step, and a synced mirror, are exact but for   *)
(* what the pending events will change.                                    *)
(***************************************************************************)
WrittenOnce(h) ==
    unsent[h] = <<>> \/ (Len(unsent[h]) = 1 /\ Told(unsent[h], own[h]))

Intact(h) ==
    /\ sub[h] = "up"
    /\ Told(Pending(h), own[h])
    /\ \A u \in Uid : Covers(Pending(h), u, own[h][u], TRUE)

InStep(h, t) == fetch[h][t].pc = "answered" /\ fetch[h][t].inStep

ReplyIsExact(h, snap, u) ==
    /\ Covers(Pending(h), u, own[h][u], u \in DOMAIN snap)
    /\ Silent(Pending(h), u) =>
         /\ u \in DOMAIN snap <=> IsAttached(own[h][u])
         /\ u \in DOMAIN snap => snap[u] = own[h][u]

MirrorIsExact(h, u) ==
    \/ IsLocal(rows[u])
    \/ /\ Covers(Pending(h), u, own[h][u], Held(rows[u], h))
       /\ Silent(Pending(h), u) => AlmostMirrors(rows[u], h, own[h][u])

SyncInv(h) ==
    /\ WrittenOnce(h)
    /\ sync[h] # "lost" => Intact(h)
    /\ \A t \in Threads : InStep(h, t) => /\ sync[h] # "lost"
                                          /\ \A u \in Uid : ReplyIsExact(h, fetch[h][t].snap, u)
    /\ sync[h] = "synced" => \A u \in Uid : MirrorIsExact(h, u)
-----------------------------------------------------------------------------
(***************************************************************************)
(* What the operators on rows return.                                      *)
(***************************************************************************)
\* The row operators a peer or this registry applies return rows.
LEMMA RowsType ==
    ASSUME NEW row \in Row
    PROVE  /\ NoRow \in Row
           /\ \A h \in Peer \cup {Local} : UpsertDevice(row, h, NoPort) \in Row
           /\ \A a \in BOOLEAN, i \in Ident \cup {NoIdent} :
                ApplyProbeResult(row, a, i) \in Row
           /\ ApplyKnownBlank(row) \in Row
           /\ MarkDisconnected(row) \in Row
  <1>1. NoRow \in Row
    BY DEF NoRow, Row, States
  <1>2. ASSUME NEW h \in Peer \cup {Local} PROVE UpsertDevice(row, h, NoPort) \in Row
    <2>1. CASE ~Exists(row)
      BY <1>1, <2>1 DEF UpsertDevice, Row, States, Attached
    <2>2. CASE Exists(row)
      BY <2>2 DEF UpsertDevice, Row, States, Attached
    <2> QED
      BY <2>1, <2>2
  <1>3. ASSUME NEW a \in BOOLEAN, NEW i \in Ident \cup {NoIdent}
        PROVE  ApplyProbeResult(row, a, i) \in Row
    BY DEF ApplyProbeResult, Row, States, Attached
  <1>4. ApplyKnownBlank(row) \in Row /\ MarkDisconnected(row) \in Row
    BY DEF ApplyKnownBlank, MarkDisconnected, Row, States, Attached
  <1> QED
    BY <1>1, <1>2, <1>3, <1>4

\* A peer's attach leaves a row attached here alone, and makes any other row
\* one of a board attached at that peer.
LEMMA UpsertHolds ==
    ASSUME NEW row \in Row, NEW h \in Peer
    PROVE  /\ LocallyAttached(row) => UpsertDevice(row, h, NoPort) = row
           /\ ~LocallyAttached(row) => Held(UpsertDevice(row, h, NoPort), h)
  BY LocalIsNoPeer
  DEF Row, UpsertDevice, NoRow, States, Attached, Exists, LocallyAttached, IsLocal,
      IsAttached, Held, AttributedTo

\* The state layer of an identity event or a snapshot row keeps the owner,
\* leaves an attached row attached, and returns a row.
LEMMA ApplyStateHolds ==
    ASSUME NEW row \in Row, NEW told \in Row
    PROVE  /\ ApplyState(row, told) \in Row
           /\ ApplyState(row, told).host = row.host
           /\ \A h : Held(row, h) => Held(ApplyState(row, told), h)
  <1>1. /\ ApplyProbeResult(row, TRUE, told.ident) \in Row
        /\ ApplyProbeResult(row, FALSE, NoIdent) \in Row
        /\ ApplyKnownBlank(row) \in Row
    BY RowsType DEF Row
  <1>2. ApplyState(row, told) \in
          {ApplyProbeResult(row, TRUE, told.ident), ApplyProbeResult(row, FALSE, NoIdent),
           ApplyKnownBlank(row), row}
    BY DEF ApplyState
  <1>3. ASSUME NEW new \in {ApplyProbeResult(row, TRUE, told.ident),
                            ApplyProbeResult(row, FALSE, NoIdent),
                            ApplyKnownBlank(row), row}
        PROVE  /\ new \in Row /\ new.host = row.host
               /\ \A h : Held(row, h) => Held(new, h)
    BY <1>1, <1>3
    DEF ApplyProbeResult, ApplyKnownBlank, Row, Held, AttributedTo, Exists, IsAttached,
        Attached
  <1> QED
    BY <1>2, <1>3

\* On a row that mirrors an attached one, it makes the mirror exact once the
\* board is probed.
LEMMA ApplyStateMirrors ==
    ASSUME NEW row \in Row, NEW told \in Row, NEW h \in Peer, Held(row, h),
           IsAttached(told), OwnRow(told)
    PROVE  AlmostMirrors(ApplyState(row, told), h, told)
  <1>1. Held(ApplyState(row, told), h)
    BY ApplyStateHolds
  <1>2. CASE told.probed
    <2>1. CASE told.state = "connected"
      <3>1. ApplyState(row, told) = ApplyProbeResult(row, TRUE, told.ident)
        BY <2>1 DEF ApplyState
      <3>2. /\ ApplyState(row, told).state = "connected"
            /\ ApplyState(row, told).ident = told.ident
        BY <3>1 DEF ApplyProbeResult, Row
      <3> QED
        BY <1>1, <2>1, <3>2 DEF AlmostMirrors, Mirrors, Held
    <2>2. CASE told.state = "attached_no_announce"
      <3>1. ApplyState(row, told) = ApplyProbeResult(row, FALSE, NoIdent)
        BY <2>2 DEF ApplyState
      <3>2. ApplyState(row, told).state = "attached_no_announce"
        BY <3>1 DEF ApplyProbeResult, Row
      <3> QED
        BY <1>1, <2>2, <3>2 DEF AlmostMirrors, Mirrors, Held
    <2> QED
      BY <1>2, <2>1, <2>2 DEF OwnRow
  <1>3. CASE ~told.probed
    BY <1>1, <1>3 DEF AlmostMirrors
  <1> QED
    BY <1>2, <1>3

\* Applying an event of peer h changes the row of its board only, to a row:
\* an attach makes it held unless the board is attached here, a detach does
\* not leave it held, an identity touches rows of the peer only.
LEMMA ApplyEventRow ==
    ASSUME NEW table \in [Uid -> Row], NEW h \in Peer, NEW e \in Events
    PROVE  /\ ApplyEvent(table, h, e) \in [Uid -> Row]
           /\ \A u \in Uid : u # e.uid => ApplyEvent(table, h, e)[u] = table[u]
           /\ e.type = "attach" =>
                ApplyEvent(table, h, e)[e.uid] = UpsertDevice(table[e.uid], h, NoPort)
           /\ e.type = "detach" =>
                ApplyEvent(table, h, e)[e.uid] =
                    IF AttributedTo(table[e.uid], h) THEN MarkDisconnected(table[e.uid])
                    ELSE table[e.uid]
           /\ e.type = "identity" =>
                ApplyEvent(table, h, e)[e.uid] =
                    IF AttributedTo(table[e.uid], h) THEN ApplyState(table[e.uid], e.row)
                    ELSE table[e.uid]
  <1> DEFINE row == table[e.uid]
             new == CASE e.type = "attach" -> UpsertDevice(row, h, NoPort)
                      [] e.type = "detach" /\ AttributedTo(row, h) -> MarkDisconnected(row)
                      [] e.type = "identity" /\ AttributedTo(row, h) -> ApplyState(row, e.row)
                      [] OTHER -> row
  <1>1. e.uid \in Uid /\ e.row \in Row /\ e.type \in EventTypes /\ row \in Row
    BY DEF Events
  <1>2. /\ e.type = "attach" => new = UpsertDevice(row, h, NoPort)
        /\ e.type = "detach" =>
             new = IF AttributedTo(row, h) THEN MarkDisconnected(row) ELSE row
        /\ e.type = "identity" =>
             new = IF AttributedTo(row, h) THEN ApplyState(row, e.row) ELSE row
    OBVIOUS
  <1>3. /\ UpsertDevice(row, h, NoPort) \in Row
        /\ MarkDisconnected(row) \in Row
        /\ ApplyState(row, e.row) \in Row
    BY <1>1, RowsType, ApplyStateHolds
  <1>4. ApplyEvent(table, h, e) = [table EXCEPT ![e.uid] = new]
    BY DEF ApplyEvent
  <1> HIDE DEF new
  <1>5. new \in Row
    BY <1>1, <1>2, <1>3 DEF EventTypes
  <1> QED
    BY <1>1, <1>2, <1>4, <1>5

\* Applying a snapshot returns a table of rows.
LEMMA ApplySnapshotType ==
    ASSUME NEW table \in [Uid -> Row], NEW h \in Peer, NEW snap \in Snapshots
    PROVE  ApplySnapshot(table, h, snap) \in [Uid -> Row]
  <1> SUFFICES ASSUME NEW u \in Uid PROVE ApplySnapshot(table, h, snap)[u] \in Row
    BY DEF ApplySnapshot
  <1>1. CASE u \in DOMAIN snap
    <2>1. snap[u] \in Row
      BY <1>1 DEF Snapshots
    <2>2. UpsertDevice(table[u], h, NoPort) \in Row
      BY RowsType
    <2>3. SnapshotDevice(table[u], h, snap[u]) \in Row
      BY <2>1, <2>2, ApplyStateHolds DEF SnapshotDevice
    <2> QED
      BY <1>1, <2>3 DEF ApplySnapshot
  <1>2. CASE u \notin DOMAIN snap
    <2>1. MarkDisconnected(table[u]) \in Row
      BY RowsType
    <2>2. ApplySnapshot(table, h, snap)[u] \in {table[u], MarkDisconnected(table[u])}
      BY <1>2 DEF ApplySnapshot
    <2> QED
      BY <2>1, <2>2
  <1> QED
    BY <1>1, <1>2

\* A snapshot of a table of rows is a snapshot.
LEMMA SnapshotOfType ==
    ASSUME NEW table \in [Uid -> Row]
    PROVE  SnapshotOf(table) \in Snapshots
  <1> DEFINE D == {v \in Uid : LocallyAttached(table[v])}
  <1>1. SnapshotOf(table) \in [D -> Row]
    BY DEF SnapshotOf
  <1> QED
    BY <1>1 DEF Snapshots

-----------------------------------------------------------------------------
(***************************************************************************)
(* Type correctness.                                                       *)
(***************************************************************************)
\* The fetches are well typed, and at most one holds _resync_guard.
Waiting == {"idle", "starting"}
FetchesOK ==
    /\ fetch \in [Peer -> [Threads -> FetchState]]
    /\ \A h \in Peer : fetch[h]["resync"].pc \in Waiting \/ fetch[h]["force"].pc \in Waiting

\* The type invariant covers the fetches.
LEMMA TypesFetches == Types => FetchesOK
  BY DEF Types, PeeringTypeOK, FetchesOK, Waiting

\* A fetch that is not started without the guard keeps the fetches well typed.
LEMMA MoveFetch ==
    ASSUME FetchesOK, NEW h \in Peer, NEW t \in Threads, NEW to \in FetchState,
           fetch' = [fetch EXCEPT ![h][t] = to],
           \/ to.pc \in Waiting
           \/ t \in {"first", "old"}
           \/ fetch[h][t].pc \notin Waiting
           \/ GuardFree(h)
    PROVE  FetchesOK'
  <1>1. fetch' \in [Peer -> [Threads -> FetchState]]
    BY DEF FetchesOK
  <1>2. ASSUME NEW g \in Peer, NEW s \in Threads
        PROVE  fetch'[g][s] = IF g = h /\ s = t THEN to ELSE fetch[g][s]
    BY DEF FetchesOK
  <1>3. ASSUME NEW g \in Peer
        PROVE  fetch'[g]["resync"].pc \in Waiting \/ fetch'[g]["force"].pc \in Waiting
    <2>1. /\ fetch'[g]["resync"] = IF g = h /\ "resync" = t THEN to ELSE fetch[g]["resync"]
          /\ fetch'[g]["force"] = IF g = h /\ "force" = t THEN to ELSE fetch[g]["force"]
      BY <1>2 DEF Threads
    <2>2. fetch[g]["resync"].pc \in Waiting \/ fetch[g]["force"].pc \in Waiting
      BY DEF FetchesOK
    <2>3. GuardFree(h) => fetch[h]["resync"].pc \in Waiting /\ fetch[h]["force"].pc \in Waiting
      BY DEF GuardFree, Waiting
    <2> QED
      BY <2>1, <2>2, <2>3 DEF Threads
  <1> QED
    BY <1>1, <1>3 DEF FetchesOK

\* So does a fetch that only changes its step.
LEMMA GotoFetch ==
    ASSUME FetchesOK, NEW h \in Peer, NEW t \in Threads, NEW pc \in FetchPcs,
           fetch' = [fetch EXCEPT ![h][t].pc = pc],
           \/ pc \in Waiting
           \/ t \in {"first", "old"}
           \/ fetch[h][t].pc \notin Waiting
           \/ GuardFree(h)
    PROVE  FetchesOK'
  <1> DEFINE to == [fetch[h][t] EXCEPT !.pc = pc]
  <1>1. to \in FetchState /\ to.pc = pc
    BY DEF FetchesOK, FetchState
  <1>2. fetch' = [fetch EXCEPT ![h][t] = to]
    BY DEF FetchesOK
  <1>3. \/ to.pc \in Waiting \/ t \in {"first", "old"} \/ fetch[h][t].pc \notin Waiting
        \/ GuardFree(h)
    BY <1>1
  <1> QED
    BY <1>1, <1>2, <1>3, MoveFetch

\* Noting that events overtook the replies of a peer changes no step.
LEMMA OvertakenFetch ==
    ASSUME FetchesOK, NEW h \in Peer
    PROVE  /\ Overtaken(h) \in [Peer -> [Threads -> FetchState]]
           /\ \A g \in Peer, t \in Threads :
                /\ Overtaken(h)[g][t].pc = fetch[g][t].pc
                /\ Overtaken(h)[g][t].snap = fetch[g][t].snap
                /\ Overtaken(h)[g][t].inStep =>
                     fetch[g][t].inStep /\ ~(g = h /\ fetch[g][t].pc = "answered")
  <1> DEFINE to(t) == [fetch[h][t] EXCEPT !.inStep = @ /\ fetch[h][t].pc # "answered"]
  <1>1. ASSUME NEW t \in Threads
        PROVE  /\ to(t) \in FetchState
               /\ to(t).pc = fetch[h][t].pc /\ to(t).snap = fetch[h][t].snap
               /\ to(t).inStep = (fetch[h][t].inStep /\ fetch[h][t].pc # "answered")
    <2>1. fetch[h][t] \in FetchState
      BY DEF FetchesOK
    <2>2. to(t) \in FetchState
      BY <2>1 DEF FetchState
    <2> QED
      BY <2>1, <2>2 DEF FetchState
  <1>2. Overtaken(h) = [fetch EXCEPT ![h] = [t \in Threads |-> to(t)]]
    BY DEF Overtaken
  <1> HIDE DEF to
  <1>3. Overtaken(h) \in [Peer -> [Threads -> FetchState]]
    BY <1>1, <1>2 DEF FetchesOK
  <1>4. ASSUME NEW g \in Peer, NEW t \in Threads
        PROVE  Overtaken(h)[g][t] = IF g = h THEN to(t) ELSE fetch[g][t]
    BY <1>2 DEF FetchesOK
  <1> QED
    BY <1>1, <1>3, <1>4

\* Marking the replies in flight as overtaken keeps the fetches well typed.
LEMMA OvertakenFetches ==
    ASSUME FetchesOK, NEW h \in Peer, fetch' = Overtaken(h)
    PROVE  FetchesOK'
  BY OvertakenFetch DEF FetchesOK, Threads

\* A thread that fetches nothing is in a legal state.
LEMMA IdleType == Idle \in FetchState /\ NoSnapshot \in Snapshots
  <1>1. NoSnapshot \in [{} -> Row]
    BY DEF NoSnapshot
  <1>2. NoSnapshot \in Snapshots
    BY <1>1 DEF Snapshots
  <1> QED
    BY <1>2 DEF Idle, Fetch, FetchState, FetchPcs

\* A peer only ever writes rows it can own, and events that carry them.
LEMMA PeerWrites ==
    ASSUME Types, NEW h \in Peer, NEW u \in Uid, NEW type, NEW row,
           PeerWrite(h, u, type, row),
           \/ type = "attach" /\ ~IsAttached(own[h][u])
                /\ row = UpsertAttached(own[h][u], NoPort)
           \/ type = "detach" /\ row = MarkDisconnected(own[h][u])
           \/ /\ type = "identity" /\ IsAttached(own[h][u])
              /\ \E a \in BOOLEAN, i \in Ident \cup {NoIdent} :
                    row = ApplyProbeResult(own[h][u], a, i)
    PROVE  Event(type, u, row) \in Events
  <1>1. own[h][u] \in Row /\ OwnRow(own[h][u])
    BY DEF Types, PeeringTypeOK
  <1>2. row \in Row
    BY <1>1, RowsType DEF UpsertAttached
  <1>3. CASE type = "attach" /\ ~IsAttached(own[h][u])
               /\ row = UpsertAttached(own[h][u], NoPort)
    <2>1. row.state = "attached_unprobed" /\ row.host = Local /\ row.probed = FALSE
      BY <1>1, <1>3
      DEF UpsertAttached, UpsertDevice, Row, NoRow, IsAttached, Attached, States, Exists,
          LocallyAttached
    <2> QED
      BY <1>2, <1>3, <2>1
      DEF Event, Events, EventTypes, Carries, OwnRow, IsAttached, Attached
  <1>4. CASE type = "detach" /\ row = MarkDisconnected(own[h][u])
    <2>1. row.state = "disconnected"
      BY <1>1, <1>4 DEF MarkDisconnected, Row
    <2> QED
      BY <1>2, <1>4, <2>1
      DEF Event, Events, EventTypes, Carries, OwnRow, IsAttached, Attached
  <1>5. CASE type = "identity" /\ IsAttached(own[h][u])
               /\ \E a \in BOOLEAN, i \in Ident \cup {NoIdent} :
                     row = ApplyProbeResult(own[h][u], a, i)
    <2>1. row.host = Local /\ row.state \in {"connected", "attached_no_announce"}
      BY <1>1, <1>5 DEF ApplyProbeResult, Row, OwnRow
    <2> QED
      BY <1>2, <1>5, <2>1
      DEF Event, Events, EventTypes, Carries, OwnRow, IsAttached, Attached
  <1> QED
    BY <1>3, <1>4, <1>5

\* The ways a daemon step of peer h writes one row and its event.
LEMMA DaemonWrites ==
    ASSUME Types, NEW h \in Peer, NEW u \in Uid,
           PeerAttach(h, u) \/ PeerDetach(h, u) \/ PeerProbe(h, u)
    PROVE  \E type \in EventTypes, row \in Row :
             /\ PeerWrite(h, u, type, row)
             /\ Event(type, u, row) \in Events
             /\ type = "identity" => IsAttached(own[h][u])
  <1>0. own[h][u] \in Row
    BY DEF Types, PeeringTypeOK
  <1>1. ASSUME NEW type \in EventTypes, NEW row, PeerWrite(h, u, type, row),
               Event(type, u, row) \in Events
        PROVE  row \in Row
    BY <1>1 DEF Event, Events
  <1>2. CASE PeerAttach(h, u)
    BY <1>1, <1>2, PeerWrites DEF PeerAttach, EventTypes
  <1>3. CASE PeerDetach(h, u)
    BY <1>1, <1>3, PeerWrites DEF PeerDetach, EventTypes
  <1>4. ASSUME NEW a \in BOOLEAN, NEW i \in Ident \cup {NoIdent}, IsAttached(own[h][u]),
               PeerWrite(h, u, "identity", ApplyProbeResult(own[h][u], a, i))
        PROVE  \E type \in EventTypes, row \in Row :
                 /\ PeerWrite(h, u, type, row)
                 /\ Event(type, u, row) \in Events
                 /\ type = "identity" => IsAttached(own[h][u])
    <2> DEFINE row == ApplyProbeResult(own[h][u], a, i)
    <2>1. row \in Row
      BY <1>0, RowsType
    <2>2. \E b \in BOOLEAN, j \in Ident \cup {NoIdent} :
             row = ApplyProbeResult(own[h][u], b, j)
      OBVIOUS
    <2> HIDE DEF row
    <2>3. PeerWrite(h, u, "identity", row)
      BY <1>4 DEF row
    <2>4. Event("identity", u, row) \in Events
      BY <1>4, <2>2, <2>3, PeerWrites
    <2> QED
      BY <1>4, <2>1, <2>3, <2>4 DEF EventTypes
  <1>5. CASE PeerProbe(h, u)
    BY <1>4, <1>5 DEF PeerProbe
  <1> QED
    BY <1>2, <1>3, <1>5

\* The initial state is well typed.
LEMMA InitTypes == Init => Types
  <1> SUFFICES ASSUME Init PROVE Types
    OBVIOUS
  <1>1. SilentRow \in Row /\ NoRow \in Row
    <2>1. NoRow \in Row
      BY DEF NoRow, Row, States
    <2>2. UpsertAttached(NoRow, NoPort) \in Row
      BY <2>1, RowsType DEF UpsertAttached
    <2> QED
      BY <2>1, <2>2, RowsType DEF SilentRow
  <1>2. OwnRow(SilentRow) /\ OwnRow(NoRow)
    <2>1. ~IsAttached(NoRow)
      BY DEF NoRow, IsAttached, Attached
    <2>2. UpsertAttached(NoRow, NoPort).host = Local
      BY <2>1 DEF UpsertAttached, UpsertDevice, NoRow, Exists
    <2>3. SilentRow.host = Local /\ SilentRow.state = "attached_no_announce"
      <3>1. UpsertAttached(NoRow, NoPort) \in Row
        BY <1>1, RowsType DEF UpsertAttached
      <3> QED
        BY <2>2, <3>1 DEF SilentRow, ApplyProbeResult, Row
    <2> QED
      BY <2>1, <2>3 DEF OwnRow
  <1>3. own \in [Peer -> [Uid -> Row]] /\ \A h \in Peer, u \in Uid : OwnRow(own[h][u])
    BY <1>1, <1>2 DEF Init
  <1>4. fetch \in [Peer -> [Threads -> FetchState]]
        /\ \A h \in Peer, t \in Threads : fetch[h][t].pc = "idle"
    <2>1. Idle.pc = "idle"
      BY DEF Idle, Fetch
    <2> QED
      BY <2>1, IdleType DEF Init
  <1>5. PeeringTypeOK
    <2>1. \A h \in Peer : fetch[h]["resync"].pc = "idle"
      BY <1>4 DEF Threads
    <2>2. \A h \in Peer : {"idle", "starting"} \cap
                            {fetch[h]["resync"].pc, fetch[h]["force"].pc} # {}
      BY <2>1
    <2> QED
      BY <1>1, <1>3, <1>4, <2>2 DEF Init, PeeringTypeOK, FetchPcs
  <1> QED
    BY <1>3, <1>4, <1>5 DEF Init, Types

\* The parts of Types that most steps leave alone.
Tables ==
    /\ plug \in [Uid -> Peer \cup {Local, Nowhere}]
    /\ own \in [Peer -> [Uid -> Row]]
    /\ \A h \in Peer, u \in Uid : OwnRow(own[h][u])
    /\ rows \in [Uid -> Row]
    /\ alive \in [Peer -> BOOLEAN]
    /\ reach \in [Peer -> {"up", "down", "absent"}]
    /\ unsent \in [Peer -> Seq(Events)]
LinkTypes ==
    /\ sub \in [Peer -> {"none", "connecting", "up", "down"}]
    /\ dropped \in [Peer -> BOOLEAN]
    /\ receiving \in [Peer -> BOOLEAN]
    /\ inbox \in [Peer -> Seq(Events)]
    /\ monitor \in [Peer -> Seq({"connected", "disconnected"})]
    /\ sync \in [Peer -> {"lost", "intact", "synced", "purged"}]

\* The type invariant, split by what the actions touch.
LEMMA TypesParts == Types <=> Tables /\ LinkTypes /\ FetchesOK
  <1>1. Types => Tables /\ LinkTypes /\ FetchesOK
    BY TypesFetches DEF Types, PeeringTypeOK, Tables, LinkTypes
  <1>2. FetchesOK => /\ \A h \in Peer, t \in Threads : fetch[h][t].pc \in FetchPcs
                     /\ \A h \in Peer : {"idle", "starting"} \cap
                          {fetch[h]["resync"].pc, fetch[h]["force"].pc} # {}
    <2>1. FetchesOK => \A h \in Peer, t \in Threads : fetch[h][t].pc \in FetchPcs
      BY DEF FetchesOK, FetchState
    <2>2. FetchesOK => \A h \in Peer : {"idle", "starting"} \cap
                          {fetch[h]["resync"].pc, fetch[h]["force"].pc} # {}
      BY DEF FetchesOK, Waiting
    <2> QED
      BY <2>1, <2>2
  <1>3. Tables /\ LinkTypes /\ FetchesOK => Types
    BY <1>2 DEF Types, PeeringTypeOK, Tables, LinkTypes, FetchesOK
  <1> QED
    BY <1>1, <1>3

\* Losing a connection keeps the types of the link.
LEMMA LoseTypes ==
    ASSUME LinkTypes, FetchesOK, NEW h \in Peer, Lose(h), UNCHANGED <<dropped, receiving>>
    PROVE  LinkTypes' /\ FetchesOK'
  <1>1. FetchesOK'
    BY OvertakenFetches DEF Lose
  <1>2. inbox' \in [Peer -> Seq(Events)]
    <2>1. <<>> \in Seq(Events)
      OBVIOUS
    <2>2. [inbox EXCEPT ![h] = <<>>] \in [Peer -> Seq(Events)]
      BY <2>1 DEF LinkTypes
    <2> QED
      BY <2>2 DEF Lose, LinkTypes
  <1>3. monitor' \in [Peer -> Seq({"connected", "disconnected"})]
    BY DEF Lose, LinkTypes
  <1>4. sub' \in [Peer -> {"none", "connecting", "up", "down"}]
        /\ sync' \in [Peer -> {"lost", "intact", "synced", "purged"}]
    BY DEF Lose, LinkTypes
  <1> QED
    BY <1>1, <1>2, <1>3, <1>4 DEF LinkTypes

\* Every step keeps the types.
LEMMA NextTypes == Types /\ [Next]_vars => Types'
  <1> SUFFICES ASSUME Tables, LinkTypes, FetchesOK, [Next]_vars
               PROVE  Tables' /\ LinkTypes' /\ FetchesOK'
    <2>1. Types /\ [Next]_vars => Tables' /\ LinkTypes' /\ FetchesOK'
      BY TypesParts
    <2>2. Tables' /\ LinkTypes' /\ FetchesOK' => Types'
      BY TypesParts, PTL
    <2> QED
      BY <2>1, <2>2
  <1>0. Types
    BY TypesParts
  <1> USE DEF peerVars, linkVars
  <1>1. UNCHANGED <<plug, own, rows, alive, reach, unsent>> => Tables'
    BY DEF Tables
  <1>2. UNCHANGED <<sub, dropped, receiving, inbox, monitor, sync>> => LinkTypes'
    BY DEF LinkTypes
  <1>3. UNCHANGED fetch => FetchesOK'
    BY DEF FetchesOK
  <1>4. ASSUME NEW u \in Uid, NEW h \in Peer \cup {Local, Nowhere}, Plug(u, h)
        PROVE  Tables' /\ LinkTypes' /\ FetchesOK'
    BY <1>2, <1>3, <1>4 DEF Plug, Tables
  <1>5. ASSUME NEW u \in Uid, ScanHere(u) PROVE Tables' /\ LinkTypes' /\ FetchesOK'
    <2>1. rows[u] \in Row
      BY DEF Tables
    <2>2. UpsertAttached(rows[u], NoPort) \in Row /\ MarkDisconnected(rows[u]) \in Row
      BY <2>1, RowsType DEF UpsertAttached
    <2> QED
      BY <1>2, <1>3, <1>5, <2>2 DEF ScanHere, Tables
  <1>6. ASSUME NEW h \in Peer, NEW u \in Uid,
               PeerAttach(h, u) \/ PeerDetach(h, u) \/ PeerProbe(h, u)
        PROVE  Tables' /\ LinkTypes' /\ FetchesOK'
    <2> PICK type \in EventTypes, row \in Row :
               PeerWrite(h, u, type, row) /\ Event(type, u, row) \in Events
      BY <1>0, <1>6, DaemonWrites
    <2>1. OwnRow(row)
      BY DEF Event, Events, Carries
    <2>2. own' \in [Peer -> [Uid -> Row]] /\ \A g \in Peer, v \in Uid : OwnRow(own'[g][v])
      BY <2>1 DEF PeerWrite, Tables
    <2>3. unsent' \in [Peer -> Seq(Events)]
      <3>1. <<Event(type, u, row)>> \in Seq(Events)
        OBVIOUS
      <3> QED
        BY <3>1 DEF PeerWrite, Tables
    <2> QED
      BY <1>2, <1>3, <2>2, <2>3 DEF PeerWrite, Tables
  <1>7. ASSUME NEW h \in Peer, PeerPublish(h) PROVE Tables' /\ LinkTypes' /\ FetchesOK'
    <2>1. unsent[h] \in Seq(Events) /\ unsent[h] # <<>>
      BY <1>7 DEF PeerPublish, Tables
    <2>2. Head(unsent[h]) \in Events /\ Tail(unsent[h]) \in Seq(Events)
      BY <2>1
    <2>3. Tables'
      BY <1>7, <2>2 DEF PeerPublish, Tables
    <2>4. inbox' \in [Peer -> Seq(Events)]
      BY <1>7, <2>2 DEF PeerPublish, LinkTypes
    <2>5. LinkTypes'
      BY <1>7, <2>4 DEF PeerPublish, LinkTypes
    <2>6. FetchesOK'
      BY <1>3, <1>7, OvertakenFetches DEF PeerPublish
    <2> QED
      BY <2>3, <2>5, <2>6
  <1>8. ASSUME NEW h \in Peer, PeerStops(h) PROVE Tables' /\ LinkTypes' /\ FetchesOK'
    <2>1. Lose(h) /\ UNCHANGED <<dropped, receiving>>
      BY <1>8 DEF PeerStops
    <2>2. Tables'
      BY <1>8 DEF PeerStops, Tables
    <2> QED
      BY <2>1, <2>2, LoseTypes
  <1>9. ASSUME NEW h \in Peer, LinkDrops(h) PROVE Tables' /\ LinkTypes' /\ FetchesOK'
    BY <1>1, <1>9, LoseTypes DEF LinkDrops
  <1>10. ASSUME NEW h \in Peer, PeerSeen(h) PROVE Tables' /\ LinkTypes' /\ FetchesOK'
    <2>1. Tables'
      BY <1>10 DEF PeerSeen, Tables
    <2>2. LinkTypes'
      BY <1>10 DEF PeerSeen, LinkTypes
    <2>3. FetchesOK'
      <3> DEFINE new == [fetch[h] EXCEPT !["old"] = LeftBehind(h), !["force"] = Idle,
                                         !["first"] = [Idle EXCEPT !.pc = "asking"]]
      <3>1. fetch[h] \in [Threads -> FetchState] /\ dropped[h] \in BOOLEAN
        BY DEF FetchesOK, LinkTypes
      <3>2. LeftBehind(h) \in FetchState
        BY <3>1 DEF LeftBehind, FetchState, Threads
      <3>3. Idle \in FetchState /\ Idle.pc = "idle"
        BY IdleType DEF Idle, Fetch
      <3>4. [Idle EXCEPT !.pc = "asking"] \in FetchState
        BY <3>3 DEF FetchState, FetchPcs
      <3>5. new \in [Threads -> FetchState] /\ new["force"].pc = "idle"
        BY <3>1, <3>2, <3>3, <3>4 DEF Threads
      <3>6. fetch' = [fetch EXCEPT ![h] = new]
        BY <1>10 DEF PeerSeen
      <3> HIDE DEF new
      <3> QED
        BY <3>5, <3>6 DEF FetchesOK, Waiting
    <2> QED
      BY <2>1, <2>2, <2>3
  <1>11. ASSUME NEW h \in Peer, Handshake(h) PROVE Tables' /\ LinkTypes' /\ FetchesOK'
    BY <1>1, <1>3, <1>11 DEF Handshake, Refilled, LinkTypes
  <1>12. ASSUME NEW h \in Peer, ReceiveEvent(h) PROVE Tables' /\ LinkTypes' /\ FetchesOK'
    <2>1. inbox[h] \in Seq(Events) /\ inbox[h] # <<>>
      BY <1>12 DEF ReceiveEvent, LinkTypes
    <2>2. Head(inbox[h]) \in Events /\ Tail(inbox[h]) \in Seq(Events)
      BY <2>1
    <2>3. rows' \in [Uid -> Row]
      BY <1>12, <2>2, ApplyEventRow DEF ReceiveEvent, Tables
    <2>4. sync' \in [Peer -> {"lost", "intact", "synced", "purged"}]
      BY <1>12 DEF ReceiveEvent, Refilled, LinkTypes
    <2>5. LinkTypes'
      BY <1>12, <2>2, <2>4 DEF ReceiveEvent, LinkTypes
    <2> QED
      BY <1>12, <2>3, <2>5, OvertakenFetches DEF ReceiveEvent, Tables
  <1>13. ASSUME NEW h \in Peer, MonitorDisconnected(h)
         PROVE  Tables' /\ LinkTypes' /\ FetchesOK'
    <2>1. Tables'
      BY <1>13 DEF MonitorDisconnected, SetReach, Tables
    <2>2. LinkTypes'
      BY <1>13 DEF MonitorDisconnected, LinkTypes
    <2> QED
      BY <1>3, <1>13, <2>1, <2>2 DEF MonitorDisconnected
  <1>14. ASSUME NEW h \in Peer, StartResync(h) PROVE FetchesOK'
    BY <1>3, <1>14, GotoFetch DEF StartResync, Threads, FetchPcs, Waiting
  <1>15. ASSUME NEW h \in Peer, MonitorReconnected(h) \/ SelfCheck(h)
         PROVE  Tables' /\ LinkTypes' /\ FetchesOK'
    <2>1. CASE MonitorReconnected(h)
      <3>1. monitor[h] \in Seq({"connected", "disconnected"}) /\ monitor[h] # <<>>
        BY <2>1 DEF MonitorReconnected, LinkTypes
      <3>2. Tail(monitor[h]) \in Seq({"connected", "disconnected"})
        BY <3>1
      <3>3. LinkTypes'
        BY <2>1, <3>2 DEF MonitorReconnected, LinkTypes
      <3> QED
        BY <1>1, <1>14, <2>1, <3>3 DEF MonitorReconnected
    <2>2. CASE SelfCheck(h)
      BY <1>1, <1>2, <1>14, <2>2 DEF SelfCheck
    <2> QED
      BY <1>15, <2>1, <2>2
  <1>16. ASSUME NEW h \in Peer, BeginResync(h) PROVE Tables' /\ LinkTypes' /\ FetchesOK'
    <2>1. Tables' /\ LinkTypes'
      BY <1>1, <1>16 DEF BeginResync, LinkTypes
    <2>2. FetchesOK'
      BY <1>16, GotoFetch DEF BeginResync, Goto, Threads, FetchPcs, Waiting
    <2> QED
      BY <2>1, <2>2
  <1>17. ASSUME NEW h \in Peer, NEW t \in Threads, BeginForced(h, t)
         PROVE  Tables' /\ LinkTypes' /\ FetchesOK'
    <2>1. CASE SetFetch(h, t, Idle)
      <3>1. Idle \in FetchState /\ Idle.pc \in Waiting
        BY IdleType DEF Idle, Fetch, Waiting
      <3> QED
        BY <1>1, <1>2, <1>17, <2>1, <3>1, MoveFetch DEF BeginForced, SetFetch
    <2>2. CASE Goto(h, t, "asking") /\ (t = "old" \/ GuardFree(h))
      <3>1. FetchesOK'
        BY <2>2, GotoFetch DEF Goto, FetchPcs
      <3> QED
        BY <1>1, <1>2, <1>17, <3>1 DEF BeginForced
    <2> QED
      BY <1>17, <2>1, <2>2 DEF BeginForced
  <1>21. ASSUME NEW h \in Peer, NEW t \in Threads, RequestLost(h, t)
         PROVE  Tables' /\ LinkTypes' /\ FetchesOK'
    <2>1. Fetch("lost", NoSnapshot, FALSE, fetch[h][t].seen) \in FetchState
      BY IdleType DEF Fetch, FetchState, FetchPcs, FetchesOK
    <2>2. FetchesOK'
      BY <1>21, <2>1, MoveFetch DEF RequestLost, SetFetch, Waiting
    <2> QED
      BY <1>1, <1>2, <1>21, <2>2 DEF RequestLost
  <1>18. ASSUME NEW h \in Peer, NEW t \in Threads, FetchSteps(h, t)
         PROVE  Tables' /\ LinkTypes' /\ FetchesOK'
    <2>1. CASE PeerAnswers(h, t)
      <3>1. own[h] \in [Uid -> Row]
        BY DEF Tables
      <3>2. Fetch("answered", SnapshotOf(own[h]), sub[h] = "up" /\ sync[h] # "lost",
                  fetch[h][t].seen) \in FetchState
        BY <3>1, SnapshotOfType DEF Fetch, FetchState, FetchPcs, FetchesOK
      <3>3. FetchesOK'
        BY <2>1, <3>2, MoveFetch DEF PeerAnswers, SetFetch, Waiting
      <3> QED
        BY <1>1, <1>2, <2>1, <3>3 DEF PeerAnswers
    <2>2. CASE RequestTimesOut(h, t)
      <3>1. FetchesOK'
        BY <2>2, GotoFetch DEF RequestTimesOut, Goto, FetchPcs, Waiting
      <3> QED
        BY <1>2, <2>2, <3>1 DEF RequestTimesOut, SetReach, Tables
    <2>3. CASE ApplyReply(h, t)
      <3>1. fetch[h][t].snap \in Snapshots
        BY DEF FetchesOK, FetchState
      <3>2. rows' \in [Uid -> Row]
        BY <2>3, <3>1, ApplySnapshotType DEF ApplyReply, Tables
      <3>3. Fetch("applied", NoSnapshot, FALSE, fetch[h][t].seen) \in FetchState
        BY IdleType DEF Fetch, FetchState, FetchPcs, FetchesOK
      <3>4. FetchesOK'
        BY <2>3, <3>3, MoveFetch DEF ApplyReply, SetFetch, Waiting
      <3>5. LinkTypes'
        BY <2>3 DEF ApplyReply, LinkTypes
      <3> QED
        BY <2>3, <3>2, <3>4, <3>5 DEF ApplyReply, Tables
    <2>4. CASE CheckDropped(h, t)
      <3>1. FetchesOK'
        BY <2>4, GotoFetch DEF CheckDropped, Goto, FetchPcs, Waiting
      <3> QED
        BY <1>1, <1>2, <2>4, <3>1 DEF CheckDropped
    <2>5. Idle \in FetchState /\ Idle.pc \in Waiting
      BY IdleType DEF Idle, Fetch, Waiting
    <2>6. CASE MarkReachable(h, t)
      <3>1. FetchesOK'
        BY <2>5, <2>6, MoveFetch DEF MarkReachable, SetFetch
      <3>2. Tables'
        BY <2>6 DEF MarkReachable, SetReach, Tables
      <3>3. LinkTypes'
        BY <2>6 DEF MarkReachable, StartReceiving, LinkTypes
      <3> QED
        BY <3>1, <3>2, <3>3
    <2>7. CASE FetchFails(h, t)
      <3>1. FetchesOK'
        BY <2>5, <2>7, MoveFetch DEF FetchFails, SetFetch
      <3>2. LinkTypes'
        BY <2>7 DEF FetchFails, StartReceiving, LinkTypes
      <3> QED
        BY <1>1, <2>7, <3>1, <3>2 DEF FetchFails
    <2> QED
      BY <1>17, <1>18, <2>1, <2>2, <2>3, <2>4, <2>6, <2>7 DEF FetchSteps
  <1>19. CASE Rescan
    <2>1. rows' \in [Uid -> Row]
      BY <1>19, RowsType DEF Rescan, Purge, Tables
    <2>2. Tables'
      BY <1>19, <2>1 DEF Rescan, PurgePeers, Tables
    <2>3. LinkTypes'
      BY <1>19 DEF Rescan, LinkTypes
    <2> DEFINE to(h) == [fetch[h]["force"] EXCEPT !.pc = "starting"]
    <2>4. ASSUME NEW h \in Peer
          PROVE  to(h) \in FetchState /\ to(h).pc = "starting"
      <3>1. fetch[h]["force"] \in FetchState
        BY DEF FetchesOK, Threads
      <3> QED
        BY <3>1 DEF FetchState, FetchPcs
    <2>5. fetch' = [h \in Peer |-> IF sub[h] # "none" /\ fetch[h]["force"].pc = "idle"
                                     THEN [fetch[h] EXCEPT !["force"] = to(h)]
                                     ELSE fetch[h]]
      BY <1>19 DEF Rescan, FetchesOK
    <2> HIDE DEF to
    <2>6. FetchesOK'
      BY <2>4, <2>5 DEF FetchesOK, Threads, Waiting
    <2> QED
      BY <2>2, <2>3, <2>6
  <1>20. CASE UNCHANGED vars
    BY <1>1, <1>2, <1>3, <1>20 DEF vars
  <1> QED
    BY <1>4, <1>5, <1>6, <1>7, <1>8, <1>9, <1>10, <1>11, <1>12, <1>13, <1>15, <1>16,
       <1>17, <1>18, <1>19, <1>20, <1>21
    DEF Next, PeerDaemon, LinkSteps

\* Every reachable state is well typed, and only one of the threads that
\* share _resync_guard is ever inside its fetch, for any number of peers.
THEOREM PeeringTyped == Spec => []PeeringTypeOK
  <1>1. Types => PeeringTypeOK
    BY DEF Types
  <1> QED
    BY <1>1, InitTypes, NextTypes, PTL DEF Spec

-----------------------------------------------------------------------------
(***************************************************************************)
(* What the pending events say after one is added at the end or taken off  *)
(* the front.                                                              *)
(***************************************************************************)
\* An event published to a live subscription stays pending.
LEMMA PublishedIsPending ==
    ASSUME NEW s \in Seq(Events), NEW r \in Seq(Events), r # <<>>
    PROVE  Append(s, Head(r)) \o Tail(r) = s \o r
  OBVIOUS

\* Receiving takes the oldest pending event.
LEMMA ReceivedIsOldest ==
    ASSUME NEW s \in Seq(Events), NEW r \in Seq(Events), s # <<>>
    PROVE  /\ Tail(s) \o r = Tail(s \o r)
           /\ Head(s) = Head(s \o r)
           /\ s \o r # <<>> /\ s \o r \in Seq(Events)
  OBVIOUS

\* Writing adds the newest one.
LEMMA WrittenIsNewest ==
    ASSUME NEW s \in Seq(Events), NEW e \in Events
    PROVE  /\ s \o <<e>> = Append(s, e)
           /\ s \o <<>> = s
           /\ <<>> \o <<e>> = <<e>>
  OBVIOUS

\* What a queue says once an event is appended to it.
LEMMA Appended ==
    ASSUME NEW q \in Seq(Events), NEW e \in Events, NEW u \in Uid
    PROVE  /\ Silent(Append(q, e), u) => Silent(q, u) /\ e.uid # u
           /\ NoDetach(q, u) /\ ~(e.uid = u /\ e.type = "detach")
                => NoDetach(Append(q, e), u)
           /\ Reattached(q, u) /\ ~(e.uid = u /\ e.type = "detach")
                => Reattached(Append(q, e), u)
           /\ e.uid = u /\ e.type = "attach" => Reattached(Append(q, e), u)
  <1> DEFINE n == Len(q)
             p == Append(q, e)
  <1>1. /\ n \in Nat /\ DOMAIN q = 1..n /\ DOMAIN p = 1..(n + 1)
        /\ p[n + 1] = e /\ \A j \in 1..n : p[j] = q[j]
    OBVIOUS
  <1> HIDE DEF n, p
  <1>2. Silent(p, u) => Silent(q, u) /\ e.uid # u
    BY <1>1 DEF Silent
  <1>3. NoDetach(q, u) /\ ~(e.uid = u /\ e.type = "detach") => NoDetach(p, u)
    BY <1>1 DEF NoDetach
  <1>4. Reattached(q, u) /\ ~(e.uid = u /\ e.type = "detach") => Reattached(p, u)
    <2> SUFFICES ASSUME Reattached(q, u), ~(e.uid = u /\ e.type = "detach")
                 PROVE  Reattached(p, u)
      OBVIOUS
    <2> PICK k \in DOMAIN q :
               /\ q[k].uid = u /\ q[k].type = "attach"
               /\ \A j \in DOMAIN q : j > k => ~(q[j].uid = u /\ q[j].type = "detach")
      BY DEF Reattached
    <2>1. k \in DOMAIN p /\ p[k].uid = u /\ p[k].type = "attach"
      BY <1>1
    <2>2. \A j \in DOMAIN p : j > k => ~(p[j].uid = u /\ p[j].type = "detach")
      BY <1>1
    <2> QED
      BY <2>1, <2>2 DEF Reattached
  <1>5. e.uid = u /\ e.type = "attach" => Reattached(p, u)
    <2> SUFFICES ASSUME e.uid = u, e.type = "attach" PROVE Reattached(p, u)
      OBVIOUS
    <2>1. n + 1 \in DOMAIN p /\ p[n + 1].uid = u /\ p[n + 1].type = "attach"
      BY <1>1
    <2>2. \A j \in DOMAIN p : ~(j > n + 1)
      BY <1>1
    <2> QED
      BY <2>1, <2>2 DEF Reattached
  <1> QED
    BY <1>2, <1>3, <1>4, <1>5 DEF p

\* A queue that tells a table tells the table with the appended event.
LEMMA AppendedTells ==
    ASSUME NEW q \in Seq(Events), NEW e \in Events, NEW table \in [Uid -> Row],
           Told(q, table)
    PROVE  Told(Append(q, e), [table EXCEPT ![e.uid] = e.row])
  <1> DEFINE n == Len(q)
             p == Append(q, e)
             new == [table EXCEPT ![e.uid] = e.row]
  <1>1. /\ n \in Nat /\ DOMAIN q = 1..n /\ DOMAIN p = 1..(n + 1)
        /\ p[n + 1] = e /\ \A j \in 1..n : p[j] = q[j]
    OBVIOUS
  <1>2. /\ e.uid \in Uid /\ new[e.uid] = e.row
        /\ \A v \in Uid : v # e.uid => new[v] = table[v]
    BY DEF Events
  <1>3. \A j \in 1..n : q[j].uid \in Uid
    BY DEF Events
  <1> HIDE DEF n, p, new
  <1>4. ASSUME NEW i \in DOMAIN p, \A j \in DOMAIN p : j > i => p[j].uid # p[i].uid
        PROVE  new[p[i].uid] = p[i].row
    <2>1. CASE i = n + 1
      BY <1>1, <1>2, <2>1
    <2>2. CASE i # n + 1
      <3>1. i \in 1..n /\ p[i] = q[i] /\ n + 1 > i /\ n + 1 \in DOMAIN p
        BY <1>1, <2>2
      <3>2. q[i].uid # e.uid
        BY <1>1, <1>4, <3>1
      <3>3. \A j \in DOMAIN q : j > i => q[j].uid # q[i].uid
        BY <1>1, <1>4, <3>1
      <3>4. table[q[i].uid] = q[i].row
        BY <1>1, <3>1, <3>3 DEF Told
      <3> QED
        BY <1>2, <1>3, <3>1, <3>2, <3>4
    <2> QED
      BY <2>1, <2>2
  <1>5. Told(p, new)
    BY <1>4 DEF Told
  <1> QED
    BY <1>5 DEF p, new

\* What a queue says once its first event is taken.
LEMMA Taken ==
    ASSUME NEW q \in Seq(Events), q # <<>>, NEW u \in Uid
    PROVE  /\ Head(q) \in Events
           /\ Silent(Tail(q), u) /\ Head(q).uid # u => Silent(q, u)
           /\ NoDetach(q, u) => /\ NoDetach(Tail(q), u)
                                /\ ~(Head(q).uid = u /\ Head(q).type = "detach")
           /\ Reattached(q, u) =>
                \/ Reattached(Tail(q), u)
                \/ Head(q).uid = u /\ Head(q).type = "attach" /\ NoDetach(Tail(q), u)
  <1> DEFINE n == Len(q)
             p == Tail(q)
  <1>1. /\ n \in Nat /\ n >= 1 /\ DOMAIN q = 1..n /\ DOMAIN p = 1..(n - 1)
        /\ Head(q) = q[1] /\ \A j \in 1..(n - 1) : p[j] = q[j + 1]
    OBVIOUS
  <1>2. q[1] \in Events
    BY <1>1
  <1> HIDE DEF n, p
  <1>3. \A j \in DOMAIN q : j = 1 \/ (j - 1 \in DOMAIN p /\ q[j] = p[j - 1])
    BY <1>1
  <1>4. \A j \in DOMAIN p : j + 1 \in DOMAIN q /\ p[j] = q[j + 1]
    BY <1>1
  <1>5. Silent(p, u) /\ Head(q).uid # u => Silent(q, u)
    BY <1>1, <1>3 DEF Silent
  <1>6. NoDetach(q, u) => /\ NoDetach(p, u)
                          /\ ~(Head(q).uid = u /\ Head(q).type = "detach")
    BY <1>1, <1>4 DEF NoDetach
  <1>7. Reattached(q, u) =>
          \/ Reattached(p, u)
          \/ Head(q).uid = u /\ Head(q).type = "attach" /\ NoDetach(p, u)
    <2> SUFFICES ASSUME Reattached(q, u)
                 PROVE  \/ Reattached(p, u)
                        \/ Head(q).uid = u /\ Head(q).type = "attach" /\ NoDetach(p, u)
      OBVIOUS
    <2> PICK k \in DOMAIN q :
               /\ q[k].uid = u /\ q[k].type = "attach"
               /\ \A j \in DOMAIN q : j > k => ~(q[j].uid = u /\ q[j].type = "detach")
      BY DEF Reattached
    <2>1. CASE k = 1
      <3>1. \A j \in DOMAIN p : j + 1 > 1
        BY <1>1
      <3>2. NoDetach(p, u)
        BY <1>4, <2>1, <3>1 DEF NoDetach
      <3> QED
        BY <1>1, <2>1, <3>2
    <2>2. CASE k # 1
      <3>1. k - 1 \in DOMAIN p /\ p[k - 1] = q[k]
        BY <1>3, <2>2
      <3>2. \A j \in DOMAIN p : j > k - 1 => j + 1 > k
        BY <1>1
      <3>3. \A j \in DOMAIN p : j > k - 1 => ~(p[j].uid = u /\ p[j].type = "detach")
        BY <1>4, <3>2
      <3> QED
        BY <3>1, <3>3 DEF Reattached
    <2> QED
      BY <2>1, <2>2
  <1> QED
    BY <1>1, <1>2, <1>5, <1>6, <1>7 DEF p

\* Taking the first event leaves a queue that tells the same table; if it was
\* the last about its board, it carries the table's row.
LEMMA TakenTells ==
    ASSUME NEW q \in Seq(Events), q # <<>>, NEW table, Told(q, table)
    PROVE  /\ Told(Tail(q), table)
           /\ Silent(Tail(q), Head(q).uid) => table[Head(q).uid] = Head(q).row
  <1> DEFINE n == Len(q)
             p == Tail(q)
  <1>1. /\ n \in Nat /\ n >= 1 /\ DOMAIN q = 1..n /\ DOMAIN p = 1..(n - 1)
        /\ Head(q) = q[1] /\ \A j \in 1..(n - 1) : p[j] = q[j + 1]
    OBVIOUS
  <1> HIDE DEF n, p
  <1>3. \A j \in DOMAIN q : j = 1 \/ (j - 1 \in DOMAIN p /\ q[j] = p[j - 1])
    BY <1>1
  <1>4. ASSUME NEW i \in DOMAIN p, \A j \in DOMAIN p : j > i => p[j].uid # p[i].uid
        PROVE  table[p[i].uid] = p[i].row
    <2>1. i + 1 \in DOMAIN q /\ p[i] = q[i + 1]
      BY <1>1
    <2>2. ASSUME NEW j \in DOMAIN q, j > i + 1 PROVE q[j].uid # q[i + 1].uid
      <3>1. j # 1 /\ j - 1 > i
        BY <1>1, <2>2
      <3> QED
        BY <1>3, <1>4, <2>1, <3>1
    <2> QED
      BY <2>1, <2>2 DEF Told
  <1>5. Silent(p, q[1].uid) => table[q[1].uid] = q[1].row
    <2> SUFFICES ASSUME Silent(p, q[1].uid) PROVE table[q[1].uid] = q[1].row
      OBVIOUS
    <2>1. 1 \in DOMAIN q
      BY <1>1
    <2>2. ASSUME NEW j \in DOMAIN q, j > 1 PROVE q[j].uid # q[1].uid
      BY <1>3, <2>2 DEF Silent
    <2> QED
      BY <2>1, <2>2 DEF Told
  <1> QED
    BY <1>1, <1>4, <1>5 DEF Told, p

-----------------------------------------------------------------------------
(***************************************************************************)
(* The mirror of one peer.  A step falls in one of five kinds: it changes  *)
(* nothing the invariant is about; it loses events; the peer writes a row; *)
(* an event is received; a snapshot is built or applied, or rows purged.   *)
(***************************************************************************)
\* Steps that change neither the peer's table nor what is pending.
LEMMA SyncKept ==
    ASSUME NEW h \in Peer, SyncInv(h), WrittenOnce(h)', own'[h] = own[h],
           Pending(h)' = Pending(h), sub'[h] = sub[h],
           sync'[h] = "lost" <=> sync[h] = "lost",
           \A t \in Threads : InStep(h, t)' =>
               InStep(h, t) /\ fetch'[h][t].snap = fetch[h][t].snap,
           sync'[h] = "synced" => \A u \in Uid : MirrorIsExact(h, u)'
    PROVE  SyncInv(h)'
  <1>1. sync'[h] # "lost" => Intact(h)'
    BY DEF SyncInv, Intact
  <1>2. ASSUME NEW t \in Threads, InStep(h, t)'
        PROVE  sync'[h] # "lost" /\ \A u \in Uid : ReplyIsExact(h, fetch[h][t].snap, u)'
    <2>1. InStep(h, t) /\ fetch'[h][t].snap = fetch[h][t].snap
      BY <1>2
    <2>2. sync[h] # "lost" /\ \A u \in Uid : ReplyIsExact(h, fetch[h][t].snap, u)
      BY <2>1 DEF SyncInv
    <2> QED
      BY <2>1, <2>2 DEF ReplyIsExact
  <1> QED
    BY <1>1, <1>2 DEF SyncInv

\* The same, when the rows here stay too.
LEMMA SyncFrame ==
    ASSUME NEW h \in Peer, SyncInv(h), WrittenOnce(h)', UNCHANGED <<own, rows>>,
           Pending(h)' = Pending(h), sub'[h] = sub[h], sync'[h] = sync[h],
           \A t \in Threads : InStep(h, t)' =>
               InStep(h, t) /\ fetch'[h][t].snap = fetch[h][t].snap
    PROVE  SyncInv(h)'
  <1>1. sync'[h] = "synced" => \A u \in Uid : MirrorIsExact(h, u)'
    BY DEF SyncInv, MirrorIsExact
  <1> QED
    BY <1>1, SyncKept

\* Steps that lose events leave no reply in step.
LEMMA SyncLost ==
    ASSUME NEW h \in Peer, WrittenOnce(h)', sync'[h] = "lost",
           \A t \in Threads : ~InStep(h, t)'
    PROVE  SyncInv(h)'
  BY DEF SyncInv

\* Overtaken replies are not in step.
LEMMA OvertakenOutOfStep ==
    ASSUME Types, NEW h \in Peer, fetch' = Overtaken(h), NEW t \in Threads
    PROVE  ~InStep(h, t)'
  BY TypesFetches, OvertakenFetch DEF InStep

\* A subscription whose queue is empty has lost nothing the peer still tells.
LEMMA EmptyInboxIsIntact ==
    ASSUME Types, NEW h \in Peer, WrittenOnce(h), sub[h] = "up", inbox[h] = <<>>
    PROVE  Intact(h)
  <1>1. unsent[h] \in Seq(Events) /\ Pending(h) = unsent[h]
    BY DEF Types, Pending
  <1>2. CASE unsent[h] = <<>>
    BY <1>1, <1>2 DEF Intact, Told, Covers, NoDetach
  <1>3. CASE Len(unsent[h]) = 1 /\ Told(unsent[h], own[h])
    <2> DEFINE e == unsent[h][1]
    <2>1. /\ DOMAIN unsent[h] = {1} /\ e \in Events
      BY <1>1, <1>3
    <2>2. own[h][e.uid] = e.row
      BY <1>3, <2>1 DEF Told
    <2>3. e.type = "detach" => ~IsAttached(own[h][e.uid])
      BY <2>1, <2>2 DEF Events, Carries
    <2>4. ASSUME NEW u \in Uid PROVE Covers(unsent[h], u, own[h][u], TRUE)
      BY <2>1, <2>3 DEF Covers, NoDetach
    <2> QED
      BY <1>1, <1>3, <2>4 DEF Intact
  <1> QED
    BY <1>2, <1>3 DEF WrittenOnce

\* The peer writes a row: its event covers what it changed.
LEMMA WriteSync ==
    ASSUME Types, NEW h \in Peer, SyncInv(h), NEW u \in Uid, NEW type \in EventTypes,
           NEW row \in Row, PeerWrite(h, u, type, row), Event(type, u, row) \in Events,
           type = "identity" => IsAttached(own[h][u])
    PROVE  SyncInv(h)'
  <1> DEFINE e == Event(type, u, row)
             q == inbox[h]
  <1>1. /\ own[h] \in [Uid -> Row] /\ q \in Seq(Events) /\ e \in Events
        /\ e.uid = u /\ e.type = type /\ e.row = row
        /\ unsent[h] = <<>> /\ unsent'[h] = <<e>>
        /\ own'[h] = [own[h] EXCEPT ![u] = row]
        /\ UNCHANGED <<rows, sub, inbox, fetch, sync>>
    BY DEF PeerWrite, Types, PeeringTypeOK, Event, linkVars
  <1>2. IsAttached(row) <=> type # "detach"
    BY <1>1 DEF Events, Carries
  <1> HIDE DEF e
  <1>3. Pending(h) = q /\ Pending(h)' = Append(q, e)
    BY <1>1, WrittenIsNewest DEF Pending
  <1> HIDE DEF q
  <1>4. WrittenOnce(h)'
    BY <1>1 DEF WrittenOnce, Told
  <1>5. ASSUME NEW v \in Uid, IsAttached(own'[h][v])
        PROVE  /\ Reattached(q, v) => Reattached(Append(q, e), v)
               /\ NoDetach(q, v) => NoDetach(Append(q, e), v)
               /\ IsAttached(own[h][v]) \/ Reattached(Append(q, e), v)
    <2>1. ~(e.uid = v /\ e.type = "detach")
      BY <1>1, <1>2, <1>5
    <2>2. CASE v # u
      BY <1>1, <1>5, <2>1, <2>2, Appended
    <2>3. CASE v = u
      BY <1>1, <2>1, <2>3, Appended DEF EventTypes
    <2> QED
      BY <2>2, <2>3
  <1>6. ASSUME NEW v \in Uid, Silent(Append(q, e), v)
        PROVE  Silent(q, v) /\ own'[h][v] = own[h][v]
    BY <1>1, <1>6, Appended
  <1>7. sync'[h] # "lost" => Intact(h)'
    <2> SUFFICES ASSUME sync[h] # "lost" PROVE Intact(h)'
      BY <1>1
    <2>1. sub[h] = "up" /\ Told(q, own[h]) /\ \A v \in Uid : Covers(q, v, own[h][v], TRUE)
      BY <1>3 DEF SyncInv, Intact
    <2>2. Told(Append(q, e), own'[h])
      BY <1>1, <2>1, AppendedTells
    <2>3. ASSUME NEW v \in Uid PROVE Covers(Append(q, e), v, own'[h][v], TRUE)
      BY <1>5, <2>1 DEF Covers
    <2> QED
      BY <1>1, <1>3, <2>1, <2>2, <2>3 DEF Intact
  <1>8. ASSUME NEW t \in Threads, InStep(h, t)'
        PROVE  sync'[h] # "lost" /\ \A v \in Uid : ReplyIsExact(h, fetch[h][t].snap, v)'
    <2>1. InStep(h, t)
      BY <1>1, <1>8 DEF InStep
    <2>2. ASSUME NEW v \in Uid PROVE ReplyIsExact(h, fetch[h][t].snap, v)'
      <3>1. ReplyIsExact(h, fetch[h][t].snap, v)
        BY <2>1 DEF SyncInv
      <3>2. Covers(Append(q, e), v, own'[h][v], v \in DOMAIN fetch[h][t].snap)
        BY <1>3, <1>5, <3>1 DEF ReplyIsExact, Covers
      <3>3. Silent(Append(q, e), v) =>
              /\ v \in DOMAIN fetch[h][t].snap <=> IsAttached(own'[h][v])
              /\ v \in DOMAIN fetch[h][t].snap => fetch[h][t].snap[v] = own'[h][v]
        BY <1>3, <1>6, <3>1 DEF ReplyIsExact
      <3> QED
        BY <1>1, <1>3, <3>2, <3>3 DEF ReplyIsExact
    <2> QED
      BY <1>1, <2>1, <2>2 DEF SyncInv
  <1>9. ASSUME NEW v \in Uid, sync'[h] = "synced" PROVE MirrorIsExact(h, v)'
    <2>1. MirrorIsExact(h, v)
      BY <1>1, <1>9 DEF SyncInv
    <2>2. CASE ~IsLocal(rows[v])
      <3>1. Covers(Append(q, e), v, own'[h][v], Held(rows[v], h))
        BY <1>3, <1>5, <2>1, <2>2 DEF MirrorIsExact, Covers
      <3>2. Silent(Append(q, e), v) => AlmostMirrors(rows[v], h, own'[h][v])
        BY <1>3, <1>6, <2>1, <2>2 DEF MirrorIsExact
      <3> QED
        BY <1>1, <1>3, <3>1, <3>2 DEF MirrorIsExact
    <2> QED
      BY <1>1, <2>2 DEF MirrorIsExact
  <1> QED
    BY <1>4, <1>7, <1>8, <1>9 DEF SyncInv

\* The row of the board an event is about, when it is received while the
\* mirror is synced.  p is what remains pending; the event is the last about
\* its board if p is silent.
LEMMA ReceiveRow ==
    ASSUME NEW row \in Row, NEW h \in Peer, NEW e \in Events, NEW theirs \in Row,
           NEW q \in Seq(Events), q # <<>>, e = Head(q),
           Covers(q, e.uid, theirs, TRUE),
           IsLocal(row) \/ Covers(q, e.uid, theirs, Held(row, h)),
           Silent(Tail(q), e.uid) => theirs = e.row,
           NEW new \in Row,
           e.type = "attach" => new = UpsertDevice(row, h, NoPort),
           e.type = "detach" =>
               new = IF AttributedTo(row, h) THEN MarkDisconnected(row) ELSE row,
           e.type = "identity" =>
               new = IF AttributedTo(row, h) THEN ApplyState(row, e.row) ELSE row
    PROVE  \/ IsLocal(new)
           \/ /\ Covers(Tail(q), e.uid, theirs, Held(new, h))
              /\ Silent(Tail(q), e.uid) => AlmostMirrors(new, h, theirs)
  <1> DEFINE p == Tail(q)
             u == e.uid
  <1>1. u \in Uid /\ e.row \in Row /\ e.type \in EventTypes /\ Carries(e)
    BY DEF Events
  <1>2. /\ NoDetach(q, u) => NoDetach(p, u) /\ e.type # "detach"
        /\ Reattached(q, u) => Reattached(p, u) \/ (e.type = "attach" /\ NoDetach(p, u))
    BY <1>1, Taken
  <1> HIDE DEF p
  <1>3. CASE e.type = "attach"
    <2>1. CASE LocallyAttached(row)
      BY <1>3, <2>1, UpsertHolds DEF LocallyAttached
    <2>2. CASE ~LocallyAttached(row)
      <3>1. Held(new, h)
        BY <1>3, <2>2, UpsertHolds
      <3>2. Covers(p, u, theirs, Held(new, h))
        BY <1>2, <3>1 DEF Covers
      <3>3. Silent(p, u) => AlmostMirrors(new, h, theirs)
        BY <1>1, <1>3, <3>1 DEF AlmostMirrors, Carries, p
      <3> QED
        BY <3>2, <3>3 DEF p
    <2> QED
      BY <2>1, <2>2
  <1>4. CASE e.type = "detach"
    <2>1. ~Held(new, h)
      BY <1>4
      DEF Held, AttributedTo, MarkDisconnected, IsAttached, Attached, Row
    <2>2. Covers(p, u, theirs, Held(new, h))
      BY <1>2, <1>4 DEF Covers
    <2>3. Silent(p, u) => AlmostMirrors(new, h, theirs)
      BY <1>1, <1>4, <2>1 DEF AlmostMirrors, Carries, p
    <2> QED
      BY <2>2, <2>3 DEF p
  <1>5. CASE e.type = "identity"
    <2>1. CASE IsLocal(row)
      BY <1>5, <2>1, LocalIsNoPeer DEF IsLocal, AttributedTo
    <2>2. CASE ~IsLocal(row)
      <3>1. Held(row, h) => Held(new, h)
        BY <1>1, <1>5, ApplyStateHolds DEF Held
      <3>2. Covers(p, u, theirs, Held(new, h))
        BY <1>2, <1>5, <2>2, <3>1 DEF Covers
      <3>3. ASSUME Silent(p, u) PROVE AlmostMirrors(new, h, theirs)
        <4>1. theirs = e.row /\ IsAttached(e.row) /\ OwnRow(e.row)
          BY <1>1, <1>5, <3>3 DEF Carries, p
        <4>2. ~Reattached(p, u)
          BY <3>3 DEF Reattached, Silent
        <4>3. Held(row, h)
          BY <1>2, <1>5, <2>2, <4>1, <4>2 DEF Covers
        <4>4. new = ApplyState(row, e.row)
          BY <1>5, <4>3 DEF Held
        <4> QED
          BY <1>1, <4>1, <4>3, <4>4, ApplyStateMirrors
      <3> QED
        BY <3>2, <3>3 DEF p
    <2> QED
      BY <2>1, <2>2
  <1> QED
    BY <1>1, <1>3, <1>4, <1>5 DEF EventTypes

\* Receiving an event keeps the invariant.
LEMMA ReceiveSync ==
    ASSUME Types, Types', NEW h \in Peer, SyncInv(h), ReceiveEvent(h)
    PROVE  SyncInv(h)'
  <1> DEFINE q == Pending(h)
             e == Head(q)
             p == Tail(q)
  <1>1. /\ inbox[h] \in Seq(Events) /\ inbox[h] # <<>> /\ unsent[h] \in Seq(Events)
        /\ inbox'[h] = Tail(inbox[h]) /\ UNCHANGED <<own, unsent, sub>>
        /\ rows' = ApplyEvent(rows, h, Head(inbox[h]))
        /\ fetch' = Overtaken(h)
        /\ sync' = IF sub[h] = "up" THEN Refilled(h, Tail(inbox[h])) ELSE sync
    BY DEF ReceiveEvent, Types, peerVars
  <1>2. /\ q \in Seq(Events) /\ q # <<>> /\ Pending(h)' = p /\ Head(inbox[h]) = e
    BY <1>1, ReceivedIsOldest DEF Pending
  <1>3. WrittenOnce(h)'
    BY <1>1 DEF SyncInv, WrittenOnce
  <1>4. \A t \in Threads : ~InStep(h, t)'
    BY <1>1, OvertakenOutOfStep
  <1>5. CASE sync[h] = "lost"
    <2>1. sync'[h] # "lost" => sync'[h] = "intact" /\ sub'[h] = "up" /\ inbox'[h] = <<>>
      BY <1>1, <1>5 DEF Refilled, Types, PeeringTypeOK
    <2>2. (WrittenOnce(h) /\ sub[h] = "up" /\ inbox[h] = <<>> => Intact(h))'
      BY EmptyInboxIsIntact, PTL
    <2>3. sync'[h] # "lost" => Intact(h)'
      BY <1>3, <2>1, <2>2
    <2>4. sync'[h] # "synced"
      BY <2>1
    <2> QED
      BY <1>3, <1>4, <2>3, <2>4 DEF SyncInv
  <1>6. CASE sync[h] # "lost"
    <2>1. sync'[h] = sync[h]
      BY <1>1, <1>6 DEF Refilled, Types, PeeringTypeOK
    <2>2. sub[h] = "up" /\ Told(q, own[h]) /\ \A u \in Uid : Covers(q, u, own[h][u], TRUE)
      BY <1>6 DEF SyncInv, Intact
    <2>3. Told(p, own[h]) /\ (Silent(p, e.uid) => own[h][e.uid] = e.row)
      BY <1>2, <2>2, TakenTells
    <2>4. ASSUME NEW u \in Uid PROVE Covers(p, u, own[h][u], TRUE)
      <3>1. Covers(q, u, own[h][u], TRUE)
        BY <2>2
      <3>2. /\ NoDetach(q, u) => NoDetach(p, u)
            /\ Reattached(q, u) => Reattached(p, u) \/ NoDetach(p, u)
        BY <1>2, Taken
      <3> QED
        BY <3>1, <3>2 DEF Covers
    <2>5. Intact(h)'
      BY <1>1, <1>2, <2>2, <2>3, <2>4 DEF Intact
    <2>6. ASSUME NEW u \in Uid, sync[h] = "synced" PROVE MirrorIsExact(h, u)'
      <3>0. /\ MirrorIsExact(h, u) /\ rows \in [Uid -> Row] /\ own[h] \in [Uid -> Row]
            /\ e \in Events /\ e.uid \in Uid
        <4>1. e \in Events
          BY <1>2, Taken
        <4> QED
          BY <2>6, <4>1 DEF SyncInv, Types, PeeringTypeOK, Events
      <3>1. CASE u # e.uid
        <4>1. rows'[u] = rows[u]
          BY <1>1, <1>2, <3>0, <3>1, ApplyEventRow
        <4>2. /\ NoDetach(q, u) => NoDetach(p, u)
              /\ Reattached(q, u) => Reattached(p, u)
              /\ Silent(p, u) => Silent(q, u)
          BY <1>2, <3>1, Taken
        <4>3. \/ IsLocal(rows[u])
              \/ /\ Covers(p, u, own[h][u], Held(rows[u], h))
                 /\ Silent(p, u) => AlmostMirrors(rows[u], h, own[h][u])
          BY <3>0, <4>2 DEF MirrorIsExact, Covers
        <4> QED
          BY <1>1, <1>2, <4>1, <4>3 DEF MirrorIsExact
      <3>2. CASE u = e.uid
        <4>1. /\ rows'[u] \in Row /\ rows[u] \in Row
              /\ e.type = "attach" => rows'[u] = UpsertDevice(rows[u], h, NoPort)
              /\ e.type = "detach" =>
                   rows'[u] = IF AttributedTo(rows[u], h) THEN MarkDisconnected(rows[u])
                              ELSE rows[u]
              /\ e.type = "identity" =>
                   rows'[u] = IF AttributedTo(rows[u], h) THEN ApplyState(rows[u], e.row)
                              ELSE rows[u]
          BY <1>1, <1>2, <3>0, <3>2, ApplyEventRow
        <4>2. IsLocal(rows[u]) \/ Covers(q, u, own[h][u], Held(rows[u], h))
          BY <3>0 DEF MirrorIsExact
        <4>3. Covers(q, u, own[h][u], TRUE) /\ own[h][u] \in Row
          BY <2>2, <3>0
        <4> HIDE DEF q, e, p
        <4>4. \/ IsLocal(rows'[u])
              \/ /\ Covers(Tail(q), u, own[h][u], Held(rows'[u], h))
                 /\ Silent(Tail(q), u) => AlmostMirrors(rows'[u], h, own[h][u])
          BY <1>2, <2>3, <3>0, <3>2, <4>1, <4>2, <4>3, ReceiveRow DEF e, p
        <4> QED
          BY <1>1, <1>2, <4>4 DEF MirrorIsExact, p
      <3> QED
        BY <3>1, <3>2
    <2> QED
      BY <1>3, <1>4, <2>1, <2>5, <2>6 DEF SyncInv
  <1> QED
    BY <1>5, <1>6

\* What applying a snapshot of peer h makes of one row.
LEMMA SnapshotRow ==
    ASSUME NEW table \in [Uid -> Row], NEW h \in Peer, NEW snap \in Snapshots, NEW u \in Uid
    PROVE  /\ u \in DOMAIN snap =>
                \/ IsLocal(ApplySnapshot(table, h, snap)[u])
                \/ /\ Held(ApplySnapshot(table, h, snap)[u], h)
                   /\ IsAttached(snap[u]) /\ OwnRow(snap[u]) =>
                        AlmostMirrors(ApplySnapshot(table, h, snap)[u], h, snap[u])
           /\ u \notin DOMAIN snap => ~Held(ApplySnapshot(table, h, snap)[u], h)
  <1> DEFINE row == table[u]
             new == ApplySnapshot(table, h, snap)[u]
  <1>0. row \in Row
    OBVIOUS
  <1>1. CASE u \in DOMAIN snap
    <2> DEFINE claimed == UpsertDevice(row, h, NoPort)
    <2>1. snap[u] \in Row /\ claimed \in Row
      BY <1>0, <1>1, RowsType DEF Snapshots
    <2>2. new = IF claimed.host = h THEN ApplyState(claimed, snap[u]) ELSE claimed
      BY <1>1 DEF ApplySnapshot, SnapshotDevice
    <2>3. CASE LocallyAttached(row)
      <3>1. claimed = row /\ row.host # h
        BY <1>0, <2>3, UpsertHolds, LocalIsNoPeer DEF LocallyAttached, IsLocal
      <3> QED
        BY <1>1, <2>2, <2>3, <3>1 DEF LocallyAttached
    <2>4. CASE ~LocallyAttached(row)
      <3>1. Held(claimed, h)
        BY <1>0, <2>4, UpsertHolds
      <3>2. new = ApplyState(claimed, snap[u])
        BY <2>2, <3>1 DEF Held, AttributedTo
      <3> HIDE DEF claimed
      <3>3. Held(new, h)
        BY <2>1, <3>1, <3>2, ApplyStateHolds
      <3>4. IsAttached(snap[u]) /\ OwnRow(snap[u]) => AlmostMirrors(new, h, snap[u])
        BY <2>1, <3>1, <3>2, ApplyStateMirrors
      <3> QED
        BY <1>1, <3>3, <3>4
    <2> QED
      BY <2>3, <2>4
  <1>2. CASE u \notin DOMAIN snap
    <2>1. new = IF Held(row, h) THEN MarkDisconnected(row) ELSE row
      BY <1>2 DEF ApplySnapshot, Held
    <2>2. ~Held(MarkDisconnected(row), h)
      BY <1>0 DEF MarkDisconnected, Held, IsAttached, Attached, Row
    <2> QED
      BY <1>2, <2>1, <2>2
  <1> QED
    BY <1>1, <1>2

\* A reply built for an intact subscription is exact but for what is pending.
LEMMA AnswerSync ==
    ASSUME Types, NEW h \in Peer, NEW t \in Threads, SyncInv(h), PeerAnswers(h, t)
    PROVE  SyncInv(h)'
  <1> DEFINE snap == SnapshotOf(own[h])
  <1>1. /\ UNCHANGED <<own, unsent, rows, sub, inbox, sync>>
        /\ own[h] \in [Uid -> Row] /\ \A u \in Uid : OwnRow(own[h][u])
        /\ fetch \in [Peer -> [Threads -> FetchState]]
        /\ fetch' = [fetch EXCEPT ![h][t] =
                       Fetch("answered", snap, sub[h] = "up" /\ sync[h] # "lost", fetch[h][t].seen)]
    BY DEF PeerAnswers, SetFetch, Types, PeeringTypeOK, peerVars, linkVars
  <1>2. ASSUME NEW s \in Threads
        PROVE  fetch'[h][s] = IF s = t THEN Fetch("answered", snap, sub[h] = "up" /\ sync[h] # "lost", fetch[h][t].seen)
                              ELSE fetch[h][s]
    BY <1>1
  <1>3. ASSUME NEW u \in Uid, sync[h] # "lost" PROVE ReplyIsExact(h, snap, u)
    <2>1. Covers(Pending(h), u, own[h][u], TRUE)
      BY <1>3 DEF SyncInv, Intact
    <2>2. /\ u \in DOMAIN snap <=> LocallyAttached(own[h][u])
          /\ u \in DOMAIN snap => snap[u] = own[h][u]
      BY DEF SnapshotOf
    <2>3. LocallyAttached(own[h][u]) <=> IsAttached(own[h][u])
      BY <1>1 DEF LocallyAttached, IsLocal, Exists, OwnRow, IsAttached, Attached
    <2> QED
      BY <2>1, <2>2, <2>3 DEF ReplyIsExact, Covers
  <1> HIDE DEF snap
  <1>4. Pending(h)' = Pending(h) /\ WrittenOnce(h)'
    BY <1>1 DEF Pending, SyncInv, WrittenOnce
  <1>5. sync'[h] # "lost" => Intact(h)'
    BY <1>1, <1>4 DEF SyncInv, Intact
  <1>6. ASSUME NEW s \in Threads, InStep(h, s)'
        PROVE  sync'[h] # "lost" /\ \A u \in Uid : ReplyIsExact(h, fetch[h][s].snap, u)'
    <2>1. sync[h] # "lost" /\ \A u \in Uid : ReplyIsExact(h, fetch'[h][s].snap, u)
      <3>1. CASE s = t
        <4>1. /\ fetch'[h][s].snap = snap
              /\ fetch'[h][s].inStep = (sub[h] = "up" /\ sync[h] # "lost")
          BY <1>2, <3>1 DEF Fetch
        <4>2. fetch'[h][s].inStep
          BY <1>6 DEF InStep
        <4>3. sync[h] # "lost"
          BY <4>1, <4>2
        <4> QED
          BY <1>3, <4>1, <4>3
      <3>2. CASE s # t
        BY <1>2, <1>6, <3>2 DEF InStep, SyncInv
      <3> QED
        BY <3>1, <3>2
    <2> QED
      BY <1>1, <1>4, <2>1 DEF ReplyIsExact
  <1>7. sync'[h] = "synced" => \A u \in Uid : MirrorIsExact(h, u)'
    BY <1>1, <1>4 DEF SyncInv, MirrorIsExact
  <1> QED
    BY <1>4, <1>5, <1>6, <1>7 DEF SyncInv

\* A reply applied in step makes the mirror exact but for what is pending.
LEMMA ReplySync ==
    ASSUME Types, NEW h \in Peer, NEW t \in Threads, SyncInv(h), ApplyReply(h, t)
    PROVE  SyncInv(h)'
  <1> DEFINE snap == fetch[h][t].snap
  <1>1. /\ UNCHANGED <<own, unsent, sub, inbox>>
        /\ own[h] \in [Uid -> Row] /\ \A u \in Uid : OwnRow(own[h][u])
        /\ rows \in [Uid -> Row] /\ snap \in Snapshots
        /\ fetch \in [Peer -> [Threads -> FetchState]]
        /\ fetch[h][t].pc = "answered"
        /\ rows' = ApplySnapshot(rows, h, snap)
        /\ fetch' = [fetch EXCEPT ![h][t] = Fetch("applied", NoSnapshot, FALSE, fetch[h][t].seen)]
    BY DEF ApplyReply, SetFetch, Types, PeeringTypeOK, FetchState, peerVars, linkVars
  <1>2. ASSUME NEW s \in Threads, InStep(h, s)'
        PROVE  InStep(h, s) /\ fetch'[h][s].snap = fetch[h][s].snap
    <2>1. fetch'[h][s] = IF s = t THEN Fetch("applied", NoSnapshot, FALSE, fetch[h][t].seen) ELSE fetch[h][s]
      BY <1>1
    <2> QED
      BY <1>2, <2>1 DEF InStep, Fetch
  <1>3. Pending(h)' = Pending(h) /\ WrittenOnce(h)'
    BY <1>1 DEF Pending, SyncInv, WrittenOnce
  <1>4. sync'[h] = IF fetch[h][t].inStep THEN "synced"
                   ELSE IF sync[h] = "lost" THEN "lost" ELSE "intact"
    BY DEF ApplyReply, Types, PeeringTypeOK
  <1>5. fetch[h][t].inStep => InStep(h, t) /\ sync[h] # "lost"
    BY <1>1 DEF InStep, SyncInv
  <1>6. ASSUME NEW u \in Uid, sync'[h] = "synced" PROVE MirrorIsExact(h, u)'
    <2>1. ReplyIsExact(h, snap, u)
      BY <1>4, <1>5, <1>6 DEF SyncInv
    <2>2. CASE u \in DOMAIN snap
      <3>1. CASE IsLocal(rows'[u])
        BY <3>1 DEF MirrorIsExact
      <3>2. CASE ~IsLocal(rows'[u])
        <4>1. /\ Held(rows'[u], h)
              /\ IsAttached(snap[u]) /\ OwnRow(snap[u]) => AlmostMirrors(rows'[u], h, snap[u])
          BY <1>1, <2>2, <3>2, SnapshotRow
        <4>2. Covers(Pending(h), u, own[h][u], Held(rows'[u], h))
          BY <2>1, <4>1 DEF ReplyIsExact, Covers
        <4>3. Silent(Pending(h), u) => AlmostMirrors(rows'[u], h, own[h][u])
          BY <1>1, <2>1, <2>2, <4>1 DEF ReplyIsExact
        <4> QED
          BY <1>1, <1>3, <4>2, <4>3 DEF MirrorIsExact
      <3> QED
        BY <3>1, <3>2
    <2>3. CASE u \notin DOMAIN snap
      <3>1. ~Held(rows'[u], h)
        BY <1>1, <2>3, SnapshotRow
      <3>2. Covers(Pending(h), u, own[h][u], Held(rows'[u], h))
        BY <2>1, <2>3 DEF ReplyIsExact, Covers
      <3>3. Silent(Pending(h), u) => AlmostMirrors(rows'[u], h, own[h][u])
        BY <2>1, <2>3, <3>1 DEF ReplyIsExact, AlmostMirrors
      <3> QED
        BY <1>1, <1>3, <3>2, <3>3 DEF MirrorIsExact
    <2> QED
      BY <2>2, <2>3
  <1> QED
    BY <1>1, <1>2, <1>3, <1>4, <1>5, <1>6, SyncKept

\* A purge that deletes neither rows of this host nor rows of a peer marked
\* down only deletes rows of boards that are gone.
LEMMA RescanSync ==
    ASSUME \A g, h \in Peer : g = h, Types, NEW h \in Peer, SyncInv(h), Rescan
    PROVE  SyncInv(h)'
  <1>1. /\ UNCHANGED <<own, unsent, sub, inbox>> /\ rows \in [Uid -> Row]
        /\ fetch \in [Peer -> [Threads -> FetchState]]
        /\ rows' = Purge(rows, reach, CandidatesForPurge(rows, reach))
        /\ sync'[h] = IF sync[h] = "synced" /\ PurgesFrom(h) THEN "purged" ELSE sync[h]
        /\ fetch'[h] = IF sub[h] # "none" /\ fetch[h]["force"].pc = "idle"
                         THEN [fetch[h] EXCEPT !["force"].pc = "starting"] ELSE fetch[h]
    BY DEF Rescan, Types, PeeringTypeOK, peerVars, linkVars
  <1>2. Pending(h)' = Pending(h) /\ WrittenOnce(h)'
    BY <1>1 DEF Pending, SyncInv, WrittenOnce
  <1>3. ASSUME NEW t \in Threads, InStep(h, t)'
        PROVE  InStep(h, t) /\ fetch'[h][t].snap = fetch[h][t].snap
    <2>1. \/ fetch'[h][t] = fetch[h][t]
          \/ fetch'[h][t].pc = "starting"
      <3>1. fetch[h] \in [Threads -> FetchState]
        BY <1>1
      <3> QED
        BY <1>1, <3>1 DEF FetchState
    <2> QED
      BY <1>3, <2>1 DEF InStep
  <1>4. ASSUME NEW u \in Uid, sync'[h] = "synced" PROVE MirrorIsExact(h, u)'
    <2>1. MirrorIsExact(h, u) /\ ~PurgesFrom(h) /\ rows[u] \in Row
      BY <1>1, <1>4 DEF SyncInv
    <2>2. CASE rows'[u] = rows[u]
      BY <1>1, <1>2, <2>1, <2>2 DEF MirrorIsExact
    <2>3. CASE rows'[u] # rows[u]
      <3>1. rows'[u] = NoRow /\ PurgeCandidate(rows[u], reach)
        BY <1>1, <2>3 DEF Purge, CandidatesForPurge
      <3>2. ~IsLocal(rows[u])
        BY <2>1, <3>1 DEF PurgesFrom, CandidatesForPurge
      <3>3. rows[u].state = "disconnected"
        <4>1. rows[u].host \in Peer \cup {Local} /\ reach[h] # "down"
          BY <2>1 DEF PurgesFrom, Row
        <4>2. ~OfUnreachablePeer(rows[u], reach)
          BY <4>1 DEF OfUnreachablePeer
        <4> QED
          BY <3>1, <4>2 DEF PurgeCandidate
      <3>4. ~Held(rows[u], h) /\ ~Held(NoRow, h)
        BY <3>3 DEF Held, AttributedTo, Exists, IsAttached, Attached, NoRow
      <3>5. /\ Covers(Pending(h), u, own[h][u], Held(NoRow, h))
            /\ Silent(Pending(h), u) => AlmostMirrors(NoRow, h, own[h][u])
        BY <2>1, <3>2, <3>4 DEF MirrorIsExact, Covers, AlmostMirrors
      <3> QED
        BY <1>1, <1>2, <3>1, <3>5 DEF MirrorIsExact
    <2> QED
      BY <2>2, <2>3
  <1> QED
    BY <1>1, <1>2, <1>3, <1>4, SyncKept

\* Every step keeps the invariant of the only peer.
LEMMA NextSync ==
    ASSUME \A g, h \in Peer : g = h, Types, Types', NEW h \in Peer, SyncInv(h), [Next]_vars
    PROVE  SyncInv(h)'
  <1> USE DEF peerVars, linkVars
  <1>0. /\ fetch \in [Peer -> [Threads -> FetchState]] /\ rows \in [Uid -> Row]
        /\ unsent \in [Peer -> Seq(Events)] /\ inbox \in [Peer -> Seq(Events)]
        /\ sync \in [Peer -> {"lost", "intact", "synced", "purged"}]
        /\ sub \in [Peer -> {"none", "connecting", "up", "down"}]
        /\ WrittenOnce(h)
    BY DEF Types, PeeringTypeOK, SyncInv
  <1>1. UNCHANGED <<own, unsent>> => WrittenOnce(h)'
    BY <1>0 DEF WrittenOnce
  <1>2. UNCHANGED <<inbox, unsent>> => Pending(h)' = Pending(h)
    BY DEF Pending
  <1>3. ASSUME UNCHANGED <<own, rows, unsent, inbox, sub, sync>>,
               \A t \in Threads : InStep(h, t)' =>
                   InStep(h, t) /\ fetch'[h][t].snap = fetch[h][t].snap
        PROVE  SyncInv(h)'
    BY <1>1, <1>2, <1>3, SyncFrame
  <1>4. ASSUME UNCHANGED <<own, rows, unsent, inbox, sub, sync, fetch>> PROVE SyncInv(h)'
    BY <1>3, <1>4 DEF InStep
  <1>5. ASSUME UNCHANGED <<own, rows, unsent, inbox, sub, sync>>, NEW t \in Threads, NEW to,
               to.pc # "answered", fetch' = [fetch EXCEPT ![h][t] = to]
        PROVE  SyncInv(h)'
    <2>1. ASSUME NEW s \in Threads
          PROVE  fetch'[h][s] = IF s = t THEN to ELSE fetch[h][s]
      BY <1>0, <1>5
    <2> QED
      BY <1>3, <1>5, <2>1 DEF InStep
  <1>6. ASSUME UNCHANGED <<own, rows, unsent, inbox, sub, sync>>, NEW t \in Threads,
               NEW pc, pc # "answered", fetch' = [fetch EXCEPT ![h][t].pc = pc]
        PROVE  SyncInv(h)'
    <2>1. ASSUME NEW s \in Threads
          PROVE  IF s = t THEN fetch'[h][s].pc = pc ELSE fetch'[h][s] = fetch[h][s]
      <3>1. fetch[h] \in [Threads -> FetchState]
        BY <1>0
      <3> QED
        BY <1>0, <1>6, <3>1 DEF FetchState
    <2> QED
      BY <1>3, <1>6, <2>1 DEF InStep
  <1>7. ASSUME NEW u \in Uid, ScanHere(u) PROVE SyncInv(h)'
    <2>1. ASSUME NEW v \in Uid
          PROVE  rows'[v] = rows[v] \/ IsLocal(rows'[v])
      <3>1. rows[v] \in Row
        BY <1>0
      <3>2. IsLocal(UpsertAttached(rows[v], NoPort))
        BY <3>1
        DEF UpsertAttached, UpsertDevice, IsLocal, Exists, NoRow, Row, LocallyAttached
      <3>3. LocallyAttached(rows[v]) => IsLocal(MarkDisconnected(rows[v]))
        BY <3>1 DEF MarkDisconnected, LocallyAttached, IsLocal, Exists, Row
      <3> QED
        BY <1>0, <1>7, <3>2, <3>3 DEF ScanHere
    <2>2. UNCHANGED <<own, unsent, inbox, sub, sync, fetch>>
      BY <1>7 DEF ScanHere
    <2>3. sync'[h] = "synced" => \A v \in Uid : MirrorIsExact(h, v)'
      <3> SUFFICES ASSUME sync[h] = "synced", NEW v \in Uid PROVE MirrorIsExact(h, v)'
        BY <2>2
      <3>1. MirrorIsExact(h, v)
        BY DEF SyncInv
      <3> QED
        BY <1>2, <2>1, <2>2, <3>1 DEF MirrorIsExact
    <2> QED
      BY <1>1, <1>2, <2>2, <2>3, SyncKept DEF InStep
  <1>8. ASSUME NEW u \in Uid, PeerAttach(h, u) \/ PeerDetach(h, u) \/ PeerProbe(h, u)
        PROVE  SyncInv(h)'
    <2> PICK type \in EventTypes, row \in Row :
               /\ PeerWrite(h, u, type, row)
               /\ Event(type, u, row) \in Events
               /\ type = "identity" => IsAttached(own[h][u])
      BY <1>8, DaemonWrites
    <2> QED
      BY WriteSync
  <1>9. CASE PeerPublish(h)
    <2>1. /\ unsent[h] # <<>> /\ unsent'[h] = Tail(unsent[h]) /\ UNCHANGED <<own, rows, sub>>
      BY <1>0, <1>9 DEF PeerPublish
    <2>2. WrittenOnce(h)'
      BY <1>0, <2>1 DEF WrittenOnce
    <2>3. CASE sub[h] = "up"
      <3>1. inbox'[h] = Append(inbox[h], Head(unsent[h])) /\ UNCHANGED <<sync, fetch>>
        BY <1>0, <1>9, <2>3 DEF PeerPublish
      <3>2. Pending(h)' = Pending(h)
        BY <1>0, <2>1, <3>1, PublishedIsPending DEF Pending
      <3> QED
        BY <2>1, <2>2, <3>1, <3>2, SyncFrame DEF InStep
    <2>4. CASE sub[h] # "up"
      <3>1. sync'[h] = "lost" /\ fetch' = Overtaken(h)
        BY <1>0, <1>9, <2>4 DEF PeerPublish
      <3> QED
        BY <2>2, <3>1, OvertakenOutOfStep, SyncLost
    <2> QED
      BY <2>3, <2>4
  <1>10. CASE PeerStops(h)
    <2>1. WrittenOnce(h)'
      BY <1>0, <1>10 DEF PeerStops, WrittenOnce
    <2>2. sync'[h] = "lost" /\ fetch' = Overtaken(h)
      BY <1>0, <1>10 DEF PeerStops, Lose
    <2> QED
      BY <2>1, <2>2, OvertakenOutOfStep, SyncLost
  <1>11. CASE LinkDrops(h)
    <2>1. sync'[h] = "lost" /\ fetch' = Overtaken(h) /\ UNCHANGED <<own, unsent>>
      BY <1>0, <1>11 DEF LinkDrops, Lose
    <2> QED
      BY <1>1, <2>1, OvertakenOutOfStep, SyncLost
  <1>12. CASE PeerSeen(h)
    <2>1. sync'[h] = "lost" /\ UNCHANGED <<own, unsent>>
      BY <1>0, <1>12 DEF PeerSeen
    <2>2. ASSUME NEW t \in Threads PROVE ~InStep(h, t)'
      <3>1. fetch[h] \in [Threads -> FetchState]
            /\ \A s \in {"first", "resync"} : fetch[h][s].pc = "idle"
        BY <1>0, <1>12 DEF PeerSeen
      <3>2. fetch'[h] = [fetch[h] EXCEPT !["old"] = LeftBehind(h), !["force"] = Idle,
                                         !["first"] = [Idle EXCEPT !.pc = "asking"]]
        BY <1>0, <1>12 DEF PeerSeen
      <3>3. CASE t \in {"first", "resync", "force"}
        <4>1. fetch'[h][t].pc \in {"idle", "asking"}
          BY <3>1, <3>2, <3>3 DEF Threads, Idle, Fetch
        <4> QED
          BY <4>1 DEF InStep
      <3>4. CASE t = "old"
        <4>1. fetch'[h][t] = LeftBehind(h)
          BY <3>1, <3>2, <3>4 DEF Threads
        <4>2. ~LeftBehind(h).inStep
          BY <3>1 DEF LeftBehind, FetchState, Threads
        <4> QED
          BY <3>4, <4>1, <4>2 DEF InStep
      <3> QED
        BY <3>3, <3>4 DEF Threads
    <2> QED
      BY <1>1, <2>1, <2>2, SyncLost
  <1>13. CASE Handshake(h)
    <2>1. /\ UNCHANGED <<own, unsent, inbox, rows, fetch>> /\ sub[h] # "up" /\ sub'[h] = "up"
          /\ sync'[h] = IF inbox[h] = <<>> /\ sync[h] = "lost" THEN "intact" ELSE sync[h]
      BY <1>0, <1>13 DEF Handshake, Refilled
    <2>2. sync[h] = "lost"
      BY <2>1 DEF SyncInv, Intact
    <2>3. (WrittenOnce(h) /\ sub[h] = "up" /\ inbox[h] = <<>> => Intact(h))'
      BY EmptyInboxIsIntact, PTL
    <2>4. sync'[h] # "lost" => Intact(h)'
      BY <1>1, <2>1, <2>2, <2>3
    <2>5. \A t \in Threads : ~InStep(h, t)'
      BY <2>1, <2>2 DEF SyncInv, InStep
    <2> QED
      BY <1>1, <2>1, <2>2, <2>4, <2>5 DEF SyncInv
  <1>14. CASE ReceiveEvent(h)
    BY <1>14, ReceiveSync
  <1>15. CASE MonitorDisconnected(h)
    BY <1>4, <1>15 DEF MonitorDisconnected
  <1>16. CASE MonitorReconnected(h) \/ SelfCheck(h)
    <2>1. UNCHANGED <<own, rows, unsent, inbox, sub, sync>> /\ StartResync(h)
      BY <1>16 DEF MonitorReconnected, SelfCheck
    <2> QED
      BY <1>4, <1>6, <2>1 DEF StartResync, Threads
  <1>17. CASE BeginResync(h)
    <2>1. /\ UNCHANGED <<own, rows, unsent, inbox, sub, sync>>
          /\ \E t \in Threads, pc \in {"asking", "idle"} : fetch' = [fetch EXCEPT ![h][t].pc = pc]
      BY <1>17 DEF BeginResync, Goto, Threads
    <2> QED
      BY <1>6, <2>1
  <1>18. ASSUME NEW t \in Threads, FetchSteps(h, t) PROVE SyncInv(h)'
    <2>1. CASE PeerAnswers(h, t)
      BY <2>1, AnswerSync
    <2>2. CASE ApplyReply(h, t)
      BY <2>2, ReplySync
    <2>3. CASE RequestTimesOut(h, t)
      BY <1>6, <2>3 DEF RequestTimesOut, Goto
    <2>4. CASE CheckDropped(h, t)
      <3>1. UNCHANGED <<own, rows, unsent, inbox, sub, sync>>
            /\ \E pc \in {"failed", "marking"} : fetch' = [fetch EXCEPT ![h][t].pc = pc]
        BY <2>4 DEF CheckDropped, Goto
      <3> QED
        BY <1>6, <3>1
    <2>5. Idle.pc # "answered"
      BY DEF Idle, Fetch
    <2>6. CASE MarkReachable(h, t) \/ FetchFails(h, t)
      BY <1>5, <2>5, <2>6 DEF MarkReachable, FetchFails, SetFetch
    <2>7. CASE BeginForced(h, t)
      <3>0. UNCHANGED <<own, rows, unsent, inbox, sub, sync>>
        BY <2>7 DEF BeginForced
      <3>1. CASE SetFetch(h, t, Idle)
        BY <1>5, <2>5, <3>0, <3>1 DEF SetFetch
      <3>2. CASE Goto(h, t, "asking")
        BY <1>6, <3>0, <3>2 DEF Goto
      <3> QED
        BY <2>7, <3>1, <3>2 DEF BeginForced
    <2> QED
      BY <1>18, <2>1, <2>2, <2>3, <2>4, <2>6, <2>7 DEF FetchSteps
  <1>22. ASSUME NEW t \in Threads, RequestLost(h, t) PROVE SyncInv(h)'
    <2>1. Fetch("lost", NoSnapshot, FALSE, fetch[h][t].seen).pc # "answered"
      BY DEF Fetch
    <2> QED
      BY <1>5, <1>22, <2>1 DEF RequestLost, SetFetch
  <1>19. CASE Rescan
    BY <1>19, RescanSync
  <1>20. ASSUME NEW u \in Uid, NEW g \in Peer \cup {Local, Nowhere}, Plug(u, g)
         PROVE  SyncInv(h)'
    BY <1>4, <1>20 DEF Plug
  <1>21. CASE UNCHANGED vars
    BY <1>4, <1>21 DEF vars
  <1> QED
    BY <1>7, <1>8, <1>9, <1>10, <1>11, <1>12, <1>13, <1>14, <1>15, <1>16, <1>17, <1>18,
       <1>19, <1>20, <1>21, <1>22
    DEF Next, PeerDaemon, LinkSteps

\* "Subscribe before snapshot" works: with one peer, and any number of
\* boards, drops, lost requests, stops, rediscoveries (with the fetches they
\* leave behind) and rescans, the mirror of a settled
\* peer is exact whenever its last snapshot was in step with its stream.
THEOREM MirrorOfOnePeer ==
    ASSUME \A g, h \in Peer : g = h
    PROVE  Spec => []SyncedMirrorIsExact
  <1> DEFINE Sync == \A h \in Peer : SyncInv(h)
  <1>1. Init => Sync
    <2> SUFFICES ASSUME Init, NEW h \in Peer PROVE SyncInv(h)
      OBVIOUS
    <2>1. sync[h] = "lost" /\ unsent[h] = <<>> /\ \A t \in Threads : fetch[h][t] = Idle
      BY DEF Init
    <2> QED
      BY <2>1 DEF SyncInv, WrittenOnce, InStep, Idle, Fetch
  <1>2. Types /\ Types' /\ Sync /\ [Next]_vars => Sync'
    BY NextSync
  <1>3. Types /\ Sync => SyncedMirrorIsExact
    <2> SUFFICES ASSUME Types, Sync, NEW h \in Peer, NEW u \in Uid, sync[h] = "synced",
                        Settled(h), ~IsLocal(rows[u])
                 PROVE  Mirrors(rows[u], h, own[h][u])
      BY DEF SyncedMirrorIsExact
    <2>1. Pending(h) = <<>>
      BY DEF Settled, Pending
    <2>2. Silent(Pending(h), u)
      BY <2>1 DEF Silent
    <2>3. AlmostMirrors(rows[u], h, own[h][u])
      BY <2>2 DEF SyncInv, MirrorIsExact
    <2>4. IsAttached(own[h][u]) => own[h][u].probed
      BY DEF Settled, NeedsProbe
    <2> QED
      BY <2>3, <2>4 DEF AlmostMirrors, Mirrors, Held
  <1> QED
    BY <1>1, <1>2, <1>3, InitTypes, NextTypes, PTL DEF Spec
=============================================================================

------------------------------ MODULE DaemonProofs ------------------------------
(***************************************************************************)
(* TLAPS proofs about Daemon, for any set of boards, ports, peers, lock    *)
(* holders and rescan threads, and any value of the bounds.                *)
(***************************************************************************)
EXTENDS Daemon, TLAPS

-----------------------------------------------------------------------------
(***************************************************************************)
(* What the store's operators do to a row.                                 *)
(***************************************************************************)
\* Every row operator of the store returns a row.
LEMMA RowOperatorsType ==
    ASSUME NEW row \in Row
    PROVE  /\ \A h \in Peer \cup {Local}, p \in Port \cup {NoPort} :
                UpsertDevice(row, h, p) \in Row
           /\ \A a \in BOOLEAN, i \in Ident \cup {NoIdent} :
                ApplyProbeResult(row, a, i) \in Row
           /\ ApplyKnownBlank(row) \in Row
           /\ SetChipIdentity(row) \in Row
           /\ MarkDisconnected(row) \in Row
           /\ NoRow \in Row
  <1>1. NoRow \in Row
    BY DEF NoRow, Row, States
  <1>2. ASSUME NEW h \in Peer \cup {Local}, NEW p \in Port \cup {NoPort}
        PROVE  UpsertDevice(row, h, p) \in Row
    <2>1. CASE ~Exists(row)
      BY <1>1, <2>1 DEF UpsertDevice, Row, States, Attached
    <2>2. CASE Exists(row)
      BY <2>2 DEF UpsertDevice, Row, States, Attached
    <2> QED
      BY <2>1, <2>2
  <1>3. ASSUME NEW a \in BOOLEAN, NEW i \in Ident \cup {NoIdent}
        PROVE  ApplyProbeResult(row, a, i) \in Row
    BY DEF ApplyProbeResult, Row, States, Attached
  <1>4. /\ ApplyKnownBlank(row) \in Row
        /\ SetChipIdentity(row) \in Row
        /\ MarkDisconnected(row) \in Row
    BY DEF ApplyKnownBlank, SetChipIdentity, MarkDisconnected, Row, States, Attached
  <1> QED
    BY <1>1, <1>2, <1>3, <1>4

\* upsert_attached makes the row locally owned and attached, whatever it was
\* before.
LEMMA UpsertAttachedOwns ==
    ASSUME NEW row \in Row, NEW p
    PROVE  LocallyAttached(UpsertAttached(row, p))
  BY LocalIsNoPeer
  DEF Row, UpsertAttached, UpsertDevice, NoRow, States, Attached, Exists,
      LocallyAttached, IsLocal, IsAttached

\* A peer's claim leaves a row attached here alone, and every row it writes
\* exists and is not disconnected.
LEMMA PeerUpsert ==
    ASSUME NEW row \in Row, NEW h \in Peer, NEW p
    PROVE  /\ LocallyAttached(row) => UpsertDevice(row, h, p) = row
           /\ IsAttached(UpsertDevice(row, h, p))
  BY LocalIsNoPeer
  DEF Row, UpsertDevice, NoRow, States, Attached, Exists, LocallyAttached,
      IsLocal, IsAttached

-----------------------------------------------------------------------------
\* The initial state is well typed.
LEMMA InitType == Init => TypeOK
  <1> SUFFICES ASSUME Init PROVE TypeOK
    OBVIOUS
  <1>1. AllIdle \in [Runner -> RunnerState]
    BY UidNonempty DEF AllIdle, Idle, RunnerState, Pcs
  <1>2. NoRow \in Row
    BY DEF NoRow, Row, States
  <1> QED
    BY <1>1, <1>2, FirstVersionIsOne, BoundsAreNat
    DEF Init, TypeOK, EmptyTable, Entry, Unlocked

\* Forgetting expired deadlines keeps a running cycle well typed.
LEMMA ForgetExpiredType ==
    ASSUME NEW state \in RunnerState, NEW uids
    PROVE  [state EXCEPT !.expired = @ \ uids] \in RunnerState
  BY DEF RunnerState

\* Dropping locks and renewing flash deadlines keep the types.
LEMMA ReleaseLocksType ==
    ASSUME TypeOK, NEW uids \in SUBSET Uid, ReleaseLocks(uids)
    PROVE  /\ locks' \in [Uid -> Entry]
           /\ flashPending' \in [Uid -> {"none", "waiting", "due"}]
           /\ runner' \in [Runner -> RunnerState]
  <1>1. locks' \in [Uid -> Entry]
    BY DEF TypeOK, ReleaseLocks, Drop, Entry
  <1>2. flashPending' \in [Uid -> {"none", "waiting", "due"}]
    BY DEF TypeOK, ReleaseLocks
  <1>3. runner' \in [Runner -> RunnerState]
    BY ForgetExpiredType DEF TypeOK, ReleaseLocks
  <1> QED
    BY <1>1, <1>2, <1>3

\* The locked section of run_once keeps the types.
LEMMA DiffWritesType ==
    ASSUME TypeOK, NEW r \in Runner, NEW blank \in SUBSET Uid,
           NEW next \in RunnerState, DiffWrites(r, blank, next)
    PROVE  TypeOK'
  <1>1. Granted(r) \subseteq Uid /\ Gone(r) \subseteq Uid
    BY DEF Granted, Gone, Current, PreviouslyAttached
  <1>2. rows' \in [Uid -> Row]
    <2> SUFFICES ASSUME NEW u \in Uid PROVE DiffedRow(r, blank, u) \in Row
      BY DEF DiffWrites, ClaimsAfter, LocksAfter
    <2>1. rows[u] \in Row /\ runner[r].seen[u] \in Port \cup {NoPort}
      BY DEF TypeOK, RunnerState
    <2>2. UpsertAttached(rows[u], runner[r].seen[u]) \in Row
      BY <2>1, RowOperatorsType DEF UpsertAttached
    <2>3. MarkDisconnected(rows[u]) \in Row
      BY <2>1, RowOperatorsType
    <2> DEFINE row == CASE u \in Granted(r) ->
                             UpsertAttached(rows[u], runner[r].seen[u])
                        [] u \in Gone(r) -> MarkDisconnected(rows[u])
                        [] OTHER -> rows[u]
    <2>4. row \in Row
      BY <2>1, <2>2, <2>3
    <2>5. ApplyKnownBlank(row) \in Row
      BY <2>4, RowOperatorsType
    <2> HIDE DEF row
    <2>6. DiffedRow(r, blank, u) = IF u \in blank THEN ApplyKnownBlank(row) ELSE row
      BY DEF DiffedRow, row
    <2> QED
      BY <2>4, <2>5, <2>6
  <1>3. locks' \in [Uid -> Entry]
    BY DEF TypeOK, DiffWrites, ClaimsAfter, LocksAfter, Drop, Entry
  <1>4. flashPending' \in [Uid -> {"none", "waiting", "due"}]
    BY DEF TypeOK, DiffWrites, ClaimsAfter, LocksAfter
  <1>5. runner' \in [Runner -> RunnerState]
    BY ForgetExpiredType DEF TypeOK, DiffWrites, ClaimsAfter, LocksAfter
  <1> QED
    BY <1>1, <1>2, <1>3, <1>4, <1>5 DEF TypeOK, DiffWrites, ClaimsAfter, LocksAfter, bus, bounds

\* Process exit resets the volatile state to its initial, well-typed value.
LEMMA ExitType ==
    ASSUME TypeOK, Exit
    PROVE  /\ locks' \in [Uid -> Entry]
           /\ claims' = {}
           /\ flashPending' \in [Uid -> {"none", "waiting", "due"}]
           /\ runner' \in [Runner -> RunnerState]
  BY UidNonempty
  DEF Exit, EmptyTable, Entry, Unlocked, AllIdle, Idle, RunnerState, Pcs

-----------------------------------------------------------------------------
(***************************************************************************)
(* Type correctness.  Most steps of a cycle only write the runner record.  *)
(***************************************************************************)
\* A step that only moves one runner, to a well-typed state, keeps TypeOK.
LEMMA RunnerOnlyType ==
    ASSUME TypeOK, NEW r \in Runner, NEW state \in RunnerState,
           runner' = [runner EXCEPT ![r] = state],
           UNCHANGED <<plugged, firmware, up, rows, reach, locks, claims, rival,
                       flashPending, feed, plugs, deaths, peerEvents>>
    PROVE  TypeOK'
  BY DEF TypeOK

\* A thread that runs nothing is in a legal state.
LEMMA IdleType == Idle \in RunnerState
  BY UidNonempty DEF Idle, RunnerState, Pcs

\* Every step of run_once keeps TypeOK.
LEMMA StepType ==
    ASSUME TypeOK, NEW r \in Runner, Step(r)
    PROVE  TypeOK'
  <1> USE DEF bus, store, volatile, bounds
  <1>0. runner[r] \in RunnerState
    BY DEF TypeOK
  <1>1. CASE RescanPurge(r)
    <2> DEFINE state == [Idle EXCEPT !.pc = "purged",
                           !.fire = {"removed"} \X StaleUnlocked]
    <2>1. state \in RunnerState
      <3>1. {"removed"} \X StaleUnlocked \subseteq Event
        BY DEF StaleUnlocked, CandidatesForPurge, Event, EventTypes
      <3> QED
        BY <3>1, IdleType DEF RunnerState, Pcs
    <2>2. rows' \in [Uid -> Row]
      BY <1>1, RowOperatorsType DEF RescanPurge, StaleUnlocked, Purge, TypeOK
    <2>3. reach' \in [Peer -> {"up", "down", "absent"}]
      BY <1>1 DEF RescanPurge, PurgePeers, TypeOK
    <2> HIDE DEF state
    <2>4. runner' = [runner EXCEPT ![r] = state]
      BY <1>1 DEF RescanPurge, state
    <2> QED
      BY <1>1, <2>1, <2>2, <2>3, <2>4 DEF RescanPurge, TypeOK
  <1>2. CASE Scan(r)
    <2> DEFINE state == [Idle EXCEPT !.pc = "scanned", !.seen = plugged,
                           !.expired = {u \in Uid : flashPending[u] = "due"}]
    <2>1. state \in RunnerState
      BY IdleType DEF RunnerState, Pcs, TypeOK
    <2> QED
      BY <1>2, <2>1, RunnerOnlyType DEF Scan
  <1>3. CASE Diff(r)
    <2>1. Granted(r) \subseteq Uid /\ Gone(r) \subseteq Uid
          /\ TimedOut(r) \subseteq Uid
      BY <1>0 DEF Granted, Gone, TimedOut, Current, PreviouslyAttached, RunnerState
    <2> DEFINE next == [runner[r] EXCEPT
            !.pc = "firing",
            !.expired = {},
            !.fire = DiffEvents(r),
            !.todo = Granted(r) \cup (PreviouslyAttached \cap Current(r))]
    <2>2. next \in RunnerState
      <3>1. next.fire \subseteq Event
        BY <1>0, <2>1 DEF DiffEvents, RunnerState, Event, EventTypes
      <3>2. next.todo \subseteq Uid
        BY <1>0, <2>1 DEF RunnerState, Current
      <3> QED
        BY <1>0, <3>1, <3>2 DEF RunnerState, Pcs
    <2> HIDE DEF next
    <2>3. DiffWrites(r, TimedOut(r), next)
      BY <1>3 DEF Diff, next
    <2> QED
      BY <2>1, <2>2, <2>3, DiffWritesType
  <1>4. ASSUME NEW done \in SUBSET Uid, DiffRaises(r, done)
        PROVE  TypeOK'
    <2>1. [runner[r] EXCEPT !.pc = "raised"] \in RunnerState
      BY <1>0 DEF RunnerState, Pcs
    <2> QED
      BY <1>4, <2>1, DiffWritesType DEF DiffRaises
  <1>5. ASSUME NEW e \in Event, FireEvent(r, e)
        PROVE  TypeOK'
    <2>1. [runner[r] EXCEPT !.fire = @ \ {e}] \in RunnerState
      BY <1>0 DEF RunnerState
    <2>2. feed' \in [Uid -> {"unknown", "present", "gone"}]
      BY <1>5 DEF FireEvent, Event, TypeOK
    <2>3. runner' = [runner EXCEPT ![r] = [runner[r] EXCEPT !.fire = @ \ {e}]]
      BY <1>5 DEF FireEvent, TypeOK
    <2> QED
      BY <1>5, <2>1, <2>2, <2>3 DEF FireEvent, TypeOK
  <1>6. CASE FireDone(r)
    <2>1. [runner[r] EXCEPT !.pc = "choosing"] \in RunnerState
      BY <1>0 DEF RunnerState, Pcs
    <2>2. runner' = [runner EXCEPT ![r] = [runner[r] EXCEPT !.pc = "choosing"]]
      BY <1>6 DEF FireDone, TypeOK
    <2> QED
      BY <1>6, <2>1, <2>2, RunnerOnlyType DEF FireDone
  <1>7. ASSUME NEW u \in Uid,
               EligibilityRaises(r, u) \/ StartProbe(r, u) \/ SkipProbe(r, u)
        PROVE  TypeOK'
    <2>1. CASE EligibilityRaises(r, u)
      <3> DEFINE state == [runner[r] EXCEPT !.pc = "raised"]
      <3>1. state \in RunnerState
        BY <1>0 DEF RunnerState, Pcs
      <3>2. runner' = [runner EXCEPT ![r] = state]
        BY <2>1 DEF EligibilityRaises, TypeOK
      <3> QED
        BY <2>1, <3>1, <3>2, RunnerOnlyType DEF EligibilityRaises
    <2>2. CASE StartProbe(r, u)
      <3> DEFINE state == [runner[r] EXCEPT !.pc = "probing", !.todo = @ \ {u}, !.uid = u]
      <3>1. state \in RunnerState
        BY <1>0 DEF RunnerState, Pcs
      <3>2. runner' = [runner EXCEPT ![r] = state]
        BY <2>2 DEF StartProbe, TypeOK
      <3> QED
        BY <2>2, <3>1, <3>2, RunnerOnlyType DEF StartProbe
    <2>3. CASE SkipProbe(r, u)
      <3> DEFINE state == [runner[r] EXCEPT !.todo = @ \ {u}]
      <3>1. state \in RunnerState
        BY <1>0 DEF RunnerState
      <3>2. runner' = [runner EXCEPT ![r] = state]
        BY <2>3 DEF SkipProbe, TypeOK
      <3> QED
        BY <2>3, <3>1, <3>2, RunnerOnlyType DEF SkipProbe
    <2> QED
      BY <1>7, <2>1, <2>2, <2>3
  <1>8. CASE CycleDone(r)
    BY <1>8, IdleType, RunnerOnlyType DEF CycleDone
  <1>9. ASSUME NEW a \in BOOLEAN, NEW i \in Ident \cup {NoIdent}, ProbeReturns(r, a, i)
        PROVE  TypeOK'
    <2> DEFINE state == [runner[r] EXCEPT !.answered = a, !.ident = i,
                           !.pc = IF i = NoIdent THEN "silent" ELSE "applying"]
    <2>1. state \in RunnerState
      BY <1>0 DEF RunnerState, Pcs
    <2>2. runner' = [runner EXCEPT ![r] = state]
      BY <1>9 DEF ProbeReturns, TypeOK
    <2> QED
      BY <1>9, <2>1, <2>2, RunnerOnlyType DEF ProbeReturns
  <1>10. ASSUME NEW read \in BOOLEAN, SwdFallback(r, read)
         PROVE  TypeOK'
    <2> DEFINE state == [runner[r] EXCEPT !.chip = read, !.pc = "applying"]
    <2>1. state \in RunnerState
      BY <1>0 DEF RunnerState, Pcs
    <2>2. runner' = [runner EXCEPT ![r] = state]
      BY <1>10 DEF SwdFallback, TypeOK
    <2> QED
      BY <1>10, <2>1, <2>2, RunnerOnlyType DEF SwdFallback
  <1>11. CASE Apply(r)
    <2> DEFINE u == runner[r].uid
               state == [runner[r] EXCEPT !.pc = "firing", !.fire = {<<"identity", u>>},
                           !.answered = FALSE, !.ident = NoIdent, !.chip = FALSE]
    <2>1. u \in Uid /\ rows[u] \in Row
      BY <1>0 DEF RunnerState, TypeOK
    <2>2. ProbedRow(r) \in Row
      <3>1. ApplyKnownBlank(rows[u]) \in Row
            /\ ApplyProbeResult(rows[u], runner[r].answered, runner[r].ident) \in Row
        BY <1>0, <2>1, RowOperatorsType DEF RunnerState
      <3> QED
        BY <3>1, RowOperatorsType DEF ProbedRow
    <2>3. state \in RunnerState
      <3>1. {<<"identity", u>>} \in SUBSET Event
        BY <2>1 DEF Event, EventTypes
      <3> QED
        BY <1>0, <2>1, <3>1 DEF RunnerState, Pcs
    <2>4. runner' = [runner EXCEPT ![r] = state]
      BY <1>11 DEF Apply, TypeOK
    <2>5. rows' \in [Uid -> Row]
      BY <1>11, <2>1, <2>2 DEF Apply, TypeOK
    <2>6. flashPending' \in [Uid -> {"none", "waiting", "due"}]
      BY <1>11, <2>1 DEF Apply, TypeOK
    <2>7. runner' \in [Runner -> RunnerState]
      BY <2>3, <2>4 DEF TypeOK
    <2> QED
      BY <1>11, <2>5, <2>6, <2>7 DEF Apply, TypeOK
  <1>12. CASE ApplyRaises(r)
    <2>1. [runner[r] EXCEPT !.pc = "raised"] \in RunnerState
      BY <1>0 DEF RunnerState, Pcs
    <2>2. runner' = [runner EXCEPT ![r] = [runner[r] EXCEPT !.pc = "raised"]]
      BY <1>12 DEF ApplyRaises, TypeOK
    <2> QED
      BY <1>12, <2>1, <2>2, RunnerOnlyType DEF ApplyRaises
  <1>13. CASE Unwind(r)
    <2>1. CASE Exit /\ UNCHANGED bounds
      BY <2>1, ExitType DEF Exit, TypeOK
    <2>2. CASE r \in Rescanners /\ runner' = [runner EXCEPT ![r] = Idle]
               /\ UNCHANGED <<bus, up, store, volatile, rival, feed, bounds>>
      BY <2>2, IdleType, RunnerOnlyType
    <2> QED
      BY <1>13, <2>1, <2>2 DEF Unwind
  <1> QED
    BY <1>1, <1>2, <1>3, <1>4, <1>5, <1>6, <1>7, <1>8, <1>9, <1>10, <1>11,
       <1>12, <1>13 DEF Step

\* Every step keeps TypeOK.
LEMMA NextType == TypeOK /\ [Next]_vars => TypeOK'
  <1> SUFFICES ASSUME TypeOK, [Next]_vars PROVE TypeOK'
    OBVIOUS
  <1> USE DEF bus, store, volatile, bounds
  <1>1. ASSUME NEW u \in Uid, NEW p \in Port, Plug(u, p) PROVE TypeOK'
    BY <1>1, BoundsAreNat DEF Plug, TypeOK
  <1>2. ASSUME NEW u \in Uid, Unplug(u) \/ DeadlinePasses(u) PROVE TypeOK'
    BY <1>2 DEF Unplug, DeadlinePasses, TypeOK
  <1>3. ASSUME NEW u \in Uid, NEW v \in Version, Flash(u, v) PROVE TypeOK'
    BY <1>3 DEF Flash, TypeOK
  <1>4. ASSUME NEW u \in Uid, RivalClaims(u) \/ RivalReleases(u) PROVE TypeOK'
    BY <1>4 DEF RivalClaims, RivalReleases, TypeOK
  <1>5. CASE Die
    <2>1. Exit
      BY <1>5 DEF Die
    <2>2. deaths' \in 0..MaxDeaths
      BY <1>5, BoundsAreNat DEF Die, TypeOK
    <2> QED
      BY <1>5, <2>1, <2>2, ExitType DEF Die, Exit, TypeOK
  <1>6. CASE Restart
    BY <1>6 DEF Restart, TypeOK
  <1>7. ASSUME NEW c \in Holder, NEW u \in Uid, NEW k \in Kind, OpLock(c, u, k)
        PROVE  TypeOK'
    <2>1. [kind |-> k, holder |-> c] \in Entry
      BY DEF Entry
    <2> QED
      BY <1>7, <2>1 DEF OpLock, Acquire, TypeOK
  <1>8. ASSUME NEW c \in Holder, NEW u \in Uid, OpRelease(c, u) PROVE TypeOK'
    BY <1>8, ReleaseLocksType DEF OpRelease, TypeOK
  <1>9. ASSUME NEW c \in Holder, Sweep(c) PROVE TypeOK'
    <2>1. DeadHeld(locks, {c}) \in SUBSET Uid
      BY DEF DeadHeld, TypeOK
    <2> QED
      BY <1>9, <2>1, ReleaseLocksType DEF Sweep, TypeOK
  <1>10. ASSUME PeerEvent, rows' \in [Uid -> Row] PROVE TypeOK'
    BY <1>10, BoundsAreNat DEF PeerEvent, TypeOK
  <1>11. ASSUME NEW h \in Peer, NEW u \in Uid, NEW p \in Port, PeerAttach(h, u, p)
         PROVE  TypeOK'
    <2>1. UpsertDevice(rows[u], h, p) \in Row
      BY RowOperatorsType DEF TypeOK
    <2> QED
      BY <1>10, <1>11, <2>1 DEF PeerAttach, TypeOK
  <1>12. ASSUME NEW h \in Peer, NEW u \in Uid, PeerDetach(h, u) PROVE TypeOK'
    <2>1. MarkDisconnected(rows[u]) \in Row
      BY RowOperatorsType DEF TypeOK
    <2> QED
      BY <1>10, <1>12, <2>1 DEF PeerDetach, TypeOK
  <1>13. ASSUME NEW h \in Peer, NEW u \in Uid,
                NEW st \in Attached \ {"attached_unprobed"}, PeerIdentity(h, u, st)
         PROVE  TypeOK'
    <2>1. <<u, FirstVersion>> \in Ident
      BY FirstVersionIsOne, IdentIsBoardAndVersion
    <2>2. /\ ApplyProbeResult(rows[u], TRUE, <<u, FirstVersion>>) \in Row
          /\ ApplyProbeResult(rows[u], FALSE, NoIdent) \in Row
          /\ ApplyKnownBlank(rows[u]) \in Row
      BY <2>1, RowOperatorsType DEF TypeOK
    <2>3. PeerProbed(rows[u], u, st) \in Row
      BY <2>2 DEF PeerProbed, Attached
    <2> QED
      BY <1>10, <1>13, <2>3 DEF PeerIdentity, TypeOK
  <1>14. ASSUME NEW h \in Peer, PeerSeen(h) \/ PeerLost(h) PROVE TypeOK'
    BY <1>14 DEF PeerSeen, PeerLost, TypeOK
  <1>15. ASSUME NEW r \in Runner, Step(r) PROVE TypeOK'
    BY <1>15, StepType
  <1>16. CASE UNCHANGED vars
    BY <1>16 DEF vars, TypeOK
  <1> QED
    BY <1>1, <1>2, <1>3, <1>4, <1>5, <1>6, <1>7, <1>8, <1>9, <1>11, <1>12,
       <1>13, <1>14, <1>15, <1>16
    DEF Next, Environment, Clients, Peers

\* Every reachable state of the service is well typed.
THEOREM TypeCorrect == Spec => []TypeOK
  BY InitType, NextType, PTL DEF Spec

-----------------------------------------------------------------------------
(***************************************************************************)
(* Ownership.  With TypeOK, "every claim is of an attached local row" and  *)
(* "every lock is on a live row" are each inductive; what has to be shown  *)
(* is that the diff treats every board in exactly one way.                 *)
(***************************************************************************)
\* The rows after the locked section of run_once: a granted board is owned,
\* a board attached before and still there is untouched, one gone missing
\* stays ours, and any row that was live and is not gone missing stays live.
LEMMA DiffedRows ==
    ASSUME TypeOK, NEW r \in Runner, NEW blank \in SUBSET (Uid \ Current(r)),
           NEW u \in Uid
    PROVE  /\ u \in Granted(r) => LocallyAttached(DiffedRow(r, blank, u))
           /\ u \in PreviouslyAttached \cap Current(r) =>
                DiffedRow(r, blank, u) = rows[u]
           /\ u \in PreviouslyAttached => IsLocal(DiffedRow(r, blank, u))
           /\ LiveRow(rows[u]) /\ u \notin Gone(r) =>
                LiveRow(DiffedRow(r, blank, u))
  <1>1. rows[u] \in Row
    BY DEF TypeOK
  <1>2. CASE u \in Granted(r)
    <2>1. u \notin blank /\ u \notin Gone(r) /\ u \notin PreviouslyAttached
      BY <1>2 DEF Granted, Gone
    <2>2. DiffedRow(r, blank, u) = UpsertAttached(rows[u], runner[r].seen[u])
      BY <1>2, <2>1 DEF DiffedRow
    <2>3. LocallyAttached(DiffedRow(r, blank, u))
      BY <1>1, <2>2, UpsertAttachedOwns
    <2>4. LiveRow(DiffedRow(r, blank, u))
      BY <2>3 DEF LiveRow, LocallyAttached, IsLocal, IsAttached, Attached
    <2> QED
      BY <2>1, <2>3, <2>4
  <1>3. CASE u \in Gone(r)
    <2>1. u \notin Current(r) /\ u \notin Granted(r) /\ LocallyAttached(rows[u])
      BY <1>3 DEF Granted, Gone, PreviouslyAttached
    <2>2. DiffedRow(r, blank, u) \in {MarkDisconnected(rows[u]),
                                      ApplyKnownBlank(MarkDisconnected(rows[u]))}
      BY <1>3, <2>1 DEF DiffedRow
    <2>3. IsLocal(DiffedRow(r, blank, u))
      BY <1>1, <2>1, <2>2
      DEF Row, LocallyAttached, IsLocal, Exists, MarkDisconnected, ApplyKnownBlank
    <2> QED
      BY <1>3, <2>1, <2>3
  <1>4. CASE u \notin Granted(r) /\ u \notin Gone(r)
    <2>1. DiffedRow(r, blank, u) = IF u \in blank THEN ApplyKnownBlank(rows[u])
                                   ELSE rows[u]
      BY <1>4 DEF DiffedRow
    <2>2. u \in PreviouslyAttached => u \in Current(r)
      BY <1>4 DEF Gone
    <2>3. LiveRow(ApplyKnownBlank(rows[u]))
      BY <1>1 DEF Row, LiveRow, ApplyKnownBlank, Exists, IsLocal
    <2>4. u \in PreviouslyAttached => IsLocal(rows[u])
      BY DEF PreviouslyAttached, LocallyAttached
    <2> QED
      BY <1>4, <2>1, <2>2, <2>3, <2>4
  <1> QED
    BY <1>2, <1>3, <1>4

\* No step that keeps every attached local row as it is, and adds no claim,
\* can break ClaimedIsOwned; likewise for live rows and locks.
LEMMA OwnershipFrame ==
    ASSUME ClaimedIsOwned, LockOnlyOnLiveRow, TypeOK,
           claims' \subseteq claims,
           \A u \in Uid : LocallyAttached(rows[u]) => LocallyAttached(rows'[u]),
           \A u \in Uid : Locked(locks', u) => Locked(locks, u),
           \A u \in Uid : Locked(locks, u) /\ LiveRow(rows[u]) => LiveRow(rows'[u])
    PROVE  ClaimedIsOwned' /\ LockOnlyOnLiveRow'
  BY DEF ClaimedIsOwned, LockOnlyOnLiveRow, TypeOK

\* The locked section of run_once keeps both invariants.
LEMMA DiffWritesOwnership ==
    ASSUME TypeOK, ClaimedIsOwned, LockOnlyOnLiveRow, NEW r \in Runner,
           NEW blank \in SUBSET (Uid \ Current(r)), NEW next,
           DiffWrites(r, blank, next)
    PROVE  ClaimedIsOwned' /\ LockOnlyOnLiveRow'
  <1>1. \A u \in Uid : rows'[u] = DiffedRow(r, blank, u)
    BY DEF DiffWrites, ClaimsAfter, LocksAfter
  <1>2. ClaimedIsOwned'
    <2> SUFFICES ASSUME NEW u \in claims' PROVE LocallyAttached(rows'[u])
      BY DEF ClaimedIsOwned
    <2>1. u \in Uid /\ u \notin Gone(r) /\ (u \in claims \/ u \in Granted(r))
      BY DEF DiffWrites, ClaimsAfter, LocksAfter, TypeOK, Granted, Current
    <2>2. CASE u \in Granted(r)
      BY <1>1, <2>1, <2>2, DiffedRows
    <2>3. CASE u \in claims
      <3>1. LocallyAttached(rows[u])
        BY <2>3 DEF ClaimedIsOwned
      <3>2. u \in PreviouslyAttached \cap Current(r)
        BY <2>1, <3>1 DEF PreviouslyAttached, Gone
      <3> QED
        BY <1>1, <2>1, <3>1, <3>2, DiffedRows
    <2> QED
      BY <2>1, <2>2, <2>3
  <1>3. LockOnlyOnLiveRow'
    <2> SUFFICES ASSUME NEW u \in Uid, Locked(locks', u) PROVE LiveRow(rows'[u])
      BY DEF LockOnlyOnLiveRow
    <2>1. u \notin Gone(r) /\ Locked(locks, u)
      BY DEF DiffWrites, ClaimsAfter, LocksAfter, Drop, Locked, Unlocked, TypeOK
    <2>2. LiveRow(rows[u])
      BY <2>1 DEF LockOnlyOnLiveRow
    <2> QED
      BY <1>1, <2>1, <2>2, DiffedRows
  <1> QED
    BY <1>2, <1>3

\* Every step of run_once keeps both invariants.
LEMMA StepOwnership ==
    ASSUME TypeOK, ClaimedIsOwned, LockOnlyOnLiveRow, NEW r \in Runner, Step(r)
    PROVE  ClaimedIsOwned' /\ LockOnlyOnLiveRow'
  <1> USE DEF bus, store, volatile, bounds
  <1>0. runner[r] \in RunnerState
    BY DEF TypeOK
  <1>1. CASE RescanPurge(r)
    <2>1. ASSUME NEW u \in Uid, LocallyAttached(rows[u]) \/ Locked(locks, u)
          PROVE  rows'[u] = rows[u]
      <3>1. LocallyAttached(rows[u]) => rows[u].state # "disconnected"
                                        /\ ~OfUnreachablePeer(rows[u], reach)
        BY DEF LocallyAttached, IsLocal, IsAttached, Attached, OfUnreachablePeer
      <3> QED
        BY <1>1, <2>1, <3>1 DEF RescanPurge, StaleUnlocked, Purge
    <2> QED
      BY <1>1, <2>1, OwnershipFrame DEF RescanPurge, StaleUnlocked
  <1>2. CASE Diff(r)
    <2>1. TimedOut(r) \in SUBSET (Uid \ Current(r))
      BY <1>0 DEF TimedOut, RunnerState
    <2> QED
      BY <1>2, <2>1, DiffWritesOwnership DEF Diff
  <1>3. ASSUME NEW done \in SUBSET Uid, DiffRaises(r, done)
        PROVE  ClaimedIsOwned' /\ LockOnlyOnLiveRow'
    <2>1. done \in SUBSET (Uid \ Current(r))
      BY <1>0, <1>3 DEF DiffRaises, TimedOut, RunnerState
    <2> QED
      BY <1>3, <2>1, DiffWritesOwnership DEF DiffRaises
  <1>4. CASE Apply(r)
    <2> DEFINE v == runner[r].uid
    <2>1. v \in Uid /\ rows[v] \in Row
      BY <1>0 DEF RunnerState, TypeOK
    <2>2. IsAttached(ProbedRow(r)) /\ ProbedRow(r).host = rows[v].host
      BY <2>1 DEF ProbedRow, ApplyKnownBlank, ApplyProbeResult, SetChipIdentity,
                  IsAttached, Attached, Row
    <2>3. ASSUME NEW u \in Uid
          PROVE  /\ LocallyAttached(rows[u]) => LocallyAttached(rows'[u])
                 /\ LiveRow(rows[u]) => LiveRow(rows'[u])
      BY <1>4, <2>1, <2>2
      DEF Apply, TypeOK, LocallyAttached, LiveRow, IsLocal, Exists, IsAttached, Attached
    <2> QED
      BY <1>4, <2>3, OwnershipFrame DEF Apply
  <1>5. CASE Unwind(r)
    <2>1. CASE Exit
      BY <2>1 DEF Exit, EmptyTable, Locked, Unlocked, ClaimedIsOwned, LockOnlyOnLiveRow
    <2>2. CASE UNCHANGED <<rows, locks, claims>>
      BY <2>2 DEF ClaimedIsOwned, LockOnlyOnLiveRow
    <2> QED
      BY <1>5, <2>1, <2>2 DEF Unwind
  <1>6. CASE UNCHANGED <<rows, locks, claims>>
    BY <1>6 DEF ClaimedIsOwned, LockOnlyOnLiveRow
  <1> QED
    BY <1>1, <1>2, <1>3, <1>4, <1>5, <1>6
    DEF Step, Scan, FireEvent, FireDone, EligibilityRaises, StartProbe, SkipProbe,
        CycleDone, ProbeReturns, SwdFallback, ApplyRaises

\* Every step keeps both invariants.
LEMMA NextOwnership ==
    TypeOK /\ ClaimedIsOwned /\ LockOnlyOnLiveRow /\ [Next]_vars
        => ClaimedIsOwned' /\ LockOnlyOnLiveRow'
  <1> SUFFICES ASSUME TypeOK, ClaimedIsOwned, LockOnlyOnLiveRow, [Next]_vars
               PROVE  ClaimedIsOwned' /\ LockOnlyOnLiveRow'
    OBVIOUS
  <1> USE DEF bus, store, volatile, bounds
  <1>1. CASE UNCHANGED <<rows, locks, claims>>
    BY <1>1 DEF ClaimedIsOwned, LockOnlyOnLiveRow
  <1>2. CASE Die
    BY <1>2
    DEF Die, Exit, EmptyTable, Locked, Unlocked, ClaimedIsOwned, LockOnlyOnLiveRow
  <1>3. ASSUME NEW c \in Holder, NEW u \in Uid, NEW k \in Kind, OpLock(c, u, k)
        PROVE  ClaimedIsOwned' /\ LockOnlyOnLiveRow'
    BY <1>3 DEF OpLock, Acquire, Locked, TypeOK, ClaimedIsOwned, LockOnlyOnLiveRow
  <1>4. ASSUME NEW uids, ReleaseLocks(uids), UNCHANGED <<rows, claims>>
        PROVE  ClaimedIsOwned' /\ LockOnlyOnLiveRow'
    BY <1>4
    DEF ReleaseLocks, Drop, Locked, Unlocked, TypeOK, ClaimedIsOwned, LockOnlyOnLiveRow
  <1>5. ASSUME NEW h \in Peer, NEW u \in Uid, NEW p \in Port, PeerAttach(h, u, p)
        PROVE  ClaimedIsOwned' /\ LockOnlyOnLiveRow'
    <2>1. /\ LocallyAttached(rows[u]) => UpsertDevice(rows[u], h, p) = rows[u]
          /\ LiveRow(UpsertDevice(rows[u], h, p))
      BY PeerUpsert DEF TypeOK, IsAttached, Attached, LiveRow, Exists, IsLocal
    <2> QED
      BY <1>5, <2>1, OwnershipFrame DEF PeerAttach, PeerEvent, TypeOK
  <1>6. ASSUME NEW h \in Peer, NEW u \in Uid, AttributedTo(u, h),
               NEW row \in Row, row.host = h, Exists(row),
               rows' = [rows EXCEPT ![u] = row], UNCHANGED <<locks, claims>>
        PROVE  ClaimedIsOwned' /\ LockOnlyOnLiveRow'
    <2>1. ~LocallyAttached(rows[u]) /\ LiveRow(row)
      BY <1>6, LocalIsNoPeer DEF AttributedTo, LocallyAttached, IsLocal, LiveRow
    <2> QED
      BY <1>6, <2>1, OwnershipFrame DEF TypeOK
  <1>7. ASSUME NEW h \in Peer, NEW u \in Uid, PeerDetach(h, u)
        PROVE  ClaimedIsOwned' /\ LockOnlyOnLiveRow'
    <2> DEFINE row == MarkDisconnected(rows[u])
    <2>1. rows[u] \in Row /\ rows[u].host = h
      BY <1>7 DEF PeerDetach, AttributedTo, TypeOK
    <2>2. row \in Row
      BY <2>1, RowOperatorsType
    <2>3. row.host = h /\ Exists(row)
      BY <2>1 DEF MarkDisconnected, Exists, Row
    <2> QED
      BY <1>6, <1>7, <2>2, <2>3 DEF PeerDetach, PeerEvent
  <1>8. ASSUME NEW h \in Peer, NEW u \in Uid,
               NEW st \in Attached \ {"attached_unprobed"}, PeerIdentity(h, u, st)
        PROVE  ClaimedIsOwned' /\ LockOnlyOnLiveRow'
    <2> DEFINE row == PeerProbed(rows[u], u, st)
    <2>1. rows[u] \in Row /\ rows[u].host = h
      BY <1>8 DEF PeerIdentity, AttributedTo, TypeOK
    <2>2. rows' \in [Uid -> Row] /\ rows' = [rows EXCEPT ![u] = row]
      BY <1>8, NextType DEF Next, Peers, PeerIdentity, TypeOK
    <2>3. row.host = h /\ Exists(row)
      BY <2>1
      DEF PeerProbed, ApplyProbeResult, ApplyKnownBlank, Attached, Exists, Row
    <2> HIDE DEF row
    <2>4. row \in Row
      BY <2>2 DEF TypeOK
    <2> QED
      BY <1>6, <1>8, <2>2, <2>3, <2>4 DEF PeerIdentity, PeerEvent
  <1>9. ASSUME NEW r \in Runner, Step(r) PROVE ClaimedIsOwned' /\ LockOnlyOnLiveRow'
    BY <1>9, StepOwnership
  <1> QED
    BY <1>1, <1>2, <1>3, <1>4, <1>5, <1>7, <1>8, <1>9
    DEF Next, Environment, Clients, Peers, vars, Plug, Unplug, DeadlinePasses, Flash,
        RivalClaims, RivalReleases, Restart, OpRelease, Sweep, PeerSeen, PeerLost

\* In every reachable state, for any number of boards, threads, peers and
\* clients, a held flock belongs to an attached local row and a lock to a
\* live row.
THEOREM Ownership == Spec => [](ClaimedIsOwned /\ LockOnlyOnLiveRow)
  <1>1. Init => ClaimedIsOwned /\ LockOnlyOnLiveRow
    BY DEF Init, ClaimedIsOwned, LockOnlyOnLiveRow, EmptyTable, Locked, Unlocked
  <1> QED
    BY <1>1, TypeCorrect, NextOwnership, PTL DEF Spec

\* No step removes the row of a board attached here or hands it to a peer.
THEOREM StaysOurs == Spec => AttachedRowStaysOurs
  <1>1. ASSUME TypeOK, [Next]_vars, NEW u \in Uid, LocallyAttached(rows[u])
        PROVE  IsLocal(rows[u])'
    <2> USE DEF bus, store, volatile, bounds
    <2>0. rows[u] \in Row
      BY <1>1 DEF TypeOK
    <2>1. CASE UNCHANGED rows
      BY <1>1, <2>1 DEF LocallyAttached, IsLocal, Exists
    <2>2. ASSUME NEW h \in Peer, NEW v \in Uid, NEW p \in Port, PeerAttach(h, v, p)
          PROVE  IsLocal(rows[u])'
      <3>1. rows'[u] = rows[u]
        BY <1>1, <2>0, <2>2, PeerUpsert DEF PeerAttach, TypeOK
      <3> QED
        BY <1>1, <3>1 DEF LocallyAttached, IsLocal, Exists
    <2>3. ASSUME NEW h \in Peer, NEW v \in Uid, NEW row, AttributedTo(v, h),
                 rows' = [rows EXCEPT ![v] = row]
          PROVE  IsLocal(rows[u])'
      <3>1. u # v
        BY <1>1, <2>3, LocalIsNoPeer DEF AttributedTo, LocallyAttached, IsLocal
      <3> QED
        BY <1>1, <2>3, <3>1 DEF LocallyAttached, IsLocal, Exists, TypeOK
    <2>4. ASSUME NEW r \in Runner, RescanPurge(r) PROVE IsLocal(rows[u])'
      <3>1. rows'[u] = rows[u]
        BY <1>1, <2>4
        DEF RescanPurge, StaleUnlocked, Purge, LocallyAttached, IsLocal, IsAttached, Attached,
            OfUnreachablePeer
      <3> QED
        BY <1>1, <3>1 DEF LocallyAttached, IsLocal, Exists
    <2>5. ASSUME NEW r \in Runner, NEW blank \in SUBSET (Uid \ Current(r)), NEW next,
                 DiffWrites(r, blank, next)
          PROVE  IsLocal(rows[u])'
      BY <1>1, <2>5, DiffedRows DEF DiffWrites, ClaimsAfter, LocksAfter, PreviouslyAttached, IsLocal, Exists
    <2>6. ASSUME NEW r \in Runner, Diff(r) PROVE IsLocal(rows[u])'
      <3>1. TimedOut(r) \in SUBSET (Uid \ Current(r))
        BY <1>1 DEF TimedOut, RunnerState, TypeOK
      <3> QED
        BY <2>5, <2>6, <3>1 DEF Diff
    <2>7. ASSUME NEW r \in Runner, NEW done \in SUBSET Uid, DiffRaises(r, done)
          PROVE  IsLocal(rows[u])'
      <3>1. done \in SUBSET (Uid \ Current(r))
        BY <1>1, <2>7 DEF DiffRaises, TimedOut, RunnerState, TypeOK
      <3> QED
        BY <2>5, <2>7, <3>1 DEF DiffRaises
    <2>8. ASSUME NEW r \in Runner, Apply(r) PROVE IsLocal(rows[u])'
      BY <1>1, <2>0, <2>8
      DEF Apply, ProbedRow, ApplyKnownBlank, ApplyProbeResult, SetChipIdentity,
          LocallyAttached, IsLocal, Exists, TypeOK, Row
    <2>9. ASSUME NEW h \in Peer, NEW v \in Uid, NEW st, PeerIdentity(h, v, st)
          PROVE  IsLocal(rows[u])'
      <3>1. u # v
        BY <1>1, <2>9, LocalIsNoPeer
        DEF PeerIdentity, AttributedTo, LocallyAttached, IsLocal
      <3>2. rows'[u] = rows[u]
        BY <1>1, <2>9, <3>1 DEF PeerIdentity, TypeOK
      <3> QED
        BY <1>1, <3>2 DEF LocallyAttached, IsLocal, Exists
    <2> QED
      BY <1>1, <2>1, <2>2, <2>3, <2>4, <2>6, <2>7, <2>8, <2>9
      DEF Next, Environment, Clients, Peers, Step, vars, Plug, Unplug, DeadlinePasses,
          Flash, RivalClaims, RivalReleases, Die, Exit, Restart, OpLock, OpRelease,
          Sweep, PeerDetach, PeerSeen, PeerLost, Scan, FireEvent, FireDone,
          EligibilityRaises, StartProbe, SkipProbe, CycleDone, ProbeReturns,
          SwdFallback, ApplyRaises, Unwind
  <1>2. TypeOK /\ [Next]_vars =>
          [\A u \in Uid : LocallyAttached(rows[u]) => IsLocal(rows[u])']_vars
    BY <1>1
  <1> QED
    BY <1>2, TypeCorrect, PTL DEF Spec, AttachedRowStaysOurs

\* A lock is only ever on a row that exists and is not a local disconnected
\* one, for any number of threads, peers, deaths and clients.
THEOREM LocksAreOnLiveRows == Spec => []LockOnlyOnLiveRow
  BY Ownership, PTL

-----------------------------------------------------------------------------
(***************************************************************************)
(* The poll loop alone: no `rescan`, no flash lock, no death of the        *)
(* process; any number of boards, lock clients and peers, and a second     *)
(* instance.  The claims are then exactly the boards listed as attached    *)
(* here, whatever the poll loop works on is claimed, and what its          *)
(* subscribers know differs from the claims by the events in fire only.    *)
(***************************************************************************)
Alone == Rescanners = {} /\ "flash" \notin Kind /\ MaxDeaths = 0

\* The events of a cycle not yet published: attach and identity events of
\* claimed boards, detach events of boards given up.
FireIsTrue(fire) ==
    \A e \in fire : /\ e[1] # "removed"
                    /\ e[1] = "detach" <=> e[2] \notin claims

\* What the poll loop is at.
PollIsAt(state) ==
    /\ state.pc \notin {"purged", "raised"}
    /\ state.expired = {}
    /\ state.todo \subseteq claims
    /\ state.pc \in {"probing", "silent", "applying"} => state.uid \in claims
    /\ state.pc # "firing" => state.fire = {}
    /\ FireIsTrue(state.fire)

\* What the subscribers know once the events in fire are published.
FeedAfter(fire) ==
    \A u \in Uid : u \in claims <=>
        \/ <<"attach", u>> \in fire
        \/ feed[u] = "present" /\ <<"detach", u>> \notin fire

\* No board waits for its re-probe.
NoFlashWaits == \A u \in Uid : flashPending[u] = "none"

PollInv ==
    /\ up
    /\ NoFlashWaits
    /\ claims = PreviouslyAttached
    /\ PollIsAt(runner[Poll])
    /\ FeedAfter(runner[Poll].fire)


\* Without flash locks no release renews a deadline.
LEMMA NoFlashReleased ==
    ASSUME Alone, TypeOK, NEW uids \in SUBSET Uid
    PROVE  FlashReleased(locks, uids) = {}
  BY DEF Alone, TypeOK, FlashReleased, Entry, Unlocked

\* A step that leaves the same boards attached here, the claims and the feed,
\* and takes the poll loop to a place where the invariant allows it, keeps
\* the invariant.
LEMMA PollFrame ==
    ASSUME PollInv, NEW state, runner'[Poll] = state, PollIsAt(state),
           state.fire = runner[Poll].fire,
           \A u \in Uid : LocallyAttached(rows'[u]) <=> LocallyAttached(rows[u]),
           NoFlashWaits', UNCHANGED <<up, claims, feed>>
    PROVE  PollInv'
  <1>1. PreviouslyAttached' = PreviouslyAttached
    BY DEF PreviouslyAttached
  <1>2. PollIsAt(runner[Poll])'
    BY DEF PollIsAt, FireIsTrue
  <1>3. FeedAfter(runner[Poll].fire)'
    BY DEF PollInv, FeedAfter
  <1> QED
    BY <1>1, <1>2, <1>3 DEF PollInv

\* What a peer says changes nothing about which boards are attached here.
LEMMA PeersLeaveAttached ==
    ASSUME TypeOK, Peers, NEW u \in Uid
    PROVE  LocallyAttached(rows'[u]) <=> LocallyAttached(rows[u])
  <1>0. rows \in [Uid -> Row]
    BY DEF TypeOK
  <1>1. ASSUME NEW h \in Peer, NEW v \in Uid, NEW p \in Port, PeerAttach(h, v, p)
        PROVE  LocallyAttached(rows'[u]) <=> LocallyAttached(rows[u])
    <2>1. CASE LocallyAttached(rows[v])
      <3>1. UpsertDevice(rows[v], h, p) = rows[v]
        BY <1>0, <2>1, PeerUpsert
      <3> QED
        BY <1>0, <1>1, <3>1 DEF PeerAttach
    <2>2. CASE ~LocallyAttached(rows[v])
      <3>1. UpsertDevice(rows[v], h, p).host = h
        BY <1>0, <2>2 DEF UpsertDevice, NoRow, Row
      <3>2. ~LocallyAttached(UpsertDevice(rows[v], h, p))
        BY <3>1, LocalIsNoPeer DEF LocallyAttached, IsLocal
      <3>3. rows'[u] = IF u = v THEN UpsertDevice(rows[v], h, p) ELSE rows[u]
        BY <1>0, <1>1 DEF PeerAttach
      <3> QED
        BY <2>2, <3>2, <3>3
    <2> QED
      BY <2>1, <2>2
  <1>2. ASSUME NEW h \in Peer, NEW v \in Uid, NEW row, AttributedTo(v, h),
               row.host = rows[v].host, rows' = [rows EXCEPT ![v] = row]
        PROVE  LocallyAttached(rows'[u]) <=> LocallyAttached(rows[u])
    <2>1. ~LocallyAttached(rows[v]) /\ ~LocallyAttached(row)
      BY <1>2, LocalIsNoPeer DEF AttributedTo, LocallyAttached, IsLocal
    <2>2. rows'[u] = IF u = v THEN row ELSE rows[u]
      BY <1>0, <1>2
    <2> QED
      BY <2>1, <2>2
  <1>3. ASSUME NEW h \in Peer, NEW v \in Uid, PeerDetach(h, v)
        PROVE  LocallyAttached(rows'[u]) <=> LocallyAttached(rows[u])
    <2>1. MarkDisconnected(rows[v]).host = rows[v].host
      BY <1>0 DEF MarkDisconnected, Row
    <2> QED
      BY <1>0, <1>2, <1>3, <2>1 DEF PeerDetach
  <1>4. ASSUME NEW h \in Peer, NEW v \in Uid,
               NEW st \in Attached \ {"attached_unprobed"}, PeerIdentity(h, v, st)
        PROVE  LocallyAttached(rows'[u]) <=> LocallyAttached(rows[u])
    <2>1. PeerProbed(rows[v], v, st).host = rows[v].host
      BY <1>0 DEF PeerProbed, ApplyProbeResult, ApplyKnownBlank, Attached, Row
    <2> QED
      BY <1>0, <1>2, <1>4, <2>1 DEF PeerIdentity
  <1> QED
    BY <1>1, <1>3, <1>4 DEF Peers, PeerSeen, PeerLost

\* The locked section, when no deadline has passed: the claims are again the
\* boards attached here, and the events say exactly what changed.
LEMMA PollDiffs ==
    ASSUME Alone, TypeOK, PollInv, Diff(Poll)
    PROVE  PollInv'
  <1> DEFINE r == Poll
             next == [runner[r] EXCEPT
                        !.pc = "firing", !.expired = {}, !.fire = DiffEvents(r),
                        !.todo = Granted(r) \cup (PreviouslyAttached \cap Current(r))]
  <1>0. r \in Runner /\ runner[r] \in RunnerState
    BY DEF TypeOK, Runner
  <1>1. TimedOut(r) = {}
    BY DEF TimedOut, PollInv, PollIsAt
  <1>2. /\ Granted(r) \subseteq Uid \cap Current(r)
        /\ Granted(r) \cap claims = {}
        /\ Gone(r) = claims \ Current(r)
        /\ claims = PreviouslyAttached
    BY DEF Granted, Gone, Current, TryClaim, PollInv
  <1>3. /\ claims' = (claims \cup Granted(r)) \ Gone(r)
        /\ rows' = [u \in Uid |-> DiffedRow(r, {}, u)]
        /\ runner'[r] = next
        /\ UNCHANGED <<up, feed>>
    <2>1. DiffWrites(r, {}, next)
      BY <1>1 DEF Diff
    <2> QED
      BY <1>0, <2>1 DEF DiffWrites, ClaimsAfter
  <1>4. NoFlashWaits'
    <2>1. Gone(r) \in SUBSET Uid
      BY DEF Gone, PreviouslyAttached
    <2>2. FlashReleased(locks, Gone(r)) = {}
      BY <2>1, NoFlashReleased
    <2> QED
      BY <1>1, <2>2 DEF Diff, DiffWrites, PollInv, NoFlashWaits
  <1>5. claims' = PreviouslyAttached'
    <2> SUFFICES ASSUME NEW u \in Uid
                 PROVE  u \in claims' <=> LocallyAttached(rows'[u])
      BY <1>2, <1>3 DEF PreviouslyAttached
    <2>0. rows[u] \in Row /\ rows'[u] = DiffedRow(r, {}, u)
      BY <1>3 DEF TypeOK
    <2>1. CASE u \in Granted(r)
      BY <1>0, <1>2, <1>3, <2>0, <2>1, DiffedRows
    <2>2. CASE u \in Gone(r)
      <3>1. rows'[u] = MarkDisconnected(rows[u])
        BY <1>2, <2>0, <2>2 DEF DiffedRow
      <3> QED
        BY <1>3, <2>0, <2>2, <3>1
        DEF MarkDisconnected, LocallyAttached, IsAttached, Attached, Row
    <2>3. CASE u \notin Granted(r) /\ u \notin Gone(r)
      <3>1. rows'[u] = rows[u]
        BY <2>0, <2>3 DEF DiffedRow
      <3> QED
        BY <1>2, <1>3, <2>3, <3>1 DEF PreviouslyAttached
    <2> QED
      BY <2>1, <2>2, <2>3
  <1>6. /\ runner'[r].pc = "firing" /\ runner'[r].expired = {}
        /\ runner'[r].fire = DiffEvents(r)
        /\ runner'[r].todo = Granted(r) \cup (claims \cap Current(r))
    BY <1>0, <1>2, <1>3 DEF RunnerState
  <1>7. DiffEvents(r) = ({"attach"} \X Granted(r)) \cup ({"detach"} \X Gone(r))
    BY <1>1 DEF DiffEvents
  <1>8. PollIsAt(runner[r])'
    <2>1. runner'[r].todo \subseteq claims'
      BY <1>2, <1>3, <1>6
    <2>2. FireIsTrue(runner[r].fire)'
      BY <1>2, <1>3, <1>6, <1>7 DEF FireIsTrue
    <2> QED
      BY <1>6, <2>1, <2>2 DEF PollIsAt
  <1>9. FeedAfter(runner[r].fire)'
    <2>1. runner[r].fire = {}
      BY DEF Diff, PollInv, PollIsAt
    <2>2. ASSUME NEW u \in Uid
          PROVE  /\ u \in claims <=> feed[u] = "present"
                 /\ <<"attach", u>> \in runner'[r].fire <=> u \in Granted(r)
                 /\ <<"detach", u>> \in runner'[r].fire <=> u \in Gone(r)
      <3>1. u \in claims <=> feed[u] = "present"
        BY <2>1 DEF PollInv, FeedAfter
      <3> QED
        BY <1>6, <1>7, <3>1
    <2> QED
      BY <1>2, <1>3, <2>2 DEF FeedAfter
  <1> QED
    BY <1>3, <1>4, <1>5, <1>8, <1>9 DEF PollInv

\* Every step of the poll loop keeps the invariant; in particular no step
\* raises, so the process does not end.
LEMMA PollSteps ==
    ASSUME Alone, TypeOK, PollInv, NEW r \in Runner, Step(r)
    PROVE  PollInv'
  <1> USE DEF bus, store, volatile, bounds
  <1>0. /\ r = Poll /\ Poll \notin Rescanners /\ runner[r] \in RunnerState
        /\ \A state : [runner EXCEPT ![r] = state][r] = state
    BY DEF Alone, Runner, TypeOK
  <1> DEFINE now == runner[r]
  <1>1. PollIsAt(now) /\ NoFlashWaits /\ claims = PreviouslyAttached
    BY <1>0 DEF PollInv
  <1>2. ASSUME NEW u \in claims PROVE u \in Uid /\ Exists(rows[u]) /\ LocallyAttached(rows[u])
    BY <1>1, <1>2 DEF PreviouslyAttached, LocallyAttached, IsLocal
  <1>3. ASSUME NEW state, runner' = [runner EXCEPT ![r] = state], PollIsAt(state),
               state.fire = now.fire, UNCHANGED <<rows, flashPending, up, claims, feed>>
        PROVE  PollInv'
    <2>1. runner'[Poll] = state
      BY <1>0, <1>3
    <2> QED
      BY <1>0, <1>1, <1>3, <2>1, PollFrame DEF NoFlashWaits
  <1>4. ~RescanPurge(r)
    BY <1>0 DEF RescanPurge
  <1>5. CASE Scan(r)
    <2> DEFINE state == [Idle EXCEPT !.pc = "scanned", !.seen = plugged,
                           !.expired = {u \in Uid : flashPending[u] = "due"}]
    <2>1. PollIsAt(state) /\ state.fire = {}
      BY <1>1 DEF PollIsAt, FireIsTrue, Idle, NoFlashWaits
    <2> QED
      BY <1>3, <1>5, <2>1 DEF Scan
  <1>6. CASE Diff(r)
    BY <1>0, <1>6, PollDiffs
  <1>7. ASSUME NEW done \in SUBSET Uid, DiffRaises(r, done) PROVE FALSE
    BY <1>1, <1>7 DEF DiffRaises, TimedOut, PollIsAt
  <1>8. ASSUME NEW e \in Event, FireEvent(r, e) PROVE PollInv'
    <2>1. /\ now.pc = "firing" /\ e \in now.fire
          /\ runner'[Poll] = [now EXCEPT !.fire = @ \ {e}]
          /\ feed' = [feed EXCEPT ![e[2]] = IF e[1] \in {"detach", "removed"}
                                              THEN "gone" ELSE "present"]
          /\ UNCHANGED <<rows, flashPending, up, claims>>
      BY <1>0, <1>1, <1>8 DEF FireEvent, PollIsAt
    <2>2. PollIsAt(runner[Poll])'
      BY <1>0, <1>1, <2>1 DEF PollIsAt, FireIsTrue, RunnerState
    <2>3. FeedAfter(runner[Poll].fire)'
      <3>0. runner'[Poll].fire = now.fire \ {e} /\ claims' = claims
        BY <1>0, <2>1 DEF RunnerState
      <3> SUFFICES ASSUME NEW u \in Uid
                   PROVE  u \in claims <=>
                            \/ <<"attach", u>> \in now.fire \ {e}
                            \/ feed'[u] = "present" /\ <<"detach", u>> \notin now.fire \ {e}
        BY <3>0 DEF FeedAfter
      <3>1. u \in claims <=> \/ <<"attach", u>> \in now.fire
                             \/ feed[u] = "present" /\ <<"detach", u>> \notin now.fire
        BY <1>0 DEF PollInv, FeedAfter
      <3>2. /\ e[1] \in EventTypes /\ e[2] \in Uid /\ e = <<e[1], e[2]>>
            /\ e[1] # "removed" /\ (e[1] = "detach" <=> e[2] \notin claims)
        BY <1>1, <2>1 DEF Event, PollIsAt, FireIsTrue
      <3>3. <<"detach", u>> \in now.fire => u \notin claims
        BY <1>1 DEF PollIsAt, FireIsTrue
      <3>4. feed'[u] = IF u = e[2] THEN IF e[1] = "detach" THEN "gone" ELSE "present"
                       ELSE feed[u]
        BY <2>1, <3>2 DEF TypeOK
      <3>5. CASE u = e[2]
        BY <3>1, <3>2, <3>3, <3>4, <3>5
      <3>6. CASE u # e[2]
        <4>1. e # <<"attach", u>> /\ e # <<"detach", u>>
          BY <3>6
        <4> QED
          BY <3>1, <3>4, <3>6, <4>1
      <3> QED
        BY <3>5, <3>6
    <2> QED
      BY <1>0, <1>1, <2>1, <2>2, <2>3 DEF PollInv, NoFlashWaits, PreviouslyAttached
  <1>9. CASE FireDone(r)
    <2> DEFINE state == [now EXCEPT !.pc = "choosing"]
    <2>1. runner' = [runner EXCEPT ![r] = state]
      BY <1>9 DEF FireDone, TypeOK
    <2>2. PollIsAt(state) /\ state.fire = now.fire
      BY <1>0, <1>1, <1>9 DEF FireDone, PollIsAt, FireIsTrue, RunnerState
    <2> QED
      BY <1>3, <1>9, <2>1, <2>2 DEF FireDone
  <1>10. ASSUME NEW u \in Uid,
                EligibilityRaises(r, u) \/ StartProbe(r, u) \/ SkipProbe(r, u)
         PROVE  PollInv'
    <2>1. u \in claims /\ Exists(rows[u]) /\ now.pc = "choosing"
      BY <1>1, <1>2, <1>10 DEF EligibilityRaises, StartProbe, SkipProbe, PollIsAt
    <2>2. CASE StartProbe(r, u)
      <3> DEFINE state == [now EXCEPT !.pc = "probing", !.todo = @ \ {u}, !.uid = u]
      <3>1. PollIsAt(state) /\ state.fire = now.fire
        BY <1>0, <1>1, <2>1 DEF PollIsAt, FireIsTrue, RunnerState
      <3> QED
        BY <1>3, <2>2, <3>1 DEF StartProbe
    <2>3. CASE SkipProbe(r, u)
      <3> DEFINE state == [now EXCEPT !.todo = @ \ {u}]
      <3>1. PollIsAt(state) /\ state.fire = now.fire
        BY <1>0, <1>1, <2>1 DEF PollIsAt, FireIsTrue, RunnerState
      <3>2. runner' = [runner EXCEPT ![r] = state]
        BY <2>3 DEF SkipProbe, TypeOK
      <3> QED
        BY <1>3, <2>3, <3>1, <3>2 DEF SkipProbe
    <2> QED
      BY <1>10, <2>1, <2>2, <2>3 DEF EligibilityRaises
  <1>11. CASE CycleDone(r)
    <2>1. PollIsAt(Idle) /\ Idle.fire = now.fire
      BY <1>1, <1>11 DEF CycleDone, PollIsAt, FireIsTrue, Idle
    <2> QED
      BY <1>3, <1>11, <2>1 DEF CycleDone
  <1>12. ASSUME NEW a \in BOOLEAN, NEW i \in Ident \cup {NoIdent}, ProbeReturns(r, a, i)
         PROVE  PollInv'
    <2> DEFINE state == [now EXCEPT !.answered = a, !.ident = i,
                           !.pc = IF i = NoIdent THEN "silent" ELSE "applying"]
    <2>1. runner' = [runner EXCEPT ![r] = state]
      BY <1>12 DEF ProbeReturns, TypeOK
    <2>2. PollIsAt(state) /\ state.fire = now.fire
      BY <1>0, <1>1, <1>12 DEF ProbeReturns, PollIsAt, FireIsTrue, RunnerState
    <2> QED
      BY <1>3, <1>12, <2>1, <2>2 DEF ProbeReturns
  <1>13. ASSUME NEW read \in BOOLEAN, SwdFallback(r, read) PROVE PollInv'
    <2> DEFINE state == [now EXCEPT !.chip = read, !.pc = "applying"]
    <2>1. runner' = [runner EXCEPT ![r] = state]
      BY <1>13 DEF SwdFallback, TypeOK
    <2>2. PollIsAt(state) /\ state.fire = now.fire
      BY <1>0, <1>1, <1>13 DEF SwdFallback, PollIsAt, FireIsTrue, RunnerState
    <2> QED
      BY <1>3, <1>13, <2>1, <2>2 DEF SwdFallback
  <1>14. CASE Apply(r)
    <2> DEFINE u == now.uid
               state == [now EXCEPT !.pc = "firing", !.fire = {<<"identity", u>>},
                           !.answered = FALSE, !.ident = NoIdent, !.chip = FALSE]
    <2>1. now.fire = {} /\ u \in claims /\ u \in Uid /\ LocallyAttached(rows[u])
      BY <1>1, <1>2, <1>14 DEF Apply, PollIsAt
    <2>2. /\ runner'[Poll] = state /\ UNCHANGED <<up, claims, feed>>
          /\ rows' = [rows EXCEPT ![u] = ProbedRow(r)]
          /\ NoFlashWaits'
      BY <1>0, <1>1, <1>14, <2>1 DEF Apply, TypeOK, NoFlashWaits
    <2>3. PreviouslyAttached' = PreviouslyAttached
      <3>1. rows[u] \in Row
        BY <2>1 DEF TypeOK
      <3>2. LocallyAttached(ProbedRow(r))
        BY <2>1, <3>1
        DEF ProbedRow, ApplyKnownBlank, ApplyProbeResult, SetChipIdentity,
            LocallyAttached, IsLocal, Exists, IsAttached, Attached, Row
      <3> QED
        BY <2>1, <2>2, <3>2 DEF PreviouslyAttached, TypeOK
    <2>4. state.fire = {<<"identity", u>>} /\ PollIsAt(state)
      BY <1>0, <1>1, <2>1 DEF PollIsAt, FireIsTrue, RunnerState
    <2> HIDE DEF state
    <2>5. PollIsAt(runner[Poll])'
      BY <2>2, <2>4 DEF PollIsAt, FireIsTrue
    <2>6. FeedAfter(runner[Poll].fire)'
      BY <1>0, <2>1, <2>2, <2>4 DEF PollInv, FeedAfter
    <2> QED
      BY <1>1, <2>2, <2>3, <2>5, <2>6 DEF PollInv
  <1>15. ~ApplyRaises(r) /\ ~Unwind(r)
    BY <1>1, <1>2 DEF ApplyRaises, Unwind, PollIsAt
  <1> QED
    BY <1>4, <1>5, <1>6, <1>7, <1>8, <1>9, <1>10, <1>11, <1>12, <1>13, <1>14, <1>15
    DEF Step

\* Every step of anyone keeps the invariant.
LEMMA PollNext ==
    ASSUME Alone, TypeOK, PollInv, [Next]_vars
    PROVE  PollInv'
  <1> USE DEF bus, store, volatile, bounds
  <1>0. PollIsAt(runner[Poll]) /\ NoFlashWaits /\ runner \in [Runner -> RunnerState]
        /\ Poll \in Runner
    BY DEF PollInv, TypeOK, Runner
  <1>1. CASE UNCHANGED <<rows, flashPending, up, claims, feed, runner>>
    BY <1>0, <1>1, PollFrame DEF NoFlashWaits
  <1>2. ASSUME NEW uids \in SUBSET Uid, ReleaseLocks(uids),
               UNCHANGED <<rows, up, claims, feed>>
        PROVE  PollInv'
    <2>1. FlashReleased(locks, uids) = {}
      BY NoFlashReleased
    <2>2. NoFlashWaits'
      BY <1>0, <1>2, <2>1 DEF ReleaseLocks, NoFlashWaits
    <2> DEFINE state == [runner[Poll] EXCEPT !.expired = @ \ {}]
    <2>3. runner'[Poll] = state
      BY <1>0, <1>2, <2>1 DEF ReleaseLocks
    <2>4. PollIsAt(state) /\ state.fire = runner[Poll].fire
      BY <1>0 DEF PollIsAt, FireIsTrue, RunnerState
    <2> QED
      BY <1>2, <2>2, <2>3, <2>4, PollFrame
  <1>3. ASSUME NEW c \in Holder, NEW u \in Uid, OpRelease(c, u) PROVE PollInv'
    BY <1>2, <1>3 DEF OpRelease
  <1>4. ASSUME NEW c \in Holder, Sweep(c) PROVE PollInv'
    <2>1. DeadHeld(locks, {c}) \in SUBSET Uid
      BY DEF DeadHeld, TypeOK
    <2> QED
      BY <1>2, <1>4, <2>1 DEF Sweep
  <1>5. CASE Peers
    <2>1. UNCHANGED <<flashPending, up, claims, feed, runner>>
      BY <1>5 DEF Peers, PeerAttach, PeerDetach, PeerIdentity, PeerEvent, PeerSeen,
                  PeerLost
    <2>2. \A u \in Uid : LocallyAttached(rows'[u]) <=> LocallyAttached(rows[u])
      BY <1>5, PeersLeaveAttached
    <2> QED
      BY <1>0, <2>1, <2>2, PollFrame DEF NoFlashWaits
  <1>6. ~Die /\ ~Restart /\ \A u \in Uid : ~DeadlinePasses(u)
    <2>1. ~(deaths < MaxDeaths)
      BY DEF Alone, TypeOK
    <2>2. ~Restart /\ \A u \in Uid : ~DeadlinePasses(u)
      BY <1>0 DEF Restart, DeadlinePasses, NoFlashWaits, PollInv
    <2> QED
      BY <2>1, <2>2 DEF Die
  <1> QED
    BY <1>1, <1>3, <1>4, <1>5, <1>6, PollSteps
    DEF Next, Environment, Clients, vars, Plug, Unplug, Flash, RivalClaims,
        RivalReleases, OpLock

\* The poll loop alone has its invariant in every reachable state.
LEMMA PollInvariant ==
    ASSUME Alone
    PROVE  Spec => []PollInv
  <1>1. Init => PollInv
    <2> SUFFICES ASSUME Init PROVE PollInv
      OBVIOUS
    <2>1. runner[Poll] = Idle
      BY DEF Init, AllIdle, Runner
    <2>2. PreviouslyAttached = {}
      BY DEF Init, PreviouslyAttached, LocallyAttached, IsLocal, Exists, NoRow
    <2> QED
      BY <2>1, <2>2 DEF Init, PollInv, NoFlashWaits, PollIsAt, FireIsTrue, FeedAfter, Idle
  <1>2. TypeOK /\ PollInv /\ [Next]_vars => PollInv'
    BY PollNext
  <1> QED
    BY <1>1, <1>2, TypeCorrect, PTL DEF Spec

\* A poll loop that runs alone only ever opens a port, or reads a debug
\* probe, of a board whose flock it holds.
THEOREM PollProbesClaimed ==
    ASSUME Alone
    PROVE  Spec => []ProbeHoldsClaim
  <1>1. PollInv => ProbeHoldsClaim
    BY DEF Alone, PollInv, PollIsAt, ProbeHoldsClaim, Runner
  <1> QED
    BY <1>1, PollInvariant, PTL

\* A poll loop that runs alone holds the claim of every board it lists as
\* attached here, whatever clients, peers and the other instance do.
THEOREM PollClaimsAttached ==
    ASSUME Alone
    PROVE  Spec => []AttachedIsClaimed
  <1>1. PollInv => AttachedIsClaimed
    BY DEF PollInv, AttachedIsClaimed, PreviouslyAttached
  <1> QED
    BY <1>1, PollInvariant, PTL

\* With a poll loop that runs alone, subscribers know exactly which boards
\* are attached here whenever no event waits to be published.
THEOREM PollFeedIsExact ==
    ASSUME Alone
    PROVE  Spec => []FeedMatchesTable
  <1>1. PollInv => FeedMatchesTable
    BY DEF Alone, PollInv, FeedAfter, FeedMatchesTable, PreviouslyAttached, Runner
  <1> QED
    BY <1>1, PollInvariant, PTL
=============================================================================

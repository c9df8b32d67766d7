------------------------------- MODULE ApiProofs -------------------------------
(***************************************************************************)
(* TLAPS proofs about ApiServer, for any set of boards, connections and    *)
(* client processes, and whatever disturbances are allowed.                *)
(***************************************************************************)
EXTENDS ApiServer, TLAPS

-----------------------------------------------------------------------------
\* Dropping entries of the lock table, as every release does.
LEMMA DropType ==
    ASSUME TypeOK, NEW uids
    PROVE  Drop(locks, uids) \in [Uid -> Entry]
  BY DEF TypeOK, Drop, Entry

\* An entry of the table after a drop is one it had before, outside the
\* dropped uids.
LEMMA DropKeeps ==
    ASSUME TypeOK, NEW uids, NEW u \in Uid, Locked(Drop(locks, uids), u)
    PROVE  /\ Drop(locks, uids)[u] = locks[u]
           /\ Locked(locks, u)
           /\ u \notin uids
  BY DEF TypeOK, Drop, Locked, Unlocked

\* Moving one handler on keeps the connection table well typed.
LEMMA GotoType ==
    ASSUME TypeOK, NEW c \in Conn, NEW pc \in Pcs, Goto(c, pc)
    PROVE  conn' \in [Conn -> ConnState]
  BY DEF TypeOK, Goto, ConnState

\* The same for a step that is about one board.
LEMMA GotoAboutType ==
    ASSUME TypeOK, NEW c \in Conn, NEW u \in Uid, NEW pc \in Pcs,
           GotoAbout(c, u, pc)
    PROVE  /\ conn' \in [Conn -> ConnState]
           /\ \A d \in Conn : conn'[d].pc = IF d = c THEN pc ELSE conn[d].pc
  BY DEF TypeOK, GotoAbout, ConnState

\* A reply leaves the handler waiting or unwinding.
LEMMA ReplyType ==
    ASSUME NEW c, NEW u
    PROVE  /\ Reply(c) \in Pcs \ {"new", "closed"}
           /\ AfterLock(c, u) \in Pcs \ {"new", "closed"}
           /\ AfterUnlock(c, u) \in Pcs \ {"new", "closed"}
           /\ AfterShutdown(c) \in Pcs \ {"new", "closed"}
           /\ AfterStreamAck(c) \in Pcs \ {"new", "closed"}
  BY DEF Reply, AfterLock, AfterUnlock, AfterShutdown, AfterStreamAck, Pcs

\* The initial state is well typed.
LEMMA InitType == Init => TypeOK
  BY UidNonempty
  DEF Init, TypeOK, NewConn, ConnState, Pcs, EmptyTable, Entry, Unlocked

\* Every request step keeps the types.
LEMMA RequestType ==
    ASSUME TypeOK, NEW c \in Conn, Request(c)
    PROVE  TypeOK'
  <1> USE DEF board
  <1>1. CASE Connect(c)
    BY <1>1, GotoType DEF Connect, TypeOK, Pcs
  <1>2. ASSUME NEW u \in Uid, NEW k \in Kind, OpLock(c, u, k)
        PROVE  TypeOK'
    <2>1. locks' \in [Uid -> Entry]
      BY <1>2, HolderOfType DEF OpLock, TypeOK, Acquire, Entry
    <2>2. conn' \in [Conn -> ConnState]
      BY <1>2, ReplyType, GotoAboutType DEF OpLock
    <2> QED
      BY <1>2, <2>1, <2>2 DEF OpLock, TypeOK
  <1>3. ASSUME NEW u \in Uid, OpUnlock(c, u)
        PROVE  TypeOK'
    <2>1. conn' \in [Conn -> ConnState]
      BY <1>3, ReplyType, GotoAboutType DEF OpUnlock
    <2> QED
      BY <1>3, <2>1, DropType DEF OpUnlock, Release, TypeOK
  <1>4. ASSUME NEW u \in Uid, OpForceUnlock(c, u)
        PROVE  TypeOK'
    <2>1. uidConn[u] \in Conn \cup {NoConn} /\ conn[c] \in ConnState
      BY DEF TypeOK
    <2>2. [conn[c] EXCEPT !.target = uidConn[u], !.pc = "shutting"] \in ConnState
      BY <2>1 DEF ConnState, Pcs
    <2>3. conn' \in [Conn -> ConnState]
      BY <1>4, <2>2 DEF OpForceUnlock, TypeOK
    <2> QED
      BY <1>4, <2>3, DropType DEF OpForceUnlock, TypeOK
  <1>5. ASSUME NEW u \in Uid, BeginFlash(c, u)
        PROVE  TypeOK'
    BY <1>5, GotoAboutType DEF BeginFlash, TypeOK, Pcs
  <1>6. ASSUME NEW u \in Uid, BeginStream(c, u)
        PROVE  TypeOK'
    BY <1>6, ReplyType DEF BeginStream, TypeOK, ConnState
  <1> QED
    BY <1>1, <1>2, <1>3, <1>4, <1>5, <1>6 DEF Request

\* The connection table after a shutdown is well typed.
LEMMA ShutdownType ==
    ASSUME TypeOK, NEW c \in Conn, ShutdownTarget(c)
    PROVE  conn' \in [Conn -> ConnState]
  <1>1. ASSUME NEW state \in ConnState, NEW condition \in BOOLEAN
        PROVE  ShutIf(state, condition) \in ConnState
    BY DEF ShutIf, ConnState
  <1>2. [conn[c] EXCEPT !.target = NoConn, !.pc = AfterShutdown(c)] \in ConnState
    BY ReplyType DEF TypeOK, ConnState
  <1> QED
    BY <1>1, <1>2 DEF ShutdownTarget, TypeOK

\* Every step a handler takes on its own keeps the types.
LEMMA HandleType ==
    ASSUME TypeOK, NEW c \in Conn, Handle(c)
    PROVE  TypeOK'
  <1> USE DEF board
  <1>0. conn[c].uid \in Uid /\ acquired[c] \in SUBSET Uid
    BY DEF TypeOK, ConnState
  <1>1. CASE RecordConn(c)
    BY <1>0, <1>1, GotoType, ReplyType DEF RecordConn, TypeOK
  <1>2. CASE ForgetConn(c)
    BY <1>0, <1>2, GotoType, ReplyType DEF ForgetConn, TypeOK
  <1>3. CASE ShutdownTarget(c)
    <2>1. conn' \in [Conn -> ConnState]
      BY <1>3, ShutdownType
    <2> QED
      BY <1>3, <2>1 DEF ShutdownTarget, TypeOK
  <1>4. CASE StartFlash(c) \/ FlashRaises(c) \/ OpenStream(c) \/ PumpDies(c)
    BY <1>4, GotoType DEF StartFlash, FlashRaises, OpenStream, PumpDies, TypeOK, Pcs
  <1>5. CASE EndFlash(c)
    <2>1. conn' \in [Conn -> ConnState]
      BY <1>5, GotoType, ReplyType DEF EndFlash
    <2>2. uidConn' \in [Uid -> Conn \cup {NoConn}]
      BY <1>0, <1>5 DEF EndFlash, ReleaseFlashed, TypeOK
    <2> QED
      BY <1>0, <1>5, <2>1, <2>2, DropType DEF EndFlash, ReleaseFlashed, Release, TypeOK
  <1>9. CASE FlashLogFails(c)
    <2>1. conn' \in [Conn -> ConnState]
      BY <1>9, GotoType DEF FlashLogFails, Pcs
    <2>2. uidConn' \in [Uid -> Conn \cup {NoConn}]
      BY <1>0, <1>9 DEF FlashLogFails, ReleaseFlashed, TypeOK
    <2> QED
      BY <1>0, <1>9, <2>1, <2>2, DropType
      DEF FlashLogFails, ReleaseFlashed, Release, TypeOK
  <1>6. CASE StreamCheck(c)
    BY <1>6 DEF StreamCheck, TypeOK, ConnState
  <1>7. CASE EndStream(c)
    <2>1. conn' \in [Conn -> ConnState]
      BY <1>7, GotoType DEF EndStream, Pcs
    <2> QED
      BY <1>0, <1>7, <2>1, DropType DEF EndStream, Release, TypeOK
  <1>8. CASE Cleanup(c)
    <2>1. conn' \in [Conn -> ConnState]
      BY <1>8, GotoType DEF Cleanup, Pcs
    <2> QED
      BY <1>8, <2>1, DropType DEF Cleanup, Release, TypeOK
  <1> QED
    BY <1>1, <1>2, <1>3, <1>4, <1>5, <1>6, <1>7, <1>8, <1>9 DEF Handle

\* Every step keeps the types.
LEMMA NextType == TypeOK /\ [Next]_vars => TypeOK'
  <1> SUFFICES ASSUME TypeOK, [Next]_vars PROVE TypeOK'
    OBVIOUS
  <1>1. ASSUME NEW c \in Conn, Request(c) \/ Handle(c) PROVE TypeOK'
    BY <1>1, RequestType, HandleType
  <1>2. CASE Environment
    <2>1. ASSUME NEW u \in Uid, NEW p \in Port, DaemonAttach(u, p) PROVE TypeOK'
      BY <2>1 DEF DaemonAttach, TypeOK
    <2>2. ASSUME NEW u \in Uid, DaemonDetach(u) PROVE TypeOK'
      BY <2>2, DropType DEF DaemonDetach, TypeOK
    <2>3. ASSUME NEW u \in Uid, RescanPurge(u) PROVE TypeOK'
      BY <2>3 DEF RescanPurge, TypeOK
    <2>4. ASSUME NEW h \in Holder, ProcessDies(h) PROVE TypeOK'
      BY <2>4 DEF ProcessDies, TypeOK, board
    <2>5. ASSUME NEW c \in Conn, OrphanEnds(c) PROVE TypeOK'
      BY <2>5 DEF OrphanEnds, TypeOK
    <2> QED
      BY <1>2, <2>1, <2>2, <2>3, <2>4, <2>5 DEF Environment
  <1>3. CASE Sweep
    BY <1>3, DropType DEF Sweep, TypeOK, board
  <1>4. CASE UNCHANGED vars
    BY <1>4 DEF vars, TypeOK
  <1> QED
    BY <1>1, <1>2, <1>3, <1>4 DEF Next

\* Every reachable state of the control plane is well typed.
THEOREM ApiTypeCorrect == Spec => []TypeOK
  BY InitType, NextType, PTL DEF Spec

-----------------------------------------------------------------------------
(***************************************************************************)
(* LockHasOwner is inductive together with TypeOK.  Part of it about one   *)
(* board, so that a step can be argued board by board.                     *)
(***************************************************************************)
Owned(u) ==
    Locked(locks, u) =>
        /\ owner[u] \in Conn
        /\ HolderOf[owner[u]] = locks[u].holder
        /\ u \in acquired[owner[u]]
        /\ conn[owner[u]].pc \notin {"new", "closed"}

\* A connection's own release takes with it every lock granted to it.
LEMMA ReleaseOwned ==
    ASSUME TypeOK, NEW u \in Uid, Owned(u), NEW c \in Conn, NEW uids,
           Release(c, uids), Locked(locks, u)'
    PROVE  /\ locks'[u] = locks[u]
           /\ Locked(locks, u)
           /\ owner[u] # c \/ u \notin uids
  <1>1. Drop(locks, Own(c, uids))[u] = locks[u] /\ Locked(locks, u)
            /\ u \notin Own(c, uids)
    BY DropKeeps DEF Release, Locked
  <1> QED
    BY <1>1 DEF Release, Own, Releases, Owned

\* A handler that moves on without closing leaves every lock owned, as long
\* as locks, acquired and owner stay.
LEMMA MoveOwned ==
    ASSUME TypeOK, NEW u \in Uid, Owned(u), UNCHANGED <<locks, acquired, owner>>,
           \A d \in Conn : conn[d].pc \notin {"new", "closed"}
                             => conn'[d].pc \notin {"new", "closed"}
    PROVE  Owned(u)'
  BY DEF Owned, Locked

\* Requests keep every lock owned.
LEMMA RequestOwned ==
    ASSUME TypeOK, NEW u \in Uid, Owned(u), NEW c \in Conn, Request(c)
    PROVE  Owned(u)'
  <1>1. CASE Connect(c)
    <2>1. \A d \in Conn : conn[d].pc \notin {"new", "closed"}
                             => conn'[d].pc \notin {"new", "closed"}
      BY <1>1 DEF Connect, Goto, TypeOK
    <2> QED
      BY <1>1, <2>1, MoveOwned DEF Connect
  <1>2. ASSUME NEW v \in Uid, NEW k \in Kind, OpLock(c, v, k)
        PROVE  Owned(u)'
    <2>1. \A d \in Conn : conn[d].pc \notin {"new", "closed"}
                             => conn'[d].pc \notin {"new", "closed"}
      BY <1>2, ReplyType, GotoAboutType DEF OpLock
    <2>2. CASE u = v
      <3>1. conn'[c].pc \notin {"new", "closed"}
        BY <1>2, <2>1 DEF OpLock
      <3>2. owner'[u] = c /\ u \in acquired'[c]
        BY <1>2, <2>2 DEF OpLock, TypeOK
      <3>3. locks'[u].holder = HolderOf[c]
        BY <1>2, <2>2 DEF OpLock, Acquire, TypeOK
      <3> QED
        BY <3>1, <3>2, <3>3 DEF Owned
    <2>3. CASE u # v
      <3>1. locks'[u] = locks[u] /\ owner'[u] = owner[u]
        BY <1>2, <2>3 DEF OpLock, Acquire, TypeOK
      <3>2. \A d \in Conn : acquired[d] \subseteq acquired'[d]
        BY <1>2 DEF OpLock, TypeOK
      <3> QED
        BY <2>1, <3>1, <3>2 DEF Owned, Locked
    <2> QED
      BY <2>2, <2>3
  <1>3. ASSUME NEW v \in Uid, OpUnlock(c, v)
        PROVE  Owned(u)'
    <2>1. \A d \in Conn : conn[d].pc \notin {"new", "closed"}
                             => conn'[d].pc \notin {"new", "closed"}
      BY <1>3, ReplyType, GotoAboutType DEF OpUnlock
    <2>2. owner' = owner /\ \A d \in Conn :
            u \in acquired[d] /\ (d # c \/ u # v) => u \in acquired'[d]
      BY <1>3 DEF OpUnlock, TypeOK
    <2>3. Locked(locks, u)' => /\ locks'[u] = locks[u]
                               /\ Locked(locks, u)
                               /\ owner[u] # c \/ u # v
      BY <1>3, ReleaseOwned DEF OpUnlock
    <2> QED
      BY <2>1, <2>2, <2>3 DEF Owned
  <1>4. ASSUME NEW v \in Uid, OpForceUnlock(c, v)
        PROVE  Owned(u)'
    <2>1. \A d \in Conn : conn[d].pc \notin {"new", "closed"}
                             => conn'[d].pc \notin {"new", "closed"}
      BY <1>4 DEF OpForceUnlock, TypeOK, ConnState
    <2>2. Locked(locks, u)' => locks'[u] = locks[u] /\ Locked(locks, u)
      BY <1>4, DropKeeps DEF OpForceUnlock, Locked
    <2> QED
      BY <1>4, <2>1, <2>2 DEF OpForceUnlock, Owned
  <1>5. ASSUME NEW v \in Uid, BeginFlash(c, v)
        PROVE  Owned(u)'
    <2>1. \A d \in Conn : conn[d].pc \notin {"new", "closed"}
                             => conn'[d].pc \notin {"new", "closed"}
      BY <1>5, GotoAboutType DEF BeginFlash, Pcs
    <2> QED
      BY <1>5, <2>1, MoveOwned DEF BeginFlash
  <1>6. ASSUME NEW v \in Uid, BeginStream(c, v)
        PROVE  Owned(u)'
    <2>1. \A d \in Conn : conn[d].pc \notin {"new", "closed"}
                             => conn'[d].pc \notin {"new", "closed"}
      BY <1>6, ReplyType DEF BeginStream, TypeOK, ConnState
    <2> QED
      BY <1>6, <2>1, MoveOwned DEF BeginStream
  <1> QED
    BY <1>1, <1>2, <1>3, <1>4, <1>5, <1>6 DEF Request

\* The pc of every connection after a shutdown.
LEMMA ShutdownPc ==
    ASSUME TypeOK, NEW c \in Conn, ShutdownTarget(c), NEW d \in Conn
    PROVE  conn'[d].pc = IF d = c THEN AfterShutdown(c) ELSE conn[d].pc
  <1>1. ASSUME NEW state \in ConnState, NEW condition
        PROVE  ShutIf(state, condition).pc = state.pc
    BY DEF ShutIf, ConnState
  <1>2. /\ [conn[c] EXCEPT !.target = NoConn, !.pc = AfterShutdown(c)] \in ConnState
        /\ [conn[c] EXCEPT !.target = NoConn, !.pc = AfterShutdown(c)].pc
             = AfterShutdown(c)
    BY ReplyType DEF TypeOK, ConnState
  <1> QED
    BY <1>1, <1>2 DEF ShutdownTarget, TypeOK

\* Handlers on their way keep every lock owned.
LEMMA HandleOwned ==
    ASSUME TypeOK, NEW u \in Uid, Owned(u), NEW c \in Conn, Handle(c)
    PROVE  Owned(u)'
  <1> DEFINE open(d) == conn[d].pc \notin {"new", "closed"}
  <1>0. ASSUME NEW pc, Goto(c, pc)
        PROVE  \A d \in Conn : conn'[d].pc = IF d = c THEN pc ELSE conn[d].pc
    BY <1>0 DEF Goto, TypeOK, ConnState
  <1>1. CASE RecordConn(c)
    <2>1. \A d \in Conn : open(d) => open(d)'
      BY <1>0, <1>1, ReplyType DEF RecordConn
    <2> QED
      BY <1>1, <2>1, MoveOwned DEF RecordConn
  <1>2. CASE ForgetConn(c)
    <2>1. \A d \in Conn : open(d) => open(d)'
      BY <1>0, <1>2, ReplyType DEF ForgetConn
    <2> QED
      BY <1>2, <2>1, MoveOwned DEF ForgetConn
  <1>3. CASE ShutdownTarget(c)
    <2>1. \A d \in Conn : open(d) => open(d)'
      BY <1>3, ReplyType, ShutdownPc
    <2> QED
      BY <1>3, <2>1, MoveOwned DEF ShutdownTarget
  <1>4. CASE StartFlash(c) \/ FlashRaises(c) \/ OpenStream(c) \/ PumpDies(c)
    <2>1. \A d \in Conn : open(d) => open(d)'
      BY <1>0, <1>4 DEF StartFlash, FlashRaises, OpenStream, PumpDies
    <2> QED
      BY <1>4, <2>1, MoveOwned DEF StartFlash, FlashRaises, OpenStream, PumpDies
  <1>5. CASE EndFlash(c) \/ FlashLogFails(c)
    <2>1. \A d \in Conn : open(d) => open(d)'
      BY <1>0, <1>5, ReplyType DEF EndFlash, FlashLogFails
    <2>2. owner' = owner /\ \A d \in Conn :
            u \in acquired[d] /\ (d # c \/ u # conn[c].uid) => u \in acquired'[d]
      BY <1>5 DEF EndFlash, FlashLogFails, ReleaseFlashed, TypeOK
    <2>3. Locked(locks, u)' => /\ locks'[u] = locks[u]
                               /\ Locked(locks, u)
                               /\ owner[u] # c \/ u # conn[c].uid
      BY <1>5, ReleaseOwned DEF EndFlash, FlashLogFails, ReleaseFlashed
    <2> QED
      BY <2>1, <2>2, <2>3 DEF Owned
  <1>6. CASE StreamCheck(c)
    <2>1. \A d \in Conn : open(d) => open(d)'
      BY <1>6 DEF StreamCheck, TypeOK, ConnState
    <2> QED
      BY <1>6, <2>1, MoveOwned DEF StreamCheck
  <1>7. CASE EndStream(c)
    <2>1. \A d \in Conn : open(d) => open(d)'
      BY <1>0, <1>7 DEF EndStream
    <2>2. owner' = owner /\ \A d \in Conn :
            u \in acquired[d] /\ (d # c \/ u # conn[c].uid) => u \in acquired'[d]
      BY <1>7 DEF EndStream, TypeOK
    <2>3. Locked(locks, u)' => /\ locks'[u] = locks[u]
                               /\ Locked(locks, u)
                               /\ owner[u] # c \/ u # conn[c].uid
      BY <1>7, ReleaseOwned DEF EndStream
    <2> QED
      BY <2>1, <2>2, <2>3 DEF Owned
  <1>8. CASE Cleanup(c)
    \* The closed connection owned nothing that is still locked.
    <2>1. \A d \in Conn : open(d) /\ d # c => open(d)'
      BY <1>0, <1>8 DEF Cleanup
    <2>2. owner' = owner /\ \A d \in Conn : d # c => acquired'[d] = acquired[d]
      BY <1>8 DEF Cleanup, TypeOK
    <2>3. Locked(locks, u)' => /\ locks'[u] = locks[u]
                               /\ Locked(locks, u)
                               /\ owner[u] # c \/ u \notin acquired[c]
      BY <1>8, ReleaseOwned DEF Cleanup
    <2> QED
      BY <2>1, <2>2, <2>3 DEF Owned
  <1> QED
    BY <1>1, <1>2, <1>3, <1>4, <1>5, <1>6, <1>7, <1>8 DEF Handle

\* Every step keeps every lock owned.
LEMMA NextOwned == TypeOK /\ LockHasOwner /\ [Next]_vars => LockHasOwner'
  <1> SUFFICES ASSUME TypeOK, LockHasOwner, [Next]_vars, NEW u \in Uid
               PROVE  Owned(u)'
    BY DEF LockHasOwner, Owned
  <1>0. Owned(u)
    BY DEF LockHasOwner, Owned
  <1>1. ASSUME NEW c \in Conn, Request(c) \/ Handle(c) PROVE Owned(u)'
    BY <1>0, <1>1, RequestOwned, HandleOwned
  <1>2. CASE Environment
    <2>1. CASE \E v \in Uid : DaemonDetach(v)
      <3>1. PICK v \in Uid : DaemonDetach(v)
        BY <2>1
      <3>2. Locked(locks, u)' => locks'[u] = locks[u] /\ Locked(locks, u)
        BY <3>1, DropKeeps DEF DaemonDetach, Locked
      <3> QED
        BY <1>0, <3>1, <3>2 DEF DaemonDetach, Owned
    <2>2. CASE \/ \E v \in Uid, p \in Port : DaemonAttach(v, p)
               \/ \E v \in Uid : RescanPurge(v)
               \/ \E h \in Holder : ProcessDies(h)
               \/ \E c \in Conn : OrphanEnds(c)
      BY <1>0, <2>2 DEF DaemonAttach, RescanPurge, ProcessDies, OrphanEnds, Owned, Locked
    <2> QED
      BY <1>2, <2>1, <2>2 DEF Environment
  <1>3. CASE Sweep
    <2>1. Locked(locks, u)' => locks'[u] = locks[u] /\ Locked(locks, u)
      BY <1>3, DropKeeps DEF Sweep, Locked
    <2> QED
      BY <1>0, <1>3, <2>1 DEF Sweep, Owned
  <1>4. CASE UNCHANGED vars
    BY <1>0, <1>4 DEF vars, Owned, Locked
  <1> QED
    BY <1>1, <1>2, <1>3, <1>4 DEF Next

\* No lock is ever leaked: at every moment a locked board is in the
\* acquired_uids of the open connection the lock was granted to, whatever the
\* handlers, the sweep, the daemon's detaches and force_unlock do.
THEOREM NoLeakedLock == Spec => []LockHasOwner
  <1>1. Init => LockHasOwner
    BY DEF Init, LockHasOwner, Locked, EmptyTable, Unlocked
  <1> QED
    BY <1>1, ApiTypeCorrect, NextOwned, PTL DEF Spec

-----------------------------------------------------------------------------
(***************************************************************************)
(* ExclusiveUse, when clients are separate processes and nobody forces a   *)
(* lock, unplugs a board or dies.  A handler that is on its way to use a   *)
(* board, or uses it, holds its lock; one holder is one connection.  This  *)
(* much survives clients that hang up in the middle of a flash; that no    *)
(* pyocd is left behind does not, and takes an invariant of its own.       *)
(***************************************************************************)
Separate == \A c, d \in Conn : HolderOf[c] = HolderOf[d] => c = d

Busy(c) == conn[c].pc \in {"preflight", "flashing", "opening", "streaming",
                          "unwatched"}

UseHoldsLock ==
    /\ dead = {}
    /\ \A c \in Conn : Busy(c) => Releases(locks, conn[c].uid, HolderOf[c])

\* The step of one connection leaves the others at their steps and boards.
LEMMA OthersStay ==
    ASSUME TypeOK, NEW c \in Conn, NEW d \in Conn, c # d, Request(d) \/ Handle(d)
    PROVE  conn'[c].pc = conn[c].pc /\ conn'[c].uid = conn[c].uid
  <1>1. CASE ShutdownTarget(d)
    <2>1. conn'[c] = ShutIf(conn[c], conn[d].target = c)
      BY <1>1 DEF ShutdownTarget
    <2> QED
      BY <2>1 DEF ShutIf, TypeOK, ConnState
  <1>2. CASE Request(d) \/ (Handle(d) /\ ~ShutdownTarget(d))
    BY <1>2
    DEF Request, Handle, Connect, OpLock, OpUnlock, OpForceUnlock, BeginFlash,
        BeginStream, RecordConn, ForgetConn, StartFlash, FlashRaises, EndFlash, FlashLogFails, ReleaseFlashed,
        OpenStream, StreamCheck, PumpDies, EndStream, Cleanup, Goto, GotoAbout, TypeOK
  <1> QED
    BY <1>1, <1>2

\* The step of another connection leaves a busy one its lock.
LEMMA OthersKeepUse ==
    ASSUME TypeOK, Disturbance \subseteq {"hangup"}, Separate, NEW c \in Conn, NEW d \in Conn,
           c # d, Request(d) \/ Handle(d),
           Busy(c) => Releases(locks, conn[c].uid, HolderOf[c])
    PROVE  Busy(c)' => Releases(locks, conn[c].uid, HolderOf[c])'
  <1>1. HolderOf[c] # HolderOf[d]
    BY DEF Separate
  <1>2. conn'[c].pc = conn[c].pc /\ conn'[c].uid = conn[c].uid
    BY OthersStay
  <1>3. SUFFICES ASSUME Releases(locks, conn[c].uid, HolderOf[c])
                 PROVE  Releases(locks, conn[c].uid, HolderOf[c])'
    BY <1>2 DEF Busy
  <1>4. conn[c].uid \in Uid
    BY DEF TypeOK, ConnState
  <1>5. CASE UNCHANGED locks
    BY <1>2, <1>3, <1>5 DEF Releases, Locked
  <1>6. ASSUME NEW u \in Uid, NEW k \in Kind, OpLock(d, u, k)
        PROVE  Releases(locks, conn[c].uid, HolderOf[c])'
    <2>1. u # conn[c].uid
      BY <1>3, <1>6 DEF OpLock, CanAcquire, Releases
    <2>2. locks'[conn[c].uid] = locks[conn[c].uid]
      BY <1>4, <1>6, <2>1 DEF OpLock, Acquire, TypeOK
    <2> QED
      BY <1>2, <1>3, <2>2 DEF Releases, Locked
  <1>7. ASSUME NEW uids, Release(d, uids)
        PROVE  Releases(locks, conn[c].uid, HolderOf[c])'
    <2>1. locks'[conn[c].uid] = locks[conn[c].uid]
      BY <1>1, <1>3, <1>4, <1>7 DEF Release, Own, Drop, Releases, TypeOK
    <2> QED
      BY <1>2, <1>3, <2>1 DEF Releases, Locked
  <1>8. \A u \in Uid : ~OpForceUnlock(d, u)
    BY DEF OpForceUnlock
  <1>9. CASE Request(d)
    BY <1>5, <1>6, <1>7, <1>8, <1>9
    DEF Request, Connect, OpUnlock, BeginFlash, BeginStream
  <1>10. CASE Handle(d)
    BY <1>5, <1>7, <1>10
    DEF Handle, RecordConn, ForgetConn, ShutdownTarget, StartFlash, FlashRaises,
        EndFlash, FlashLogFails, ReleaseFlashed, OpenStream, StreamCheck, PumpDies, EndStream, Cleanup
  <1> QED
    BY <1>9, <1>10

\* A connection's own step makes it busy only under its lock, and keeps the
\* lock as long as it stays busy.
LEMMA OwnKeepsUse ==
    ASSUME TypeOK, Disturbance \subseteq {"hangup"}, NEW c \in Conn, Request(c) \/ Handle(c),
           Busy(c) => Releases(locks, conn[c].uid, HolderOf[c])
    PROVE  Busy(c)' => Releases(locks, conn[c].uid, HolderOf[c])'
  <1>1. CASE Request(c)
    <2>1. ASSUME NEW u \in Uid, BeginFlash(c, u) PROVE Releases(locks, conn[c].uid, HolderOf[c])'
      <3>1. conn'[c].uid = u
        BY <2>1 DEF BeginFlash, GotoAbout, TypeOK, ConnState
      <3> QED
        BY <2>1, <3>1, NoneIsNoKind DEF BeginFlash, Releases, Locked
    <2>2. ASSUME NEW u \in Uid, BeginStream(c, u) PROVE Releases(locks, conn[c].uid, HolderOf[c])'
      <3>1. conn'[c].uid = u
        BY <2>2 DEF BeginStream, TypeOK, ConnState
      <3> QED
        BY <2>2, <3>1 DEF BeginStream, Releases, Locked
    <2>3. CASE Connect(c)
      BY <2>3 DEF Connect, Goto, Busy, TypeOK, ConnState
    <2>4. ASSUME NEW u \in Uid, NEW k \in Kind, OpLock(c, u, k) PROVE ~Busy(c)'
      <3>1. conn'[c].pc = AfterLock(c, u)
        BY <2>4, ReplyType, GotoAboutType DEF OpLock
      <3> QED
        BY <3>1 DEF AfterLock, Reply, Busy
    <2>5. ASSUME NEW u \in Uid, OpUnlock(c, u) PROVE ~Busy(c)'
      <3>1. conn'[c].pc = AfterUnlock(c, u)
        BY <2>5, ReplyType, GotoAboutType DEF OpUnlock
      <3> QED
        BY <3>1 DEF AfterUnlock, Reply, Busy
    <2>6. \A u \in Uid : ~OpForceUnlock(c, u)
      BY DEF OpForceUnlock
    <2> QED
      BY <1>1, <2>1, <2>2, <2>3, <2>4, <2>5, <2>6 DEF Request
  <1>2. CASE Handle(c)
    <2>1. CASE StartFlash(c) \/ OpenStream(c) \/ PumpDies(c)
      <3>1. conn'[c].uid = conn[c].uid
        BY <2>1 DEF StartFlash, OpenStream, PumpDies, Goto, TypeOK, ConnState
      <3> QED
        BY <2>1, <3>1 DEF StartFlash, OpenStream, PumpDies, Busy, Releases, Locked
    <2>2. CASE StreamCheck(c)
      <3>1. conn'[c].uid = conn[c].uid
        BY <2>2 DEF StreamCheck, TypeOK, ConnState
      <3> QED
        BY <2>2, <3>1 DEF StreamCheck, Busy, Releases, Locked
    <2>3. ASSUME NEW pc, Goto(c, pc) PROVE conn'[c].pc = pc
      BY <2>3 DEF Goto, TypeOK, ConnState
    <2>4. CASE \/ RecordConn(c) \/ ForgetConn(c) \/ FlashRaises(c)
               \/ EndFlash(c) \/ FlashLogFails(c) \/ EndStream(c) \/ Cleanup(c)
      BY <2>3, <2>4
      DEF RecordConn, ForgetConn, FlashRaises, EndFlash, FlashLogFails, EndStream,
          Cleanup, Reply, Busy
    <2>5. CASE ShutdownTarget(c)
      BY <2>5, ShutdownPc DEF AfterShutdown, Reply, Busy
    <2> QED
      BY <1>2, <2>1, <2>2, <2>4, <2>5 DEF Handle
  <1> QED
    BY <1>1, <1>2

\* While nothing but hang-ups disturbs separate clients, every handler that
\* is busy with a board holds its lock.
LEMMA QuietUseHoldsLock ==
    ASSUME Disturbance \subseteq {"hangup"}, Separate
    PROVE  Spec => []UseHoldsLock
  <1>1. Init => UseHoldsLock
    BY DEF Init, UseHoldsLock, Busy, NewConn
  <1>2. TypeOK /\ UseHoldsLock /\ [Next]_vars => UseHoldsLock'
    <2> SUFFICES ASSUME TypeOK, UseHoldsLock, [Next]_vars
                 PROVE  UseHoldsLock'
      OBVIOUS
    <2>1. ASSUME NEW d \in Conn, Request(d) \/ Handle(d) PROVE UseHoldsLock'
      <3>1. dead' = dead
        BY <2>1
        DEF Request, Handle, Connect, OpLock, OpUnlock, OpForceUnlock, BeginFlash,
            BeginStream, RecordConn, ForgetConn, ShutdownTarget, StartFlash,
            FlashRaises, EndFlash, FlashLogFails, ReleaseFlashed, OpenStream, StreamCheck, PumpDies, EndStream, Cleanup
      <3> QED
        BY <2>1, <3>1, OthersKeepUse, OwnKeepsUse DEF UseHoldsLock
    <2>2. CASE Environment
      BY <2>2 DEF Environment, DaemonAttach, DaemonDetach, RescanPurge, ProcessDies, OrphanEnds,
                  UseHoldsLock, Busy, Releases, Locked
    <2>3. CASE Sweep
      BY <2>3 DEF Sweep, DeadHeld, UseHoldsLock
    <2>4. CASE UNCHANGED vars
      BY <2>4 DEF vars, UseHoldsLock, Busy, Releases, Locked
    <2> QED
      BY <2>1, <2>2, <2>3, <2>4 DEF Next
  <1> QED
    BY <1>1, <1>2, ApiTypeCorrect, PTL DEF Spec

\* Only a stream's connection is ever shut down when nobody forces a lock, and
\* so no flash loses its client and no pyocd is left behind.
NothingLeftBehind ==
    /\ orphan = {}
    /\ \A c \in Conn :
          /\ conn[c].pc # "shutting"
          /\ conn[c].shut
               => conn[c].pc \in {"streaming", "unwatched", "closing", "closed"}

\* Requests shut no connection, if none is a force_unlock.
LEMMA RequestLeavesNothing ==
    ASSUME TypeOK, Disturbance = {}, NothingLeftBehind, NEW d \in Conn, Request(d)
    PROVE  NothingLeftBehind'
  <1> USE DEF board
  <1>1. \A u \in Uid : ~OpForceUnlock(d, u)
    BY DEF OpForceUnlock
  <1>2. orphan' = {}
    BY <1>1 DEF Request, Connect, OpLock, OpUnlock, BeginFlash, BeginStream,
                NothingLeftBehind
  <1>3. conn[d].pc \in {"new", "ready"} /\ ~conn[d].shut
    BY <1>1 DEF Request, Connect, OpLock, OpUnlock, BeginFlash, BeginStream,
                NothingLeftBehind
  <1>4. \A c \in Conn \ {d} : conn'[c] = conn[c]
    BY <1>1 DEF Request, Connect, OpLock, OpUnlock, BeginFlash, BeginStream,
                Goto, GotoAbout, TypeOK
  <1>5. conn'[d].shut = conn[d].shut /\ conn'[d].pc # "shutting"
    <2>1. ASSUME NEW u \in Uid, NEW pc, GotoAbout(d, u, pc)
          PROVE  conn'[d].shut = conn[d].shut /\ conn'[d].pc = pc
      BY <2>1 DEF GotoAbout, TypeOK, ConnState
    <2>2. CASE Connect(d)
      BY <2>2 DEF Connect, Goto, TypeOK, ConnState
    <2>3. CASE \E u \in Uid, k \in Kind : OpLock(d, u, k)
      BY <2>1, <2>3 DEF OpLock, AfterLock, Reply
    <2>4. CASE \E u \in Uid : OpUnlock(d, u) \/ BeginFlash(d, u)
      BY <2>1, <2>4 DEF OpUnlock, BeginFlash, AfterUnlock, Reply
    <2>5. CASE \E u \in Uid : BeginStream(d, u)
      BY <2>5 DEF BeginStream, AfterStreamAck, TypeOK, ConnState
    <2> QED
      BY <1>1, <2>2, <2>3, <2>4, <2>5 DEF Request
  <1> QED
    BY <1>2, <1>3, <1>4, <1>5 DEF NothingLeftBehind

\* Handlers shut only streams, and leave a pyocd behind only when their
\* client is gone.
LEMMA HandleLeavesNothing ==
    ASSUME TypeOK, Disturbance = {}, dead = {}, NothingLeftBehind,
           NEW d \in Conn, Handle(d)
    PROVE  NothingLeftBehind'
  <1> USE DEF board
  <1>1. ~ShutdownTarget(d) /\ ~FlashLogFails(d)
    BY DEF ShutdownTarget, FlashLogFails, NothingLeftBehind
  <1>2. orphan' = {}
    BY <1>1 DEF Handle, RecordConn, ForgetConn, StartFlash, FlashRaises, EndFlash,
                OpenStream, StreamCheck, PumpDies, EndStream, Cleanup, NothingLeftBehind
  <1>3. \A c \in Conn \ {d} : conn'[c] = conn[c]
    BY <1>1 DEF Handle, RecordConn, ForgetConn, StartFlash, FlashRaises, EndFlash,
                OpenStream, StreamCheck, PumpDies, EndStream, Cleanup, Goto, TypeOK
  <1>4. CASE StreamCheck(d)
    <2>1. conn'[d].pc = "streaming"
      BY <1>4 DEF StreamCheck, TypeOK, ConnState
    <2> QED
      BY <1>2, <1>3, <2>1 DEF NothingLeftBehind
  <1>5. CASE ~StreamCheck(d)
    <2>1. conn'[d].shut = conn[d].shut
      BY <1>1, <1>5
      DEF Handle, RecordConn, ForgetConn, StartFlash, FlashRaises, EndFlash,
          OpenStream, PumpDies, EndStream, Cleanup, Goto, TypeOK, ConnState
    <2>2. /\ conn'[d].pc # "shutting"
          /\ conn[d].shut
               => conn'[d].pc \in {"streaming", "unwatched", "closing", "closed"}
      BY <1>1, <1>5
      DEF Handle, RecordConn, ForgetConn, StartFlash, FlashRaises, EndFlash, Reply,
          OpenStream, PumpDies, EndStream, Cleanup, Goto, TypeOK, ConnState,
          NothingLeftBehind
    <2> QED
      BY <1>2, <1>3, <2>1, <2>2 DEF NothingLeftBehind
  <1> QED
    BY <1>4, <1>5

\* Clients that are left alone and wait for their flash leave no pyocd behind.
LEMMA QuietLeavesNothing ==
    ASSUME Disturbance = {}, Separate
    PROVE  Spec => []NothingLeftBehind
  <1>1. Init => NothingLeftBehind
    BY DEF Init, NothingLeftBehind, NewConn
  <1>2. TypeOK /\ UseHoldsLock /\ NothingLeftBehind /\ [Next]_vars => NothingLeftBehind'
    <2> SUFFICES ASSUME TypeOK, UseHoldsLock, NothingLeftBehind, [Next]_vars
                 PROVE  NothingLeftBehind'
      OBVIOUS
    <2>1. ASSUME NEW d \in Conn, Request(d) \/ Handle(d) PROVE NothingLeftBehind'
      BY <2>1, RequestLeavesNothing, HandleLeavesNothing DEF UseHoldsLock
    <2>2. CASE Environment \/ Sweep \/ UNCHANGED vars
      BY <2>2 DEF Environment, DaemonAttach, DaemonDetach, RescanPurge, ProcessDies,
                  OrphanEnds, Sweep, vars, board, NothingLeftBehind
    <2> QED
      BY <2>1, <2>2 DEF Next
  <1>3. Spec => []UseHoldsLock
    BY QuietUseHoldsLock
  <1> QED
    BY <1>1, <1>2, <1>3, ApiTypeCorrect, PTL DEF Spec

\* The handlers of separate client processes never use one board at the same
\* time, locally or from remote hosts, also when clients hang up in the middle
\* of a flash: the check-then-use gaps of flash and stream, which run outside
\* the shared lock, are safe among themselves.  A second user of a board can
\* only be the pyocd of a flash whose client hung up.
THEOREM HandlersAreExclusive ==
    ASSUME Disturbance \subseteq {"hangup"}, Separate
    PROVE  Spec => [](\A u \in Uid, c, d \in Conn \ orphan :
                         Using(c, u) /\ Using(d, u) => c = d)
  <1>1. UseHoldsLock => \A u \in Uid, c, d \in Conn \ orphan :
                           Using(c, u) /\ Using(d, u) => c = d
    BY DEF UseHoldsLock, Using, Busy, Releases, Separate
  <1> QED
    BY <1>1, QuietUseHoldsLock, PTL

\* Separate client processes that are left alone, and that wait for the end of
\* the flash they asked for, never use one board at the same time: no handler
\* does beside another, nor beside a pyocd that outlived its handler.
THEOREM QuietUseIsExclusive ==
    ASSUME Disturbance = {}, Separate
    PROVE  Spec => []ExclusiveUse
  <1>1. UseHoldsLock /\ NothingLeftBehind => ExclusiveUse
    BY DEF UseHoldsLock, NothingLeftBehind, ExclusiveUse, Using, Busy, Releases, Separate
  <1>2. Spec => []UseHoldsLock
    BY QuietUseHoldsLock
  <1> QED
    BY <1>1, <1>2, QuietLeavesNothing, PTL

-----------------------------------------------------------------------------
(***************************************************************************)
(* Who releases a lock, and BoardUse.                                      *)
(***************************************************************************)
\* Among separate processes, the lock a connection can release is its own.
LEMMA ReleasesOwn ==
    ASSUME Separate, LockHasOwner, NEW c \in Conn, NEW u \in Uid,
           Releases(locks, u, HolderOf[c])
    PROVE  owner[u] = c
  BY DEF Separate, LockHasOwner, Releases

\* What a release takes away was its connection's.
LEMMA ReleaseTakesOwn ==
    ASSUME TypeOK, Separate, LockHasOwner, NEW c \in Conn, NEW uids,
           Release(c, uids), NEW u \in Uid
    PROVE  \/ locks'[u] = locks[u]
           \/ Locked(locks, u) /\ owner[u] = c /\ ~Locked(locks, u)'
  <1>1. CASE u \in Own(c, uids)
    <2>1. owner[u] = c /\ Locked(locks, u)
      BY <1>1, ReleasesOwn DEF Own, Releases
    <2>2. locks'[u] = Unlocked
      BY <1>1 DEF Release, Drop, TypeOK
    <2> QED
      BY <2>1, <2>2 DEF Locked, Unlocked
  <1>2. CASE u \notin Own(c, uids)
    BY <1>2 DEF Release, Drop, TypeOK
  <1> QED
    BY <1>1, <1>2

\* Connections of separate processes release only the locks they were
\* granted, whatever forces, detaches, deaths and sweeps come between: the
\* finally of _handle_connection releases "exactly the locks this connection
\* acquired".
THEOREM SeparateReleasesAreOwn ==
    ASSUME Separate
    PROVE  Spec => ReleasedByItsConnection
  <1> DEFINE A == \A u \in Uid, c \in Conn :
                     /\ Locked(locks, u) /\ ~Locked(locks, u)'
                     /\ \/ Cleanup(c) \/ EndStream(c) \/ EndFlash(c) \/ FlashLogFails(c)
                        \/ \E v \in Uid : OpUnlock(c, v)
                     => c = owner[u]
  <1>1. TypeOK /\ LockHasOwner => A
    <2> SUFFICES ASSUME TypeOK, LockHasOwner, NEW u \in Uid, NEW c \in Conn,
                        Locked(locks, u), ~Locked(locks, u)',
                        \/ Cleanup(c) \/ EndStream(c) \/ EndFlash(c) \/ FlashLogFails(c)
                        \/ \E v \in Uid : OpUnlock(c, v)
                 PROVE  c = owner[u]
      OBVIOUS
    <2>1. \E uids \in SUBSET Uid : Release(c, uids)
      BY DEF Cleanup, EndStream, EndFlash, FlashLogFails, ReleaseFlashed, OpUnlock, TypeOK, ConnState
    <2>2. locks'[u] # locks[u]
      BY DEF Locked
    <2> QED
      BY <2>1, <2>2, ReleaseTakesOwn
  <1>2. TypeOK /\ LockHasOwner => [A]_vars
    BY <1>1
  <1>3. Spec => [][A]_vars
    BY <1>2, ApiTypeCorrect, NoLeakedLock, PTL
  <1> QED
    BY <1>3 DEF ReleasedByItsConnection

\* A step of connection d is a step of BoardUse for every board: it moves no
\* other connection, so only d may begin or end its use, and only locks of
\* its own come and go.
LEMMA ConnIsBoardStep ==
    ASSUME Separate, Disturbance = {}, TypeOK, LockHasOwner, UseHoldsLock,
           LockHasOwner', UseHoldsLock', orphan = {}, orphan' = {},
           NEW d \in Conn, Request(d) \/ Handle(d), NEW u \in Uid
    PROVE  Boards!BoardStep(u)
  <1> USE DEF Boards!BoardStep
  <1>1. /\ Granted[u] = IF Locked(locks, u) THEN owner[u] ELSE NoConn
        /\ Granted'[u] = IF Locked(locks, u)' THEN owner'[u] ELSE NoConn
        /\ UsedBy[u] = {c \in Conn : Using(c, u)}
        /\ UsedBy'[u] = {c \in Conn : Using(c, u)'}
    BY DEF Granted, UsedBy
  <1>2. \A c \in Conn : Using(c, u) => Locked(locks, u) /\ owner[u] = c
    BY ReleasesOwn DEF UseHoldsLock, Using, Busy, Releases
  <1>3. \A c \in Conn : Using(c, u)' => Locked(locks, u)' /\ owner'[u] = c
    BY DEF UseHoldsLock, Using, Busy, Releases, LockHasOwner, Separate
  <1>4. \A c \in Conn : c # d => (Using(c, u)' <=> Using(c, u))
    BY OthersStay DEF Using
  <1>5. CASE locks'[u] = locks[u] /\ owner'[u] = owner[u]
    <2>1. Granted'[u] = Granted[u]
      BY <1>1, <1>5 DEF Locked
    <2>2. CASE Using(d, u)'
      <3>1. UsedBy'[u] = UsedBy[u] \cup {d} /\ Granted[u] = d
        BY <1>1, <1>3, <1>4, <2>1, <2>2
      <3> QED
        BY <2>1, <3>1 DEF Boards!Begin
    <2>3. CASE ~Using(d, u)'
      <3>1. UsedBy'[u] = UsedBy[u] \ {d}
        BY <1>1, <1>4, <2>3
      <3> QED
        BY <2>1, <3>1 DEF Boards!End
    <2> QED
      BY <2>2, <2>3
  <1>6. CASE Locked(locks, u) /\ owner[u] = d /\ ~Locked(locks, u)'
    <2>1. Granted[u] = d /\ Granted'[u] = NoConn
      BY <1>1, <1>6
    <2>2. UsedBy'[u] = UsedBy[u] \ {d}
      BY <1>1, <1>2, <1>3, <1>6
    <2> QED
      BY <2>1, <2>2 DEF Boards!GiveBack
  <1>7. CASE \E k \in Kind : OpLock(d, u, k)
    <2>1. ~Locked(locks, u) /\ owner'[u] = d /\ conn[d].pc = "ready"
      BY <1>7 DEF OpLock, CanAcquire, TypeOK
    <2>2. Granted[u] = NoConn /\ UsedBy[u] = {}
      BY <1>1, <1>2, <2>1
    <2>3. locks'[u].kind \in Kind
      BY <1>7 DEF OpLock, Acquire, TypeOK
    <2>4. Granted'[u] = d
      BY <1>1, <2>1, <2>3, NoneIsNoKind DEF Locked
    <2>5. conn'[d].pc = AfterLock(d, u)
      BY <1>7, ReplyType, GotoAboutType DEF OpLock
    <2>6. ~Using(d, u)'
      BY <2>5 DEF Using, AfterLock, Reply
    <2>7. UsedBy'[u] = {}
      BY <1>1, <1>4, <2>2, <2>6
    <2> QED
      BY <2>2, <2>4, <2>7 DEF Boards!Take
  <1>8. ASSUME NEW v \in Uid, NEW k \in Kind, OpLock(d, v, k), v # u
        PROVE  locks'[u] = locks[u] /\ owner'[u] = owner[u]
    BY <1>8 DEF OpLock, Acquire, TypeOK
  <1>9. ASSUME NEW uids, Release(d, uids), UNCHANGED owner
        PROVE  \/ locks'[u] = locks[u] /\ owner'[u] = owner[u]
               \/ Locked(locks, u) /\ owner[u] = d /\ ~Locked(locks, u)'
    BY <1>9, ReleaseTakesOwn
  <1>10. CASE Request(d)
    <2>1. \A v \in Uid : ~OpForceUnlock(d, v)
      BY DEF OpForceUnlock
    <2>2. \/ \E v \in Uid, k \in Kind : OpLock(d, v, k)
          \/ UNCHANGED <<locks, owner>>
          \/ \E uids : Release(d, uids) /\ UNCHANGED owner
      BY <1>10, <2>1 DEF Request, Connect, OpUnlock, BeginFlash, BeginStream
    <2> QED
      BY <1>5, <1>6, <1>7, <1>8, <1>9, <2>2
  <1>11. CASE Handle(d)
    <2>1. \/ UNCHANGED <<locks, owner>>
          \/ \E uids : Release(d, uids) /\ UNCHANGED owner
      BY <1>11
      DEF Handle, RecordConn, ForgetConn, ShutdownTarget, StartFlash, FlashRaises,
          EndFlash, FlashLogFails, ReleaseFlashed, OpenStream, StreamCheck, PumpDies, EndStream, Cleanup
    <2> QED
      BY <1>5, <1>6, <1>9, <2>1
  <1> QED
    BY <1>10, <1>11

\* Undisturbed connections of separate processes, whose clients wait for the
\* end of their flash, keep the promise of the lock: one is granted only on a
\* board that nobody is still flashing or streaming, and its use is over when
\* it is given back (_op_flash, _op_stream and the finally of
\* _handle_connection).
THEOREM QuietServersImplementBoardUse ==
    ASSUME Disturbance = {}, Separate
    PROVE  Spec => ImplementsBoardUse
  <1>1. Init => Boards!Init
    BY DEF Init, Boards!Init, Granted, UsedBy, Using, Locked, EmptyTable, Unlocked, NewConn
  <1> DEFINE J == TypeOK /\ LockHasOwner /\ UseHoldsLock /\ NothingLeftBehind
  <1>2. J /\ J' /\ [Next]_vars => [Boards!Next]_(Boards!vars)
    <2> SUFFICES ASSUME J, J', [Next]_vars
                 PROVE  [Boards!Next]_(Boards!vars)
      OBVIOUS
    <2>1. /\ Granted' \in [Uid -> Conn \cup {NoConn}]
          /\ UsedBy' \in [Uid -> SUBSET Conn]
      BY DEF TypeOK, Granted, UsedBy
    <2>2. ASSUME NEW d \in Conn, Request(d) \/ Handle(d)
          PROVE  Boards!Next
      BY <2>1, <2>2, ConnIsBoardStep DEF Boards!Next, NothingLeftBehind
    <2>3. CASE UNCHANGED <<locks, owner, conn, orphan>>
      BY <2>3 DEF Granted, UsedBy, Using, Locked, Boards!vars
    <2>4. CASE Environment
      BY <2>3, <2>4 DEF Environment, DaemonAttach, DaemonDetach, RescanPurge,
                        ProcessDies, OrphanEnds, NothingLeftBehind
    <2>5. ~Sweep
      BY DEF Sweep, DeadHeld, UseHoldsLock
    <2>6. CASE UNCHANGED vars
      BY <2>3, <2>6 DEF vars
    <2> QED
      BY <2>2, <2>4, <2>5, <2>6 DEF Next
  <1>3. Spec => []J
    <2>1. Spec => []UseHoldsLock
      BY QuietUseHoldsLock
    <2> QED
      BY <2>1, ApiTypeCorrect, NoLeakedLock, QuietLeavesNothing, PTL
  <1> QED
    BY <1>1, <1>2, <1>3, PTL DEF Spec, ImplementsBoardUse, Boards!Spec
=============================================================================

------------------------------- MODULE ApiServer -------------------------------
(***************************************************************************)
(* The registry's control plane: the Unix-socket server (registry/api.py)  *)
(* and the TCP server (registry/remote_api.py) over their shared ops       *)
(* (registry/_api_base.py), as concurrent connection-handler threads on    *)
(* one LockManager.                                                        *)
(*                                                                         *)
(* A section under the shared RLock is one action.  What the handlers do   *)
(* between two such sections (port I/O, the flash itself, writing the      *)
(* reply, shutting a socket down) is where they interleave.  Requests that *)
(* are refused change nothing and are left out.  Boards are the local ones *)
(* a USB scan lists; the daemon's effect on them is an environment here.   *)
(***************************************************************************)
EXTENDS Locks, FiniteSets

CONSTANTS
    Uid, Port, NoPort,
    Conn,           \* connections, each used once
    RemoteConn,     \* the ones accepted by remote_api
    HolderOf,       \* Conn -> Holder: local ones of a process share one
    NoConn,
    Disturbance     \* which of "force", "detach", "death" and "hangup" (a
                    \* client that leaves while it is being flashed) may happen

ASSUME UidNonempty == Uid # {}
ASSUME NoPortIsNoPort == NoPort \notin Port
ASSUME NoConnIsNoConn == NoConn \notin Conn
ASSUME RemoteIsConn == RemoteConn \subseteq Conn
ASSUME HolderOfType == HolderOf \in [Conn -> Holder]
ASSUME SessionIsUnique ==
    \A c \in RemoteConn, d \in Conn : HolderOf[c] = HolderOf[d] => c = d

LocalConn == Conn \ RemoteConn

VARIABLES
    port,       \* Uid -> the port of an attached board, or NoPort
    known,      \* uids with a device row
    orphan,     \* connections whose pyocd outlived their flash
    locks,      \* LockManager._locks
    dead,       \* local holders whose process is gone
    acquired,   \* Conn -> acquired_uids of its handler
    uidConn,    \* RegistryAPIServer._uid_connections
    conn,       \* Conn -> where its handler is
    owner       \* history: the connection each lock was granted to

board == <<port, known, orphan>>
vars == <<port, known, orphan, locks, dead, acquired, uidConn, conn, owner>>

(***************************************************************************)
(* A handler waits for a request ("ready"), is between the two locked      *)
(* sections of a lock or unlock ("recording", "forgetting"), is about to   *)
(* shut a holder's socket ("shutting"), flashes ("preflight", "flashing"), *)
(* streams ("opening", "streaming", and "unwatched" once the thread that   *)
(* reads the port has ended) or unwinds to its finally ("closing").        *)
(***************************************************************************)
Pcs == {"new", "ready", "recording", "forgetting", "shutting", "preflight",
        "flashing", "opening", "streaming", "unwatched", "closing", "closed"}

ConnState == [pc: Pcs, uid: Uid, port: Port \cup {NoPort},
              target: Conn \cup {NoConn}, shut: BOOLEAN]

NewConn == [pc |-> "new", uid |-> CHOOSE u \in Uid : TRUE, port |-> NoPort,
            target |-> NoConn, shut |-> FALSE]

Init ==
    /\ port = [u \in Uid |-> NoPort]
    /\ known = {}
    /\ orphan = {}
    /\ locks = EmptyTable(Uid)
    /\ dead = {}
    /\ acquired = [c \in Conn |-> {}]
    /\ uidConn = [u \in Uid |-> NoConn]
    /\ conn = [c \in Conn |-> NewConn]
    /\ owner = [u \in Uid |-> NoConn]

-----------------------------------------------------------------------------
\* Writing the reply fails on a socket that was shut down, which unwinds the
\* handler; a request read before that is still carried out.
Reply(c) == IF conn[c].shut THEN "closing" ELSE "ready"

Goto(c, pc) == conn' = [conn EXCEPT ![c].pc = pc]
GotoAbout(c, u, pc) ==
    conn' = [conn EXCEPT ![c] = [conn[c] EXCEPT !.uid = u, !.pc = pc]]

\* LockManager.release(u, holder of c): a no-op on anyone else's lock.
Own(c, uids) == {u \in uids : Releases(locks, u, HolderOf[c])}
Release(c, uids) == locks' = Drop(locks, Own(c, uids))

Connect(c) ==
    /\ conn[c].pc = "new"
    /\ HolderOf[c] \notin dead
    /\ Goto(c, "ready")
    /\ UNCHANGED <<board, locks, dead, acquired, uidConn, owner>>

\* _op_lock; only a newly acquired uid is recorded, by local handlers.
AfterLock(c, u) ==
    IF c \in LocalConn /\ u \notin acquired[c] THEN "recording" ELSE Reply(c)

OpLock(c, u, kind) ==
    /\ conn[c].pc = "ready"
    /\ u \in known /\ port[u] # NoPort
    /\ CanAcquire(locks, u)
    /\ locks' = Acquire(locks, u, kind, HolderOf[c])
    /\ acquired' = [acquired EXCEPT ![c] = @ \cup {u}]
    /\ owner' = [owner EXCEPT ![u] = c]
    /\ GotoAbout(c, u, AfterLock(c, u))
    /\ UNCHANGED <<board, dead, uidConn>>

\* The second locked section of a local lock request.
RecordConn(c) ==
    /\ conn[c].pc = "recording"
    /\ uidConn' = [uidConn EXCEPT ![conn[c].uid] = c]
    /\ Goto(c, Reply(c))
    /\ UNCHANGED <<board, locks, dead, acquired, owner>>

AfterUnlock(c, u) ==
    IF c \in LocalConn /\ u \in acquired[c] THEN "forgetting" ELSE Reply(c)

OpUnlock(c, u) ==
    /\ conn[c].pc = "ready"
    /\ u \in known
    /\ Release(c, {u})
    /\ acquired' = [acquired EXCEPT ![c] = @ \ {u}]
    /\ GotoAbout(c, u, AfterUnlock(c, u))
    /\ UNCHANGED <<board, dead, uidConn, owner>>

\* The second locked section of a local unlock request.
ForgetConn(c) ==
    /\ conn[c].pc = "forgetting"
    /\ uidConn' = [uidConn EXCEPT ![conn[c].uid] = NoConn]
    /\ Goto(c, Reply(c))
    /\ UNCHANGED <<board, locks, dead, acquired, owner>>

\* The locked section of _op_force_unlock, on the Unix socket only.
OpForceUnlock(c, u) ==
    /\ "force" \in Disturbance
    /\ c \in LocalConn
    /\ conn[c].pc = "ready"
    /\ u \in known
    /\ locks' = Drop(locks, {u})
    /\ uidConn' = [uidConn EXCEPT ![u] = NoConn]
    /\ conn' = [conn EXCEPT ![c] =
                  [conn[c] EXCEPT !.target = uidConn[u], !.pc = "shutting"]]
    /\ UNCHANGED <<board, dead, acquired, owner>>

\* conn.shutdown(SHUT_RDWR), an ignored OSError on one already closed; c
\* then replies, unless it has just shut itself.
AfterShutdown(c) == IF conn[c].target = c THEN "closing" ELSE Reply(c)
ShutIf(state, condition) == [state EXCEPT !.shut = @ \/ condition]

ShutdownTarget(c) ==
    /\ conn[c].pc = "shutting"
    /\ conn' = [d \in Conn |->
                  IF d = c
                    THEN ShutIf([conn[c] EXCEPT !.target = NoConn,
                                                !.pc = AfterShutdown(c)],
                                conn[c].target = c)
                    ELSE ShutIf(conn[d], conn[c].target = d)]
    /\ UNCHANGED <<board, locks, dead, acquired, uidConn, owner>>
-----------------------------------------------------------------------------
(***************************************************************************)
(* flash: the request's locked precheck, FlashOp.flash_hex's own check     *)
(* that some flash lock is held (local only, and outside the shared lock), *)
(* pyocd, and the locked section that releases.                            *)
(***************************************************************************)
BeginFlash(c, u) ==
    /\ conn[c].pc = "ready"
    /\ port[u] # NoPort
    /\ locks[u] = [kind |-> "flash", holder |-> HolderOf[c]]
    /\ GotoAbout(c, u, "preflight")
    /\ UNCHANGED <<board, locks, dead, acquired, uidConn, owner>>

StartFlash(c) ==
    /\ conn[c].pc = "preflight"
    /\ c \in LocalConn => locks[conn[c].uid].kind = "flash"
    /\ Goto(c, "flashing")
    /\ UNCHANGED <<board, locks, dead, acquired, uidConn, owner>>

\* FlashLockNotHeldError, and the TypeError of a HexValidationError built
\* without its reason, reach no handler and unwind the connection.
FlashRaises(c) ==
    /\ conn[c].pc = "preflight"
    /\ c \in LocalConn
    /\ Goto(c, "closing")
    /\ UNCHANGED <<board, locks, dead, acquired, uidConn, owner>>

\* The locked section that follows a flash, however it went.
ReleaseFlashed(c) ==
    LET u == conn[c].uid
    IN  /\ Release(c, {u})
        /\ acquired' = [acquired EXCEPT ![c] = @ \ {u}]
        /\ uidConn' = IF c \in LocalConn THEN [uidConn EXCEPT ![u] = NoConn]
                      ELSE uidConn
        /\ UNCHANGED <<port, known, dead, owner>>

\* pyocd has ended, or a hex file was refused in time.
EndFlash(c) ==
    /\ conn[c].pc \in {"preflight", "flashing"}
    /\ ReleaseFlashed(c)
    /\ Goto(c, Reply(c))
    /\ UNCHANGED orphan

\* A line of pyocd's output cannot be written to a client that is gone.  The
\* exception leaves the loop that watches pyocd, which nobody kills then, and
\* is taken for the flash's result; the reply cannot be written either.
FlashLogFails(c) ==
    /\ conn[c].pc = "flashing"
    /\ conn[c].shut \/ HolderOf[c] \in dead \/ "hangup" \in Disturbance
    /\ ReleaseFlashed(c)
    /\ Goto(c, "closing")
    /\ orphan' = orphan \cup {c}

\* The pyocd that was left behind ends, in its own time.
OrphanEnds(c) ==
    /\ c \in orphan
    /\ orphan' = orphan \ {c}
    /\ UNCHANGED <<port, known, locks, dead, acquired, uidConn, conn, owner>>

(***************************************************************************)
(* stream: _op_stream_precheck, the port open, the pump and its one-second *)
(* attachment check, and the release on every way out.                     *)
(***************************************************************************)
AfterStreamAck(c) == IF conn[c].shut THEN "closing" ELSE "opening"

\* Faulty variant: any holder's lock will do.
BeginStreamAnyHolder(c, u) ==
    /\ conn[c].pc = "ready"
    /\ locks[u].kind \in {"serial", "relay"}
    /\ port[u] # NoPort
    /\ conn' = [conn EXCEPT ![c] =
                  [conn[c] EXCEPT !.uid = u, !.port = port[u],
                                  !.pc = AfterStreamAck(c)]]
    /\ UNCHANGED <<board, locks, dead, acquired, uidConn, owner>>

BeginStream(c, u) ==
    /\ conn[c].pc = "ready"
    /\ Releases(locks, u, HolderOf[c])
    /\ locks[u].kind \in {"serial", "relay"}
    /\ port[u] # NoPort
    /\ conn' = [conn EXCEPT ![c] =
                  [conn[c] EXCEPT !.uid = u, !.port = port[u],
                                  !.pc = AfterStreamAck(c)]]
    /\ UNCHANGED <<board, locks, dead, acquired, uidConn, owner>>

OpenStream(c) ==
    /\ conn[c].pc = "opening"
    /\ Goto(c, "streaming")
    /\ UNCHANGED <<board, locks, dead, acquired, uidConn, owner>>

StreamStillValid(c) == port[conn[c].uid] = conn[c].port

\* Faulty variant: only a purged row ends the stream.
StreamCheckRowOnly(c) ==
    /\ conn[c].pc = "streaming"
    /\ ~conn[c].shut
    /\ conn[c].uid \notin known
    /\ conn' = [conn EXCEPT ![c].shut = TRUE]
    /\ UNCHANGED <<board, locks, dead, acquired, uidConn, owner>>

StreamCheck(c) ==
    /\ conn[c].pc = "streaming"
    /\ ~conn[c].shut
    /\ ~StreamStillValid(c)
    /\ conn' = [conn EXCEPT ![c].shut = TRUE]
    /\ UNCHANGED <<board, locks, dead, acquired, uidConn, owner>>

\* A read of the port or a send to the client raises: the thread ends and
\* with it the attachment check, while the handler stays in its recv.
PumpDies(c) ==
    /\ conn[c].pc = "streaming"
    /\ Goto(c, "unwatched")
    /\ UNCHANGED <<board, locks, dead, acquired, uidConn, owner>>

\* Faulty variant: the lock is dropped from acquired_uids only.
EndStreamKeepsLock(c) ==
    /\ conn[c].pc \in {"opening", "streaming", "unwatched"}
    /\ acquired' = [acquired EXCEPT ![c] = @ \ {conn[c].uid}]
    /\ Goto(c, "closing")
    /\ UNCHANGED <<board, locks, dead, uidConn, owner>>

\* The port could not be opened, or the session ended.
EndStream(c) ==
    /\ conn[c].pc \in {"opening", "streaming", "unwatched"}
    /\ Release(c, {conn[c].uid})
    /\ acquired' = [acquired EXCEPT ![c] = @ \ {conn[c].uid}]
    /\ Goto(c, "closing")
    /\ UNCHANGED <<board, dead, uidConn, owner>>

\* Faulty variant: the release is in the except, not in the finally.
CleanupOnErrorOnly(c) ==
    /\ conn[c].pc = "closing"
    /\ Release(c, acquired[c])
    /\ acquired' = [acquired EXCEPT ![c] = {}]
    /\ uidConn' = [u \in Uid |-> IF c \in LocalConn /\ u \in acquired[c]
                                   THEN NoConn ELSE uidConn[u]]
    /\ Goto(c, "closed")
    /\ UNCHANGED <<board, dead, owner>>

\* _handle_connection's finally, after EOF or an exception.
Cleanup(c) ==
    /\ conn[c].pc \in {"ready", "closing"}
    /\ Release(c, acquired[c])
    /\ acquired' = [acquired EXCEPT ![c] = {}]
    /\ uidConn' = [u \in Uid |-> IF c \in LocalConn /\ u \in acquired[c]
                                   THEN NoConn ELSE uidConn[u]]
    /\ Goto(c, "closed")
    /\ UNCHANGED <<board, dead, owner>>
-----------------------------------------------------------------------------
(***************************************************************************)
(* The daemon's scans and purges, client processes, and the sweep thread.  *)
(* The TCP server's own sweep is left out: it looks for locks of sessions  *)
(* that are over, and LockHasOwner shows there are none.                   *)
(***************************************************************************)
DaemonAttach(u, p) ==
    /\ port[u] = NoPort
    /\ \A v \in Uid : port[v] # p
    /\ port' = [port EXCEPT ![u] = p]
    /\ known' = known \cup {u}
    /\ UNCHANGED <<orphan, locks, dead, acquired, uidConn, conn, owner>>

DaemonDetach(u) ==
    /\ "detach" \in Disturbance
    /\ port[u] # NoPort
    /\ port' = [port EXCEPT ![u] = NoPort]
    /\ locks' = Drop(locks, {u})
    /\ UNCHANGED <<known, orphan, dead, acquired, uidConn, conn, owner>>

RescanPurge(u) ==
    /\ u \in known
    /\ port[u] = NoPort
    /\ ~Locked(locks, u)
    /\ known' = known \ {u}
    /\ UNCHANGED <<port, orphan, locks, dead, acquired, uidConn, conn, owner>>

ProcessDies(h) ==
    /\ "death" \in Disturbance
    /\ h \in {HolderOf[c] : c \in LocalConn} \ dead
    /\ dead' = dead \cup {h}
    /\ UNCHANGED <<board, locks, acquired, uidConn, conn, owner>>

Sweep ==
    LET released == DeadHeld(locks, dead)
    IN  /\ released # {}
        /\ locks' = Drop(locks, released)
        /\ uidConn' = [u \in Uid |-> IF u \in released THEN NoConn ELSE uidConn[u]]
        /\ UNCHANGED <<board, dead, acquired, conn, owner>>
-----------------------------------------------------------------------------
Request(c) ==
    \/ Connect(c)
    \/ \E u \in Uid, k \in Kind : OpLock(c, u, k)
    \/ \E u \in Uid : OpUnlock(c, u) \/ OpForceUnlock(c, u)
                        \/ BeginFlash(c, u) \/ BeginStream(c, u)

Handle(c) ==
    \/ RecordConn(c) \/ ForgetConn(c) \/ ShutdownTarget(c)
    \/ StartFlash(c) \/ FlashRaises(c) \/ EndFlash(c) \/ FlashLogFails(c)
    \/ OpenStream(c) \/ StreamCheck(c) \/ PumpDies(c) \/ EndStream(c)
    \/ Cleanup(c)

Environment ==
    \/ \E u \in Uid, p \in Port : DaemonAttach(u, p)
    \/ \E u \in Uid : DaemonDetach(u) \/ RescanPurge(u)
    \/ \E h \in Holder : ProcessDies(h)
    \/ \E c \in Conn : OrphanEnds(c)

Next == (\E c \in Conn : Request(c) \/ Handle(c)) \/ Environment \/ Sweep

Spec == Init /\ [][Next]_vars
-----------------------------------------------------------------------------
(***************************************************************************)
(* Properties.                                                             *)
(***************************************************************************)
\* The type invariant: every lock is whole or absent, every handler is at a
\* known step, and only known uids and connections are recorded.
TypeOK ==
    /\ port \in [Uid -> Port \cup {NoPort}]
    /\ known \subseteq Uid
    /\ orphan \subseteq Conn
    /\ locks \in [Uid -> Entry]
    /\ dead \subseteq Holder
    /\ acquired \in [Conn -> SUBSET Uid]
    /\ uidConn \in [Uid -> Conn \cup {NoConn}]
    /\ conn \in [Conn -> ConnState]
    /\ owner \in [Uid -> Conn \cup {NoConn}]

\* No lock is leaked: whatever is locked is in the acquired_uids of the
\* connection it was granted to, which is open and will release it in its
\* finally.  No order of force_unlock, detach, sweep, flash errors and
\* stream ends, nor connections that share a process, breaks this.
LockHasOwner ==
    \A u \in Uid : Locked(locks, u) =>
        /\ owner[u] \in Conn
        /\ HolderOf[owner[u]] = locks[u].holder
        /\ u \in acquired[owner[u]]
        /\ conn[owner[u]].pc \notin {"new", "closed"}

\* A connection uses a board from its handler, or by a pyocd it left behind.
Using(c, u) ==
    /\ conn[c].uid = u
    /\ conn[c].pc \in {"flashing", "streaming", "unwatched"} \/ c \in orphan

\* A board is flashed or streamed by one connection at a time: what a client
\* asks a lock for.  It takes clients that wait for the end of their flash: a
\* "hangup" leaves a pyocd on a board that is free to be locked again.
ExclusiveUse ==
    \A u \in Uid, c, d \in Conn : Using(c, u) /\ Using(d, u) => c = d

\* Whose lock each board is under, and which connections use it.
Granted == [u \in Uid |-> IF Locked(locks, u) THEN owner[u] ELSE NoConn]
UsedBy == [u \in Uid |-> {c \in Conn : Using(c, u)}]

\* The same as an implementation of BoardUse, with the connections as users:
\* a lock is only granted on a board that no other connection is still
\* flashing or streaming, under the same condition.
Boards == INSTANCE BoardUse WITH
    Board <- Uid, User <- Conn, Nobody <- NoConn,
    owner <- Granted, busy <- UsedBy

ImplementsBoardUse == Boards!Spec

\* A lock is released by the connection it was granted to, by a sweep, a
\* detach or a force_unlock, never by another connection: "release exactly
\* the locks this connection acquired" (_handle_connection's finally).
ReleasedByItsConnection ==
    [][\A u \in Uid, c \in Conn :
         /\ Locked(locks, u) /\ ~Locked(locks, u)'
         /\ \/ Cleanup(c) \/ EndStream(c) \/ EndFlash(c) \/ FlashLogFails(c)
            \/ \E v \in Uid : OpUnlock(c, v)
         => c = owner[u]]_vars

(***************************************************************************)
(* Fairness: handler threads that need nothing from their client run on,   *)
(* a watched pyocd ends (its watchdog), the sweep thread wakes up.         *)
(* Nothing is assumed of clients, not even that the death of a process     *)
(* closes its connection: a forked child may keep it open.                 *)
(***************************************************************************)
Forced(c) ==
    \/ RecordConn(c) \/ ForgetConn(c) \/ ShutdownTarget(c)
    \/ StartFlash(c) \/ FlashRaises(c) \/ EndFlash(c)
    \/ OpenStream(c) \/ StreamCheck(c)
    \/ conn[c].shut /\ (EndStream(c) \/ Cleanup(c))
    \/ conn[c].pc = "closing" /\ Cleanup(c)

FairSpec == Spec /\ (\A c \in Conn : WF_vars(Forced(c))) /\ WF_vars(Sweep)

\* UC-007: a lock whose holder's process died is released, even if a forked
\* child keeps the connection open and quiet.
DeadHolderReleased ==
    \A h \in Holder, u \in Uid :
        (h \in dead /\ locks[u].holder = h) ~> locks[u].holder # h

\* A connection whose socket was shut down, by force_unlock or because its
\* board left, winds up.
ShutConnCloses == \A c \in Conn : conn[c].shut ~> conn[c].pc = "closed"

\* While its reading thread lives, a stream does not go on for ever on a board
\* that is gone from its port: the thread ends the stream or ends itself.  In
\* the second case ("unwatched") nobody looks any more, although the code says
\* there that "the main loop will notice too": such a stream lasts as long as
\* its client stays quiet.
StreamEndsWithBoard ==
    \A c \in Conn : ~<>[](conn[c].pc = "streaming" /\ ~StreamStillValid(c))
=============================================================================

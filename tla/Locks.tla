--------------------------------- MODULE Locks ---------------------------------
(***************************************************************************)
(* registry/locks.py: the one table of exclusive device locks, local and   *)
(* remote holders alike.  Operators on the table; the callbacks the        *)
(* manager fires on a release are the caller's FlashReleased.              *)
(***************************************************************************)
CONSTANTS
    Holder,     \* HolderRef values (compared by full equality)
    NoHolder,
    Kind        \* LOCK_KINDS; "flash" is the one the daemon reacts to

ASSUME NoHolderIsNoHolder == NoHolder \notin Holder
ASSUME NoneIsNoKind == "none" \notin Kind

Unlocked == [kind |-> "none", holder |-> NoHolder]

\* LockStatus, or Unlocked where the table has no entry.
Entry == {Unlocked} \cup [kind: Kind, holder: Holder]

EmptyTable(uids) == [u \in uids |-> Unlocked]

Locked(table, u) == table[u].kind # "none"

\* LockManager.acquire refuses any locked uid, its own holder's included.
CanAcquire(table, u) == ~Locked(table, u)

Acquire(table, u, kind, holder) ==
    [table EXCEPT ![u] = [kind |-> kind, holder |-> holder]]

\* Faulty variant: anyone's release takes effect.
ReleasesForAnyone(table, u, holder) == Locked(table, u)

\* LockManager.release: only the current holder's release takes effect.
Releases(table, u, holder) == Locked(table, u) /\ table[u].holder = holder

\* Faulty variant: the entry's kind survives its release.
DropOnlyHolder(table, uids) ==
    [u \in DOMAIN table |->
        IF u \in uids THEN [table[u] EXCEPT !.holder = NoHolder] ELSE table[u]]

\* LockManager._release, for every uid of a set at once.
Drop(table, uids) ==
    [u \in DOMAIN table |-> IF u \in uids THEN Unlocked ELSE table[u]]

\* The uids whose flash-release callback fires when uids are dropped.
FlashReleased(table, uids) == {u \in uids : table[u].kind = "flash"}

\* Faulty variant: the liveness test inverted.
AliveHeld(table, dead) ==
    {u \in DOMAIN table : Locked(table, u) /\ table[u].holder \notin dead}

\* LockManager.sweep: every lock whose holder is_alive reports dead.
DeadHeld(table, dead) ==
    {u \in DOMAIN table : Locked(table, u) /\ table[u].holder \in dead}
=============================================================================

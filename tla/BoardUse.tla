-------------------------------- MODULE BoardUse --------------------------------
(***************************************************************************)
(* What a lock on a board promises, whatever takes it: a user takes a      *)
(* board nobody owns and nobody is still using, uses it while it owns it,  *)
(* and is no longer using it once it has given it back.  Several boards    *)
(* may change hands in one step.                                           *)
(*                                                                         *)
(* ApiServer and Sessions are shown to implement this: connections to the  *)
(* servers, and the users of a board's serial port.                        *)
(***************************************************************************)

CONSTANTS Board, User, Nobody

VARIABLES
    owner,      \* Board -> the user it belongs to, or Nobody
    busy        \* Board -> the users that are using it

vars == <<owner, busy>>

Init ==
    /\ owner = [b \in Board |-> Nobody]
    /\ busy = [b \in Board |-> {}]

Take(b, u) ==
    /\ owner[b] = Nobody /\ busy[b] = {}
    /\ owner'[b] = u /\ busy'[b] = {}

Begin(b, u) ==
    /\ owner[b] = u
    /\ owner'[b] = u /\ busy'[b] = busy[b] \cup {u}

End(b, u) ==
    /\ owner'[b] = owner[b] /\ busy'[b] = busy[b] \ {u}

\* Giving a board back ends its use, if it had not ended before.
GiveBack(b, u) ==
    /\ owner[b] = u
    /\ owner'[b] = Nobody /\ busy'[b] = busy[b] \ {u}

BoardStep(b) ==
    \/ \E u \in User : Take(b, u) \/ Begin(b, u) \/ End(b, u) \/ GiveBack(b, u)
    \/ owner'[b] = owner[b] /\ busy'[b] = busy[b]

Next ==
    /\ owner' \in [Board -> User \cup {Nobody}]
    /\ busy' \in [Board -> SUBSET User]
    /\ \A b \in Board : BoardStep(b)

Spec == Init /\ [][Next]_vars

\* Whoever uses a board owns it, so no two users use it at once.
Exclusive == \A b \in Board : busy[b] \subseteq {owner[b]}
=============================================================================

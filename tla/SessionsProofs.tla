----------------------------- MODULE SessionsProofs -----------------------------
(***************************************************************************)
(* TLAPS proofs about Sessions, for any set of relays, console clients and *)
(* commands, here or on a peer, and whichever of them meet port errors.    *)
(***************************************************************************)
EXTENDS Sessions, TLAPS

(***************************************************************************)
(* The inductive invariant.  A session holds the lock of its board from    *)
(* its open to its close.  A port is open only for a session whose board   *)
(* it is and that has not yet closed it; a session that gives the lock     *)
(* back with its port open still holds the lock until then.                *)
(***************************************************************************)
Held == {"opening", "hello", "normalize", "banner", "tune", "using", "clearing", "closing"}
Opened == {"hello", "normalize", "tune", "using", "clearing", "closing", "unlocking",
           "abandoned"}

HolderDrives == \A s \in Session : use[s].pc \in Held => holder[BoardOf(s)] = s

OpenedByDriver ==
    \A b \in Board : \A s \in openers[b] :
        /\ BoardOf(s) = b /\ use[s].pc \in Opened
        /\ use[s].pc = "unlocking" => holder[b] = s

Inv == SessionsTypeOK /\ HolderDrives /\ OpenedByDriver

-----------------------------------------------------------------------------
(***************************************************************************)
(* What a step does to the sessions' states.                               *)
(***************************************************************************)
\* Session s goes to pc and keeps its board; the others stay where they are.
Moves(s, pc) ==
    /\ use' \in [Session -> UseState]
    /\ use'[s].pc = pc /\ use'[s].board = use[s].board
    /\ \A t \in Session \ {s} : use'[t] = use[t]

\* Goto moves its session.
LEMMA GotoMoves ==
    ASSUME SessionsTypeOK, NEW s \in Session, NEW pc \in Pcs, Goto(s, pc)
    PROVE  Moves(s, pc)
  BY DEF SessionsTypeOK, Goto, Moves, UseState

\* So does GotoPhase.
LEMMA GotoPhaseMoves ==
    ASSUME SessionsTypeOK, NEW s \in Session, NEW pc \in Pcs,
           NEW phase \in {"acquire", "release"}, GotoPhase(s, pc, phase)
    PROVE  Moves(s, pc)
  BY DEF SessionsTypeOK, GotoPhase, Moves, UseState

\* Where a RelayError, a failing open or write, or the end of the use take a
\* session: a port that is closed leaves it opening again, unlocking or done.
LEMMA WayOut ==
    ASSUME SessionsTypeOK, NEW s \in Session,
           \/ AfterRelayError(s)
           \/ AfterWriteError(s)
           \/ Leave(s)
    PROVE  \/ UNCHANGED openers /\ \E pc \in {"clearing", "closing", "unlocking"} : Moves(s, pc)
           \/ ClosePort(s) /\ \E pc \in {"opening", "unlocking", "done"} : Moves(s, pc)
  <1> USE GotoMoves, GotoPhaseMoves DEF Pcs
  <1>1. CASE AfterRelayError(s)
    BY <1>1 DEF AfterRelayError
  <1>2. CASE AfterWriteError(s)
    BY <1>2 DEF AfterWriteError
  <1>3. CASE Leave(s)
    BY <1>3 DEF Leave
  <1> QED
    BY <1>1, <1>2, <1>3

\* A failing open leaves the port closed.
LEMMA WayOutOfOpening ==
    ASSUME SessionsTypeOK, NEW s \in Session, AfterOpenFailure(s)
    PROVE  \E pc \in {"opening", "unlocking", "done"} : Moves(s, pc)
  BY GotoMoves, GotoPhaseMoves DEF AfterOpenFailure, Pcs

-----------------------------------------------------------------------------
(***************************************************************************)
(* Six kinds of steps, by what a session does with its lock and its port.  *)
(***************************************************************************)
\* It goes on with both as they are.
Advances(s) ==
    /\ relay' \in [Board -> RelayState] /\ UNCHANGED <<holder, openers>>
    /\ \E pc \in Pcs :
        /\ Moves(s, pc)
        /\ pc \notin {"new", "done"} => BoardOf(s) \in Board
        /\ pc \in Held => use[s].pc \in Held
        /\ \A b \in Board : s \in openers[b] => pc \in Opened \ {"abandoned"} /\ use[s].pc \in Held

\* It closes its port.
Closes(s) ==
    /\ relay' \in [Board -> RelayState] /\ UNCHANGED holder
    /\ BoardOf(s) \in Board /\ ClosePort(s)
    /\ \E pc \in Pcs \ {"abandoned"} : Moves(s, pc) /\ (pc \in Held => use[s].pc \in Held)

\* It settles for a board, but leaves it alone.
Chooses(s) ==
    /\ use[s].pc = "new" /\ UNCHANGED <<relay, holder, openers>>
    /\ use' \in [Session -> UseState]
    /\ use'[s].pc = "found" /\ use'[s].board \in Board
    /\ \A t \in Session \ {s} : use'[t] = use[t]

\* It locks a free board.
Takes(s, b) ==
    /\ use[s].pc \in {"new", "found"} /\ UNCHANGED <<relay, openers>>
    /\ holder[b] = NoSession /\ holder' = [holder EXCEPT ![b] = s]
    /\ use' \in [Session -> UseState]
    /\ use'[s].pc = "opening" /\ use'[s].board = b
    /\ \A t \in Session \ {s} : use'[t] = use[t]

\* It opens its port.
Opens(s) ==
    /\ use[s].pc \in {"opening", "banner"} /\ UNCHANGED <<relay, holder>>
    /\ openers' = [openers EXCEPT ![BoardOf(s)] = @ \cup {s}]
    /\ \E pc \in {"hello", "using"} : Moves(s, pc)

\* It gives its lock back.
GivesBack(s) ==
    /\ use[s].pc = "unlocking" /\ UNCHANGED <<relay, openers>>
    /\ holder' = [holder EXCEPT ![BoardOf(s)] = IF @ = s THEN NoSession ELSE @]
    /\ Moves(s, IF s \in openers[BoardOf(s)] THEN "abandoned" ELSE "done")

Kind(s) ==
    \/ Advances(s) \/ Closes(s) \/ Chooses(s) \/ Opens(s) \/ GivesBack(s)
    \/ \E b \in Board : Takes(s, b)

-----------------------------------------------------------------------------
\* A relay's state stays one, whatever is written to it.
LEMMA RelayTyped ==
    ASSUME SessionsTypeOK, NEW b \in Board
    PROVE  /\ [relay EXCEPT ![b] = Reset(@)] \in [Board -> RelayState]
           /\ [relay EXCEPT ![b].cfg = "other"] \in [Board -> RelayState]
           /\ [relay EXCEPT ![b].cfg = "other", ![b].plane = "data"] \in [Board -> RelayState]
           /\ \A r \in RelayState : [relay EXCEPT ![b] = r] \in [Board -> RelayState]
  BY DEF SessionsTypeOK, RelayState, Cfg, Reset

\* The steps a session takes by itself are of those kinds.
LEMMA StepKind ==
    ASSUME Inv, NEW s \in Session, Step(s)
    PROVE  Kind(s)
  <1>1. SessionsTypeOK
    BY DEF Inv
  <1>2. use[s].pc \notin {"new", "done"} => BoardOf(s) \in Board
    BY DEF Inv, SessionsTypeOK
  <1>3. \A b \in Board : s \in openers[b] => use[s].pc \in Opened
    BY DEF Inv, OpenedByDriver
  <1>4. relay \in [Board -> RelayState]
    BY <1>1 DEF SessionsTypeOK
  <1>5. CASE LockBoard(s)
    <2>1. CASE holder[BoardOf(s)] = NoSession
      <3>1. Moves(s, "opening")
        BY <1>1, <1>5, <2>1, GotoMoves DEF LockBoard, Pcs
      <3> QED
        BY <1>2, <1>5, <2>1, <3>1 DEF Kind, Takes, LockBoard, Moves, BoardOf
    <2>2. CASE holder[BoardOf(s)] # NoSession
      <3>1. Moves(s, "done") /\ UNCHANGED <<relay, holder, openers>>
        BY <1>1, <1>5, <2>2, GotoMoves DEF LockBoard, Pcs
      <3> QED
        BY <1>3, <1>4, <1>5, <3>1 DEF Kind, Advances, LockBoard, Held, Opened, Pcs
    <2> QED
      BY <2>1, <2>2
  <1>6. CASE OpenPort(s)
    <2>1. \E pc \in {"hello", "using"} : Moves(s, pc)
      BY <1>1, <1>6, GotoMoves DEF OpenPort, AfterOpen, Pcs
    <2> QED
      BY <1>6, <2>1 DEF OpenPort, Kind, Opens
  <1>7. CASE Hello(s)
    <2>1. UNCHANGED holder /\ use[s].pc = "hello" /\ BoardOf(s) \in Board
      BY <1>2, <1>7 DEF Hello
    <2>2. relay' \in [Board -> RelayState]
      BY <1>1, <1>4, <1>7, <2>1, RelayTyped DEF Hello
    <2>3. \/ UNCHANGED openers /\ \E pc \in {"normalize", "clearing", "closing", "unlocking"} : Moves(s, pc)
          \/ ClosePort(s) /\ \E pc \in {"opening", "unlocking", "done"} : Moves(s, pc)
      BY <1>1, <1>7, GotoMoves, WayOut DEF Hello, Pcs
    <2> QED
      BY <2>1, <2>2, <2>3 DEF Kind, Advances, Closes, Held, Opened, Pcs
  <1>8. CASE Normalize(s)
    <2>1. UNCHANGED holder /\ use[s].pc = "normalize" /\ BoardOf(s) \in Board
      BY <1>2, <1>8 DEF Normalize
    <2>2. relay' \in [Board -> RelayState]
      BY <1>4, <1>8, <2>1 DEF Normalize, RelayState, Cfg
    <2>3. \/ UNCHANGED openers /\ \E pc \in {"tune", "clearing", "closing", "unlocking"} : Moves(s, pc)
          \/ ClosePort(s) /\ \E pc \in {"banner", "opening", "unlocking", "done"} : Moves(s, pc)
      BY <1>1, <1>8, GotoMoves, WayOut DEF Normalize, AfterNormalize, Pcs
    <2> QED
      BY <2>1, <2>2, <2>3 DEF Kind, Advances, Closes, Held, Opened, Pcs
  <1>9. CASE ClearStoredConfig(s)
    <2>1. UNCHANGED <<holder, openers>> /\ use[s].pc = "clearing" /\ BoardOf(s) \in Board
      BY <1>2, <1>9 DEF ClearStoredConfig
    <2>2. relay' \in [Board -> RelayState]
      BY <1>4, <1>9, <2>1 DEF ClearStoredConfig, RelayState, Cfg
    <2>3. Moves(s, "closing")
      BY <1>1, <1>9, GotoMoves DEF ClearStoredConfig, Pcs
    <2> QED
      BY <2>1, <2>2, <2>3 DEF Kind, Advances, Held, Opened, Pcs
  <1>10. CASE Tune(s)
    <2>1. UNCHANGED <<holder, openers>> /\ use[s].pc = "tune" /\ BoardOf(s) \in Board
      BY <1>2, <1>10 DEF Tune
    <2>2. relay' \in [Board -> RelayState]
      BY <1>1, <1>4, <1>10, <2>1, RelayTyped DEF Tune, Cfg
    <2>3. Moves(s, "using") \/ Moves(s, "clearing")
      BY <1>1, <1>10, GotoMoves DEF Tune, Pcs
    <2> QED
      BY <2>1, <2>2, <2>3 DEF Kind, Advances, Held, Opened, Pcs
  <1>11. CASE ClosePortOf(s)
    <2>1. Moves(s, "unlocking")
      BY <1>1, <1>11, GotoMoves DEF ClosePortOf, Pcs
    <2> QED
      BY <1>2, <1>4, <1>11, <2>1 DEF Kind, Closes, ClosePortOf, Held, Pcs
  <1>12. CASE Unlock(s)
    <2>1. Moves(s, IF s \in openers[BoardOf(s)] THEN "abandoned" ELSE "done")
      BY <1>1, <1>12, GotoMoves DEF Unlock, Pcs
    <2> QED
      BY <1>12, <2>1 DEF Unlock, Kind, GivesBack
  <1>13. CASE ProcessExits(s)
    <2>1. Moves(s, "done")
      BY <1>1, <1>13, GotoMoves DEF ProcessExits, Pcs
    <2> QED
      BY <1>2, <1>4, <1>13, <2>1 DEF Kind, Closes, ProcessExits, Held, Pcs
  <1> QED
    BY <1>5, <1>6, <1>7, <1>8, <1>9, <1>10, <1>11, <1>12, <1>13 DEF Step

\* What users, the network and the hardware do to a session is too.
LEMMA EnvironmentKind ==
    ASSUME Inv, NEW s \in Session, Environment(s)
    PROVE  Kind(s)
  <1>1. SessionsTypeOK
    BY DEF Inv
  <1>2. use[s].pc \notin {"new", "done"} => BoardOf(s) \in Board
    BY DEF Inv, SessionsTypeOK
  <1>3. \A b \in Board : s \in openers[b] => use[s].pc \in Opened
    BY DEF Inv, OpenedByDriver
  <1>4. relay \in [Board -> RelayState]
    BY <1>1 DEF SessionsTypeOK
  <1>5. CASE Accept(s)
    <2>1. CASE FreeRelays = {}
      <3>1. Moves(s, "done") /\ UNCHANGED <<relay, holder, openers>>
        BY <1>1, <1>5, <2>1, GotoMoves DEF Accept, Pcs
      <3> QED
        BY <1>3, <1>4, <1>5, <3>1 DEF Kind, Advances, Accept, Held, Opened, Pcs
    <2>2. CASE FreeRelays # {}
      <3>1. PICK b \in Board :
              /\ holder[b] = NoSession /\ holder' = [holder EXCEPT ![b] = s]
              /\ use' = [use EXCEPT ![s].pc = "opening", ![s].board = b]
        BY <1>5, <2>2 DEF Accept, FreeRelays
      <3>2. /\ use' \in [Session -> UseState]
            /\ use'[s].pc = "opening" /\ use'[s].board = b
            /\ \A t \in Session \ {s} : use'[t] = use[t]
        BY <1>1, <3>1 DEF SessionsTypeOK, UseState, Pcs
      <3> QED
        BY <1>5, <3>1, <3>2 DEF Kind, Takes, Accept
    <2> QED
      BY <2>1, <2>2
  <1>6. CASE FindFreeRelay(s) \/ FindBoard(s)
    <2>1. use[s].pc = "new" /\ UNCHANGED <<relay, holder, openers>>
      BY <1>6 DEF FindFreeRelay, FindBoard
    <2>2. CASE Goto(s, "done")
      BY <1>1, <1>3, <1>4, <2>1, <2>2, GotoMoves DEF Kind, Advances, Held, Opened, Pcs
    <2>3. CASE FindFreeRelay(s) /\ ~Goto(s, "done")
      <3>1. PICK b \in Board : use' = [use EXCEPT ![s].pc = "found", ![s].board = b]
        BY <2>3 DEF FindFreeRelay, FreeRelays
      <3>2. /\ use' \in [Session -> UseState]
            /\ use'[s].pc = "found" /\ use'[s].board = b
            /\ \A t \in Session \ {s} : use'[t] = use[t]
        BY <1>1, <3>1 DEF SessionsTypeOK, UseState, Pcs
      <3> QED
        BY <2>1, <3>2 DEF Kind, Chooses
    <2>4. CASE FindBoard(s)
      <3>1. PICK b \in Board :
                use' = [use EXCEPT ![s].pc = "found", ![s].kind = "serial", ![s].board = b]
        BY <2>4 DEF FindBoard
      <3>2. /\ use' \in [Session -> UseState]
            /\ use'[s].pc = "found" /\ use'[s].board = b
            /\ \A t \in Session \ {s} : use'[t] = use[t]
        BY <1>1, <3>1 DEF SessionsTypeOK, UseState, Pcs
      <3> QED
        BY <2>1, <3>2 DEF Kind, Chooses
    <2> QED
      BY <1>6, <2>2, <2>3, <2>4
  <1>7. CASE GiveUp(s)
    BY <1>1, <1>3, <1>4, <1>7, GotoMoves DEF Kind, Advances, GiveUp, Held, Opened, Pcs
  <1>8. CASE SerialReset(s) \/ UserActs(s)
    <2>1. BoardOf(s) \in Board /\ UNCHANGED <<holder, openers, use>>
      BY <1>2, <1>8 DEF SerialReset, UserActs
    <2>2. relay' \in [Board -> RelayState]
      BY <1>1, <1>8, <2>1, RelayTyped DEF SerialReset, UserActs
    <2>3. use[s].pc = "using" /\ Moves(s, "using")
      BY <1>1, <1>8, <2>1 DEF SerialReset, UserActs, SessionsTypeOK, Moves
    <2> QED
      BY <2>1, <2>2, <2>3 DEF Kind, Advances, Held, Opened, Pcs
  <1>9. CASE Quit(s)
    BY <1>1, <1>2, <1>4, <1>9, WayOut DEF Kind, Advances, Closes, Quit, Held, Opened, Pcs
  <1>10. CASE BannerFails(s)
    <2>1. Moves(s, "opening")
      BY <1>1, <1>10, GotoPhaseMoves DEF BannerFails, Pcs
    <2> QED
      BY <1>2, <1>3, <1>4, <1>10, <2>1 DEF Kind, Advances, BannerFails, Held, Opened, Pcs
  <1>11. CASE OpenFails(s)
    <2>1. use[s].pc \in {"opening", "banner"} /\ UNCHANGED <<relay, holder, openers>>
      BY <1>11 DEF OpenFails
    <2>2. \E pc \in {"opening", "unlocking", "done"} : Moves(s, pc)
      BY <1>1, <1>11, WayOutOfOpening DEF OpenFails
    <2> QED
      BY <1>2, <1>3, <1>4, <2>1, <2>2 DEF Kind, Advances, Held, Opened, Pcs
  <1>12. CASE WriteFails(s)
    <2>1. /\ use[s].pc \in {"hello", "normalize", "tune", "using", "clearing"}
          /\ UNCHANGED <<relay, holder>> /\ AfterWriteError(s)
      BY <1>12 DEF WriteFails, Talking
    <2> QED
      BY <1>1, <1>2, <1>4, <2>1, WayOut DEF Kind, Advances, Closes, Held, Opened, Pcs
  <1>13. CASE LoseConnection(s)
    <2>1. /\ use[s].pc \in {"opening", "hello", "normalize", "tune", "using", "clearing"}
          /\ UNCHANGED <<relay, holder, openers>>
      BY <1>13 DEF LoseConnection, Talking
    <2>2. Moves(s, IF use[s].pc = "opening" THEN "unlocking" ELSE "closing")
      BY <1>1, <1>13, GotoMoves DEF LoseConnection, Pcs
    <2> QED
      BY <1>2, <1>3, <1>4, <2>1, <2>2 DEF Kind, Advances, Held, Opened, Pcs
  <1>14. CASE CommandDies(s)
    <2>1. /\ use[s].pc \notin {"new", "done"} /\ ClosePort(s)
          /\ UNCHANGED <<relay, holder>>
      BY <1>14 DEF CommandDies, Talking
    <2>2. Moves(s, "unlocking")
      BY <1>1, <1>14, GotoMoves DEF CommandDies, Pcs
    <2> QED
      BY <1>2, <1>4, <2>1, <2>2 DEF Kind, Closes, Held, Pcs
  <1> QED
    BY <1>5, <1>6, <1>7, <1>8, <1>9, <1>10, <1>11, <1>12, <1>13, <1>14 DEF Environment

-----------------------------------------------------------------------------
\* A step of any kind keeps the invariant.
LEMMA KindKeepsInv ==
    ASSUME Inv, NEW s \in Session, Kind(s)
    PROVE  Inv'
  <1> USE DEF Inv, SessionsTypeOK, BoardOf
  <1>1. CASE Advances(s)
    <2>1. SessionsTypeOK'
      BY <1>1 DEF Advances, Moves
    <2>2. HolderDrives'
      BY <1>1 DEF Advances, Moves, HolderDrives
    <2>3. OpenedByDriver'
      BY <1>1 DEF Advances, Moves, OpenedByDriver, HolderDrives
    <2> QED
      BY <2>1, <2>2, <2>3
  <1>2. CASE Closes(s)
    <2>1. /\ openers' \in [Board -> SUBSET Session]
          /\ \A b \in Board : openers'[b] = IF b = BoardOf(s) THEN openers[b] \ {s}
                                            ELSE openers[b]
      BY <1>2 DEF Closes, ClosePort
    <2>2. SessionsTypeOK'
      BY <1>2, <2>1 DEF Closes, Moves
    <2>3. HolderDrives'
      BY <1>2 DEF Closes, Moves, HolderDrives
    <2>4. OpenedByDriver'
      BY <1>2, <2>1 DEF Closes, Moves, OpenedByDriver
    <2> QED
      BY <2>2, <2>3, <2>4
  <1>3. CASE Chooses(s)
    <2>1. SessionsTypeOK'
      BY <1>3 DEF Chooses
    <2>2. HolderDrives'
      BY <1>3 DEF Chooses, HolderDrives, Held
    <2>3. OpenedByDriver'
      BY <1>3 DEF Chooses, OpenedByDriver, Opened
    <2> QED
      BY <2>1, <2>2, <2>3
  <1>4. ASSUME NEW b \in Board, Takes(s, b)
        PROVE  Inv'
    <2>1. SessionsTypeOK'
      BY <1>4 DEF Takes
    <2>2. HolderDrives'
      BY <1>4, NoSessionIsNoSession DEF Takes, HolderDrives, Held, Session
    <2>3. OpenedByDriver'
      BY <1>4, NoSessionIsNoSession DEF Takes, OpenedByDriver, Opened, Session
    <2> QED
      BY <2>1, <2>2, <2>3
  <1>5. CASE Opens(s)
    <2>1. BoardOf(s) \in Board
      BY <1>5 DEF Opens
    <2>2. /\ openers' \in [Board -> SUBSET Session]
          /\ \A b \in Board : openers'[b] = IF b = BoardOf(s) THEN openers[b] \cup {s}
                                            ELSE openers[b]
      BY <1>5, <2>1 DEF Opens
    <2>3. SessionsTypeOK'
      BY <1>5, <2>1, <2>2 DEF Opens, Moves
    <2>4. HolderDrives'
      BY <1>5 DEF Opens, Moves, HolderDrives, Held
    <2>5. OpenedByDriver'
      BY <1>5, <2>1, <2>2 DEF Opens, Moves, OpenedByDriver, Opened
    <2> QED
      BY <2>3, <2>4, <2>5
  <1>6. CASE GivesBack(s)
    <2>1. BoardOf(s) \in Board
      BY <1>6 DEF GivesBack
    <2>2. /\ holder' \in [Board -> Session \cup {NoSession}]
          /\ \A b \in Board : holder'[b] = IF b = BoardOf(s) /\ holder[b] = s THEN NoSession
                                           ELSE holder[b]
      BY <1>6, <2>1 DEF GivesBack
    <2>3. SessionsTypeOK'
      BY <1>6, <2>1, <2>2 DEF GivesBack, Moves
    <2>4. HolderDrives'
      BY <1>6, <2>1, <2>2 DEF GivesBack, Moves, HolderDrives, Held
    <2>5. OpenedByDriver'
      BY <1>6, <2>1, <2>2 DEF GivesBack, Moves, OpenedByDriver, Opened
    <2> QED
      BY <2>3, <2>4, <2>5
  <1> QED
    BY <1>1, <1>2, <1>3, <1>4, <1>5, <1>6 DEF Kind

-----------------------------------------------------------------------------
\* The initial state satisfies the invariant.
LEMMA InitInv == Init => Inv
  BY DEF Init, Inv, SessionsTypeOK, HolderDrives, OpenedByDriver, RelayState, Cfg,
         UseState, Pcs, Held

\* Every step keeps it.
LEMMA NextInv == Inv /\ [Next]_vars => Inv'
  <1> SUFFICES ASSUME Inv, [Next]_vars
               PROVE  Inv'
    OBVIOUS
  <1>1. ASSUME NEW b \in Board, PowerCycle(b)
        PROVE  Inv'
    <2>1. relay' \in [Board -> RelayState]
      BY <1>1, RelayTyped DEF PowerCycle, Inv
    <2> QED
      BY <1>1, <2>1 DEF PowerCycle, Inv, SessionsTypeOK, HolderDrives, OpenedByDriver, BoardOf
  <1>2. CASE UNCHANGED vars
    BY <1>2 DEF vars, Inv, SessionsTypeOK, HolderDrives, OpenedByDriver, BoardOf
  <1> QED
    BY <1>1, <1>2, StepKind, EnvironmentKind, KindKeepsInv DEF Next

\* The invariant holds throughout.
LEMMA Invariance == Spec => []Inv
  BY InitInv, NextInv, PTL DEF Spec

\* Every state of the sessions is well typed, and a session past its choice
\* has a board, for any number of clients, commands and relays.
THEOREM SessionsTyped == Spec => []SessionsTypeOK
  BY Invariance, PTL DEF Inv

\* Whoever talks to a board holds its lock, through port errors, lost
\* connections and killed commands (relay_pool.py, relay/cli.py,
\* serial/connect.py and the stream handler of _api_base.py).
THEOREM HolderTalks == Spec => []OnlyHolderTalks
  <1>1. Inv => OnlyHolderTalks
    BY DEF Inv, SessionsTypeOK, HolderDrives, OpenedByDriver, OnlyHolderTalks, Held, Opened
  <1> QED
    BY <1>1, Invariance, PTL

-----------------------------------------------------------------------------
(***************************************************************************)
(* BoardUse.                                                               *)
(***************************************************************************)
\* A step of any kind is, for every board, a step of BoardUse or none.
LEMMA KindIsBoardStep ==
    ASSUME Inv, NEW s \in Session, Kind(s), NEW b \in Board
    PROVE  Boards!BoardStep(b)
  <1> USE DEF Inv, SessionsTypeOK, BoardOf, Boards!BoardStep
  <1>1. CASE Advances(s)
    <2>1. Driving'[b] = Driving[b]
      BY <1>1 DEF Advances, Moves, Driving, Held
    <2> QED
      BY <1>1, <2>1 DEF Advances
  <1>2. CASE Closes(s)
    <2>1. openers'[b] = IF b = BoardOf(s) THEN openers[b] \ {s} ELSE openers[b]
      BY <1>2 DEF Closes, ClosePort
    <2>2. CASE b = BoardOf(s)
      <3>1. Driving'[b] = Driving[b] \ {s}
        BY <1>2, <2>1, <2>2 DEF Closes, Moves, Driving
      <3> QED
        BY <1>2, <3>1 DEF Closes, Boards!End
    <2>3. CASE b # BoardOf(s)
      <3>1. s \notin openers[b]
        BY <2>3 DEF OpenedByDriver
      <3>2. Driving'[b] = Driving[b]
        BY <1>2, <2>1, <2>3, <3>1 DEF Closes, Moves, Driving
      <3> QED
        BY <1>2, <3>2 DEF Closes
    <2> QED
      BY <2>2, <2>3
  <1>3. CASE Chooses(s)
    <2>1. Driving'[b] = Driving[b]
      BY <1>3 DEF Chooses, Driving, OpenedByDriver, Opened
    <2> QED
      BY <1>3, <2>1 DEF Chooses
  <1>4. ASSUME NEW c \in Board, Takes(s, c)
        PROVE  Boards!BoardStep(b)
    <2>1. Driving'[b] = Driving[b]
      BY <1>4 DEF Takes, Driving, OpenedByDriver, Opened
    <2>2. CASE b = c
      <3>1. Driving[b] = {}
        BY <1>4, <2>2, NoSessionIsNoSession
        DEF Takes, Driving, OpenedByDriver, HolderDrives, Held, Opened, Session
      <3> QED
        BY <1>4, <2>1, <2>2, <3>1 DEF Takes, Boards!Take
    <2>3. CASE b # c
      BY <1>4, <2>1, <2>3 DEF Takes
    <2> QED
      BY <2>2, <2>3
  <1>5. CASE Opens(s)
    <2>1. openers'[b] = IF b = BoardOf(s) THEN openers[b] \cup {s} ELSE openers[b]
      BY <1>5 DEF Opens
    <2>2. CASE b = BoardOf(s)
      <3>1. Driving'[b] = Driving[b] \cup {s}
        BY <1>5, <2>1, <2>2 DEF Opens, Moves, Driving
      <3>2. holder[b] = s
        BY <1>5, <2>2 DEF Opens, HolderDrives, Held
      <3> QED
        BY <1>5, <3>1, <3>2 DEF Opens, Boards!Begin
    <2>3. CASE b # BoardOf(s)
      <3>1. Driving'[b] = Driving[b]
        BY <1>5, <2>1, <2>3 DEF Opens, Moves, Driving, OpenedByDriver
      <3> QED
        BY <1>5, <3>1 DEF Opens
    <2> QED
      BY <2>2, <2>3
  <1>6. CASE GivesBack(s)
    <2>1. holder'[b] = IF b = BoardOf(s) /\ holder[b] = s THEN NoSession ELSE holder[b]
      BY <1>6 DEF GivesBack
    <2>2. CASE b = BoardOf(s) /\ holder[b] = s
      <3>1. Driving'[b] = Driving[b] \ {s}
        BY <1>6, <2>2 DEF GivesBack, Moves, Driving
      <3> QED
        BY <2>1, <2>2, <3>1 DEF Boards!GiveBack
    <2>3. CASE ~(b = BoardOf(s) /\ holder[b] = s)
      <3>1. s \notin openers[b]
        BY <1>6, <2>3 DEF GivesBack, OpenedByDriver
      <3>2. Driving'[b] = Driving[b]
        BY <1>6, <3>1 DEF GivesBack, Moves, Driving
      <3> QED
        BY <2>1, <2>3, <3>2
    <2> QED
      BY <2>2, <2>3
  <1> QED
    BY <1>1, <1>2, <1>3, <1>4, <1>5, <1>6 DEF Kind

\* Whatever uses a board's serial port keeps the promise of its lock: it
\* takes a board nobody drives, and no longer drives it once the lock is
\* given back, through every error path of the pool and the commands.
THEOREM SessionsImplementBoardUse == Spec => ImplementsBoardUse
  <1>1. Init => Boards!Init
    BY DEF Init, Boards!Init, Driving
  <1>2. Inv /\ Inv' /\ [Next]_vars => [Boards!Next]_(Boards!vars)
    <2> SUFFICES ASSUME Inv, Inv', [Next]_vars
                 PROVE  [Boards!Next]_(Boards!vars)
      OBVIOUS
    <2>1. /\ holder' \in [Board -> Session \cup {NoSession}]
          /\ Driving' \in [Board -> SUBSET Session]
      BY DEF Inv, SessionsTypeOK, Driving
    <2>2. ASSUME NEW s \in Session, Step(s) \/ Environment(s)
          PROVE  Boards!Next
      BY <2>1, <2>2, StepKind, EnvironmentKind, KindIsBoardStep DEF Boards!Next
    <2>3. ASSUME NEW b \in Board, PowerCycle(b)
          PROVE  UNCHANGED Boards!vars
      BY <2>3 DEF PowerCycle, Driving, Boards!vars
    <2>4. CASE UNCHANGED vars
      BY <2>4 DEF vars, Driving, Boards!vars
    <2> QED
      BY <2>2, <2>3, <2>4 DEF Next
  <1> QED
    BY <1>1, <1>2, Invariance, PTL DEF Spec, ImplementsBoardUse, Boards!Spec

-----------------------------------------------------------------------------
(***************************************************************************)
(* What a session is handed.                                               *)
(***************************************************************************)
\* A session writes to no relay but the one whose lock it holds.
LEMMA OthersLeaveRelay ==
    ASSUME Inv, NEW s \in Session, Step(s) \/ Environment(s),
           NEW b \in Board, holder[b] # s
    PROVE  relay'[b] = relay[b]
  <1>1. use[s].pc \in Held => BoardOf(s) # b
    BY DEF Inv, HolderDrives
  <1>2. relay \in [Board -> RelayState]
    BY DEF Inv, SessionsTypeOK
  <1>3. CASE Hello(s) \/ Normalize(s) \/ ClearStoredConfig(s) \/ Tune(s) \/ SerialReset(s) \/ UserActs(s)
    <2>1. BoardOf(s) # b
      BY <1>1, <1>3 DEF Hello, Normalize, ClearStoredConfig, Tune, SerialReset, UserActs, Held
    <2> QED
      BY <1>2, <1>3, <2>1 DEF Hello, Normalize, ClearStoredConfig, Tune, SerialReset, UserActs
  <1>4. CASE UNCHANGED relay
    BY <1>4
  <1> QED
    BY <1>3, <1>4 DEF Step, Environment, LockBoard, OpenPort, ClosePortOf, Unlock, ProcessExits,
       Accept, FindFreeRelay, FindBoard, GiveUp, Quit, BannerFails, OpenFails, WriteFails,
       LoseConnection, CommandDies

\* The way to the banner and to the tuning is a normalize whose "?" found the
\* command plane and the defaults.
LEMMA VerifiedBeforeUse ==
    ASSUME Inv, NEW s \in Session, Step(s) \/ Environment(s),
           use'[s].pc \in {"banner", "tune"}
    PROVE  relay'[use'[s].board].plane = "command" /\ relay'[use'[s].board].cfg = "default"
  <1>1. SessionsTypeOK
    BY DEF Inv
  <1>2. CASE Normalize(s)
    <2>1. CASE AfterRelayError(s)
      BY <1>1, <2>1, WayOut DEF Moves
    <2>2. CASE Goto(s, AfterNormalize(s)) /\ ~AfterRelayError(s)
      <3>1. use'[s].board = BoardOf(s)
        BY <1>1, <2>2, GotoMoves DEF Moves, AfterNormalize, Pcs, BoardOf
      <3> QED
        BY <1>2, <2>2, <3>1 DEF Normalize
    <2> QED
      BY <1>2, <2>1, <2>2 DEF Normalize
  <1>3. CASE Hello(s) \/ Quit(s) \/ WriteFails(s)
    <2>1. \/ Goto(s, "normalize")
          \/ AfterRelayError(s) \/ AfterWriteError(s) \/ Leave(s)
      BY <1>3 DEF Hello, Quit, WriteFails
    <2> QED
      BY <1>1, <2>1, GotoMoves, WayOut DEF Moves, Pcs
  <1>4. CASE OpenFails(s)
    BY <1>1, <1>4, WayOutOfOpening DEF Moves, OpenFails
  <1>5. CASE SerialReset(s) \/ UserActs(s)
    BY <1>5 DEF SerialReset, UserActs
  <1>6. CASE LockBoard(s)
    BY <1>1, <1>6, GotoMoves DEF LockBoard, Moves, Pcs
  <1>7. CASE OpenPort(s)
    BY <1>1, <1>7, GotoMoves DEF OpenPort, AfterOpen, Moves, Pcs
  <1>8. CASE Tune(s) \/ ClearStoredConfig(s) \/ ClosePortOf(s) \/ ProcessExits(s)
    BY <1>1, <1>8, GotoMoves DEF Tune, ClearStoredConfig, ClosePortOf, ProcessExits, Moves, Pcs
  <1>9. CASE Unlock(s)
    <2>1. Moves(s, IF s \in openers[BoardOf(s)] THEN "abandoned" ELSE "done")
      BY <1>1, <1>9, GotoMoves DEF Unlock, Pcs
    <2> QED
      BY <2>1 DEF Moves
  <1>10. CASE Accept(s) \/ FindFreeRelay(s) \/ FindBoard(s)
    BY <1>1, <1>10
    DEF Accept, FindFreeRelay, FindBoard, Goto, SessionsTypeOK, UseState
  <1>11. CASE GiveUp(s) \/ LoseConnection(s) \/ CommandDies(s)
    BY <1>1, <1>11, GotoMoves DEF GiveUp, LoseConnection, CommandDies, Moves, Pcs
  <1>12. CASE BannerFails(s)
    BY <1>1, <1>12, GotoPhaseMoves DEF BannerFails, Moves, Pcs
  <1> QED
    BY <1>2, <1>3, <1>4, <1>5, <1>6, <1>7, <1>8, <1>9, <1>10, <1>11, <1>12
    DEF Step, Environment

\* Whatever earlier sessions left on a relay, and however they ended, the
\* next one gets it in its command plane, at the factory defaults: nobody
\* else can spoil it between the verified normalize and the use
\* (RelayControl.reset_and_normalize).
THEOREM CleanHandover == Spec => []HandedOverIsNormalized
  <1>1. Init => HandedOverIsNormalized
    BY DEF Init, HandedOverIsNormalized
  <1>2. Inv /\ HandedOverIsNormalized /\ [Next]_vars => HandedOverIsNormalized'
    <2> SUFFICES ASSUME Inv, HandedOverIsNormalized, [Next]_vars,
                        NEW t \in Session, use'[t].pc \in {"banner", "tune"}
                 PROVE  /\ relay'[use'[t].board].plane = "command"
                        /\ relay'[use'[t].board].cfg = "default"
      BY DEF HandedOverIsNormalized, BoardOf
    <2>1. ASSUME NEW s \in Session, Step(s) \/ Environment(s)
          PROVE  /\ relay'[use'[t].board].plane = "command"
                 /\ relay'[use'[t].board].cfg = "default"
      <3>1. CASE t = s
        BY <2>1, <3>1, VerifiedBeforeUse
      <3>2. CASE t # s
        <4>1. Kind(s)
          BY <2>1, StepKind, EnvironmentKind
        <4>2. use'[t] = use[t]
          BY <3>2, <4>1 DEF Kind, Advances, Closes, Chooses, Opens, GivesBack, Takes, Moves
        <4>3. BoardOf(t) \in Board /\ holder[BoardOf(t)] = t
          BY <4>2 DEF Inv, SessionsTypeOK, HolderDrives, Held
        <4>4. relay'[BoardOf(t)] = relay[BoardOf(t)]
          BY <2>1, <3>2, <4>3, OthersLeaveRelay
        <4> QED
          BY <4>2, <4>4 DEF HandedOverIsNormalized, BoardOf
      <3> QED
        BY <3>1, <3>2
    <2>2. ASSUME NEW b \in Board, PowerCycle(b)
          PROVE  /\ relay'[use'[t].board].plane = "command"
                 /\ relay'[use'[t].board].cfg = "default"
      <3>1. use' = use /\ holder[BoardOf(t)] = t /\ BoardOf(t) \in Board
        BY <2>2 DEF PowerCycle, Inv, SessionsTypeOK, HolderDrives, Held
      <3>2. BoardOf(t) # b
        BY <2>2, <3>1, NoSessionIsNoSession DEF PowerCycle, Session
      <3>3. relay'[BoardOf(t)] = relay[BoardOf(t)]
        BY <2>2, <3>1, <3>2 DEF PowerCycle, Inv, SessionsTypeOK
      <3> QED
        BY <3>1, <3>3 DEF HandedOverIsNormalized, BoardOf
    <2>3. CASE UNCHANGED vars
      BY <2>3 DEF vars, HandedOverIsNormalized, BoardOf
    <2> QED
      BY <2>1, <2>2, <2>3 DEF Next
  <1> QED
    BY <1>1, <1>2, Invariance, PTL DEF Spec
=============================================================================

-------------------------------- MODULE Sessions --------------------------------
(***************************************************************************)
(* Everything that uses a relay board's serial port: the console pool of   *)
(* the owner's daemon (registry/console_compat/relay_pool.py), and the     *)
(* commands mbrelay and mbserial, run on the owner's host or on a peer's   *)
(* through the owner's stream handler (registry/_api_base.py).  All of     *)
(* them take the board's lock, drive the board with the relay protocol     *)
(* (relay/protocol.py over relay/channel.py, serial/connect.py and         *)
(* serial/remote_connect.py), and give it back on their way out.           *)
(*                                                                         *)
(* A relay answers commands in its command plane only; in its data plane   *)
(* what is written goes out by radio, and only a reset (a BREAK) gets it   *)
(* back.  The bytes themselves are left out.                               *)
(***************************************************************************)
EXTENDS FiniteSets

CONSTANTS
    Board,
    PoolSession,    \* connections to the console pool
    Command,        \* invocations of mbrelay or mbserial
    Away,           \* the ones run on a peer of the boards' host
    Untrusted,      \* sessions whose port I/O may raise
    NoBoard, NoSession

ASSUME AwayAreCommands == Away \subseteq Command
ASSUME KindsAreDisjoint == PoolSession \cap Command = {}
ASSUME NoSessionIsNoSession == NoSession \notin PoolSession \cup Command
ASSUME NoBoardIsNoBoard == NoBoard \notin Board

Session == PoolSession \cup Command

VARIABLES
    relay,      \* Board -> [plane, cfg, stored], the firmware's state
    holder,     \* Board -> the session that holds its lock, or NoSession
    openers,    \* Board -> sessions that have its serial port open
    use         \* Session -> [pc, kind, phase, board]

vars == <<relay, holder, openers, use>>

Cfg == {"default", "other"}
RelayState == [plane: {"command", "data"}, cfg: Cfg, stored: Cfg]

(***************************************************************************)
(* phase tells the pool's reset_and_normalize on acquire from the one on   *)
(* release.  "abandoned" is a command that has given the lock back and     *)
(* closes its port only by exiting.                                        *)
(***************************************************************************)
Pcs == {"new", "found", "opening", "hello", "normalize", "banner", "tune", "using",
        "clearing", "closing", "unlocking", "abandoned", "done"}
UseState == [pc: Pcs, kind: {"pool", "relay", "serial"}, phase: {"acquire", "release"},
             board: Board \cup {NoBoard}]

Init ==
    /\ relay = [b \in Board |-> [plane |-> "command", cfg |-> "default", stored |-> "default"]]
    /\ holder = [b \in Board |-> NoSession]
    /\ openers = [b \in Board |-> {}]
    /\ use = [s \in Session |-> [pc |-> "new", kind |-> IF s \in PoolSession THEN "pool" ELSE "relay",
                                 phase |-> "acquire", board |-> NoBoard]]

BoardOf(s) == use[s].board
Goto(s, pc) == use' = [use EXCEPT ![s].pc = pc]
GotoPhase(s, pc, phase) == use' = [use EXCEPT ![s].pc = pc, ![s].phase = phase]
ClosePort(s) == openers' = [openers EXCEPT ![BoardOf(s)] = @ \ {s}]
-----------------------------------------------------------------------------
(***************************************************************************)
(* Getting a board.  The pool picks and locks in one section under the     *)
(* shared lock; a command picks from a list answer, and locks later.       *)
(***************************************************************************)
FreeRelays == {b \in Board : holder[b] = NoSession}

\* Faulty variant: the relay picked is used without a look at whether there
\* was one.
AcceptUnchecked(s) ==
    /\ use[s].kind = "pool" /\ use[s].pc = "new"
    /\ \E b \in IF FreeRelays = {} THEN {NoBoard} ELSE FreeRelays :
         /\ holder' = [holder EXCEPT ![b] = s]
         /\ use' = [use EXCEPT ![s].pc = "opening", ![s].board = b]
    /\ UNCHANGED <<relay, openers>>

\* RelayPool._handle_connection's locked section; no free relay is a reject.
Accept(s) ==
    /\ use[s].kind = "pool" /\ use[s].pc = "new"
    /\ IF FreeRelays = {}
         THEN Goto(s, "done") /\ UNCHANGED holder
         ELSE \E b \in FreeRelays :
                /\ holder' = [holder EXCEPT ![b] = s]
                /\ use' = [use EXCEPT ![s].pc = "opening", ![s].board = b]
    /\ UNCHANGED <<relay, openers>>

\* mbrelay connect: the first free relay of the list, and the robot's entry.
FindFreeRelay(s) ==
    /\ s \in Command /\ use[s].pc = "new"
    /\ \/ \E b \in FreeRelays : use' = [use EXCEPT ![s].pc = "found", ![s].board = b]
       \/ FreeRelays = {} /\ Goto(s, "done")
    /\ UNCHANGED <<relay, holder, openers>>

\* mbserial connect to an attached board; another name goes through a relay.
FindBoard(s) ==
    /\ s \in Command /\ use[s].pc = "new"
    /\ \E b \in Board : use' = [use EXCEPT ![s].pc = "found", ![s].kind = "serial", ![s].board = b]
    /\ UNCHANGED <<relay, holder, openers>>

\* The name does not resolve, no registry answers, no endpoint is known.
GiveUp(s) ==
    /\ s \in Command /\ use[s].pc \in {"new", "found"}
    /\ Goto(s, "done")
    /\ UNCHANGED <<relay, holder, openers>>

\* Faulty variant: the answer to the lock request is not looked at, and the
\* owner's lock table not either.
LockBoardAnyway(s) ==
    /\ use[s].pc = "found"
    /\ holder' = [holder EXCEPT ![BoardOf(s)] = s] /\ Goto(s, "opening")
    /\ UNCHANGED <<relay, openers>>

\* client.lock, here or on the owner; DeviceLockedError ends the command.
LockBoard(s) ==
    /\ use[s].pc = "found"
    /\ IF holder[BoardOf(s)] = NoSession
         THEN holder' = [holder EXCEPT ![BoardOf(s)] = s] /\ Goto(s, "opening")
         ELSE Goto(s, "done") /\ UNCHANGED holder
    /\ UNCHANGED <<relay, openers>>
-----------------------------------------------------------------------------
(***************************************************************************)
(* The port.  For a session that is Away the owner's stream handler has    *)
(* it: it opens after the ack and closes and releases in its finally.      *)
(***************************************************************************)
\* The pool opens a second time after its banner, to pump.
AfterOpen(s) == IF use[s].kind = "serial" \/ use[s].pc = "banner" THEN "using" ELSE "hello"

\* open_no_reboot: the board is left as it is.
OpenPort(s) ==
    /\ \/ use[s].pc = "opening"
       \/ use[s].kind = "pool" /\ use[s].pc = "banner"
    /\ openers' = [openers EXCEPT ![BoardOf(s)] = @ \cup {s}]
    /\ Goto(s, AfterOpen(s))
    /\ UNCHANGED <<relay, holder>>

\* BREAK: the firmware starts again, from its stored configuration.
Reset(r) == [r EXCEPT !.plane = "command", !.cfg = r.stored]

\* mbserial --reset, by a BREAK or by reopening the port with DTR.
SerialReset(s) ==
    /\ use[s].kind = "serial" /\ use[s].pc = "using"
    /\ relay' = [relay EXCEPT ![BoardOf(s)] = Reset(@)]
    /\ UNCHANGED <<holder, openers, use>>
-----------------------------------------------------------------------------
(***************************************************************************)
(* RelayControl: hello, normalize and its verification, and the clearing   *)
(* of the stored configuration.                                            *)
(***************************************************************************)
\* Faulty variant: the reset on acquire is outside the try.
AfterRelayErrorReturns(s) ==
    CASE use[s].kind = "relay" -> Goto(s, "clearing") /\ UNCHANGED openers
      [] use[s].kind # "relay" /\ use[s].phase = "acquire" -> Goto(s, "done") /\ ClosePort(s)
      [] OTHER -> Goto(s, "unlocking") /\ ClosePort(s)

\* Where a RelayError leaves the session.  reset_and_normalize has closed
\* the port by then; mbrelay still has it open for its finally.
AfterRelayError(s) ==
    CASE use[s].kind = "relay" -> Goto(s, "clearing") /\ UNCHANGED openers
      [] use[s].kind # "relay" /\ use[s].phase = "acquire" ->
            GotoPhase(s, "opening", "release") /\ ClosePort(s)
      [] OTHER -> Goto(s, "unlocking") /\ ClosePort(s)

\* A banner in the command plane.  Else, or when HELLO was lost, a BREAK and
\* the question again, which may stay unanswered too.
Hello(s) ==
    /\ use[s].pc = "hello"
    /\ LET b == BoardOf(s)
       IN  \/ relay[b].plane = "command" /\ Goto(s, "normalize") /\ UNCHANGED <<relay, openers>>
           \/ relay' = [relay EXCEPT ![b] = Reset(@)] /\ Goto(s, "normalize") /\ UNCHANGED openers
           \/ relay' \in {relay, [relay EXCEPT ![b] = Reset(@)]} /\ AfterRelayError(s)
    /\ UNCHANGED holder

AfterNormalize(s) == CASE use[s].kind = "relay" -> "tune"
                       [] use[s].kind # "relay" /\ use[s].phase = "acquire" -> "banner"
                       [] OTHER -> "clearing"

\* Faulty variant: the steps are sent, but no "?" confirms them.
NormalizeUnverified(s) ==
    LET b == BoardOf(s)
    IN  /\ use[s].pc = "normalize"
        /\ \E taken \in BOOLEAN :
             relay' = [relay EXCEPT ![b].cfg = IF taken /\ relay[b].plane = "command"
                                                 THEN "default" ELSE @]
        /\ Goto(s, AfterNormalize(s))
        /\ IF AfterNormalize(s) = "banner" THEN ClosePort(s) ELSE UNCHANGED openers
        /\ UNCHANGED holder

\* The steps may be lost; only what "?" then answers decides.
Normalize(s) ==
    LET b == BoardOf(s)
    IN  /\ use[s].pc = "normalize"
        /\ \E taken \in BOOLEAN :
             relay' = [relay EXCEPT ![b].cfg = IF taken /\ relay[b].plane = "command"
                                                 THEN "default" ELSE @]
        /\ \/ /\ relay'[b].plane = "command" /\ relay'[b].cfg = "default"
              /\ Goto(s, AfterNormalize(s))
              /\ IF AfterNormalize(s) = "banner" THEN ClosePort(s) ELSE UNCHANGED openers
           \/ AfterRelayError(s)
        /\ UNCHANGED holder

\* !DEFAULTS: best effort, and only the command plane hears it.
ClearStoredConfig(s) ==
    LET b == BoardOf(s)
    IN  /\ use[s].pc = "clearing"
        /\ \E taken \in BOOLEAN :
             relay' = [relay EXCEPT ![b].stored = IF taken /\ relay[b].plane = "command"
                                                    THEN "default" ELSE @]
        /\ Goto(s, "closing")
        /\ UNCHANGED <<holder, openers>>
-----------------------------------------------------------------------------
(***************************************************************************)
(* The session itself.                                                     *)
(***************************************************************************)
\* The pool could not write the banner: the client has gone.
BannerFails(s) ==
    /\ use[s].kind = "pool" /\ use[s].pc = "banner"
    /\ GotoPhase(s, "opening", "release")
    /\ UNCHANGED <<relay, holder, openers>>

\* mbrelay's _tune: !CG, then !GO; a refusal or a timeout is a RelayError.
Tune(s) ==
    LET b == BoardOf(s)
    IN  /\ use[s].pc = "tune"
        /\ \/ /\ relay' = [relay EXCEPT ![b].cfg = "other", ![b].plane = "data"]
              /\ Goto(s, "using")
           \/ /\ relay' \in {relay, [relay EXCEPT ![b].cfg = "other"],
                             [relay EXCEPT ![b].cfg = "other", ![b].plane = "data"]}
              /\ Goto(s, "clearing")
        /\ UNCHANGED <<holder, openers>>

\* What the user types or sends, in the command plane, may change anything.
UserActs(s) ==
    LET b == BoardOf(s)
    IN  /\ use[s].pc = "using"
        /\ relay[b].plane = "command"
        /\ \E r \in RelayState : relay' = [relay EXCEPT ![b] = r]
        /\ UNCHANGED <<holder, openers, use>>

\* The way out of a session that is over, whoever ended it.
Leave(s) ==
    CASE use[s].kind = "pool" -> GotoPhase(s, "opening", "release") /\ ClosePort(s)
      [] use[s].kind = "relay" -> Goto(s, "clearing") /\ UNCHANGED openers
      [] OTHER -> Goto(s, "closing") /\ UNCHANGED openers

\* The user quits, the script ends, the pool's client disconnects.
Quit(s) ==
    /\ use[s].pc = "using"
    /\ Leave(s)
    /\ UNCHANGED <<relay, holder>>
-----------------------------------------------------------------------------
(***************************************************************************)
(* Giving the board back: the port first, then the lock.                   *)
(***************************************************************************)
\* Faulty variant: the lock first, then the port.
UnlockThenClose(s) ==
    /\ use[s].pc = "closing"
    /\ holder' = [holder EXCEPT ![BoardOf(s)] = IF @ = s THEN NoSession ELSE @]
    /\ Goto(s, "unlocking")
    /\ UNCHANGED <<relay, openers>>

ClosePortOf(s) ==
    /\ use[s].pc = "closing"
    /\ ClosePort(s)
    /\ Goto(s, "unlocking")
    /\ UNCHANGED <<relay, holder>>

\* The release of the pool, of client.unlock, of the stream handler's
\* finally, or of the connection handler of a process that has died.
Unlock(s) ==
    /\ use[s].pc = "unlocking"
    /\ holder' = [holder EXCEPT ![BoardOf(s)] = IF @ = s THEN NoSession ELSE @]
    /\ Goto(s, IF s \in openers[BoardOf(s)] THEN "abandoned" ELSE "done")
    /\ UNCHANGED <<relay, openers>>

ProcessExits(s) ==
    /\ use[s].pc = "abandoned"
    /\ ClosePort(s)
    /\ Goto(s, "done")
    /\ UNCHANGED <<relay, holder>>
-----------------------------------------------------------------------------
(***************************************************************************)
(* Failures.                                                               *)
(***************************************************************************)
Talking == {"hello", "normalize", "tune", "using", "clearing"}

\* ConnectError.  Nothing of the pool's finally comes after its own open.
AfterOpenFailure(s) ==
    CASE use[s].kind # "pool" -> Goto(s, "unlocking")
      [] use[s].kind = "pool" /\ use[s].phase = "acquire" -> GotoPhase(s, "opening", "release")
      [] OTHER -> Goto(s, "done")

OpenFails(s) ==
    /\ s \in Untrusted
    /\ \/ use[s].pc = "opening"
       \/ use[s].kind = "pool" /\ use[s].pc = "banner"
    /\ AfterOpenFailure(s)
    /\ UNCHANGED <<relay, holder, openers>>

\* A write that raises, and is no RelayError.  mbrelay's finally writes
\* again, so it raises before the close; so does mbserial's --reset.
AfterWriteError(s) ==
    IF s \in Away
      THEN Goto(s, "closing") /\ UNCHANGED openers
      ELSE CASE use[s].kind = "relay" -> Goto(s, "unlocking") /\ UNCHANGED openers
             [] use[s].kind = "serial" ->
                   (Goto(s, "closing") \/ Goto(s, "unlocking")) /\ UNCHANGED openers
             [] use[s].kind = "pool" /\ use[s].phase = "acquire" ->
                   GotoPhase(s, "opening", "release") /\ ClosePort(s)
             [] OTHER -> Goto(s, "done") /\ ClosePort(s)

WriteFails(s) ==
    /\ s \in Untrusted
    /\ use[s].pc \in Talking
    /\ AfterWriteError(s)
    /\ UNCHANGED <<relay, holder>>

\* The connection of a remote session ends, or its stream handler ends it.
LoseConnection(s) ==
    /\ s \in Away
    /\ use[s].pc \in Talking \cup {"opening"}
    /\ Goto(s, IF use[s].pc = "opening" THEN "unlocking" ELSE "closing")
    /\ UNCHANGED <<relay, holder, openers>>

\* A local command dies: its port closes with it, its connection too.
CommandDies(s) ==
    /\ s \in Command \ Away
    /\ use[s].pc \in Talking \cup {"opening", "closing", "abandoned"}
    /\ ClosePort(s)
    /\ Goto(s, "unlocking")
    /\ UNCHANGED <<relay, holder>>

\* Someone pulls the plug of a free relay, or presses its reset button.
PowerCycle(b) ==
    /\ holder[b] = NoSession
    /\ relay' = [relay EXCEPT ![b] = Reset(@)]
    /\ UNCHANGED <<holder, openers, use>>
-----------------------------------------------------------------------------
\* The steps a session takes by itself once it has begun.
Step(s) ==
    \/ LockBoard(s) \/ OpenPort(s)
    \/ Hello(s) \/ Normalize(s) \/ ClearStoredConfig(s) \/ Tune(s)
    \/ ClosePortOf(s) \/ Unlock(s) \/ ProcessExits(s)

\* What the users, the network and the hardware may do.
Environment(s) ==
    \/ Accept(s) \/ FindFreeRelay(s) \/ FindBoard(s) \/ GiveUp(s)
    \/ SerialReset(s) \/ UserActs(s) \/ Quit(s) \/ BannerFails(s)
    \/ OpenFails(s) \/ WriteFails(s) \/ LoseConnection(s) \/ CommandDies(s)

Next ==
    \/ \E s \in Session : Step(s) \/ Environment(s)
    \/ \E b \in Board : PowerCycle(b)

Spec == Init /\ [][Next]_vars

(***************************************************************************)
(* Every wait of the protocol has a timeout, and the release steps are in  *)
(* finally blocks, so a session that has begun goes on by itself.  Nothing *)
(* obliges a user to quit.                                                 *)
(***************************************************************************)
Fairness == \A s \in Session : WF_vars(Step(s))

FairSpec == Spec /\ Fairness
-----------------------------------------------------------------------------
\* The types; a session past its choice has a board.
SessionsTypeOK ==
    /\ relay \in [Board -> RelayState]
    /\ holder \in [Board -> Session \cup {NoSession}]
    /\ openers \in [Board -> SUBSET Session]
    /\ use \in [Session -> UseState]
    /\ \A s \in Session : use[s].pc \notin {"new", "done"} => BoardOf(s) \in Board

\* relay_pool.py, relay/cli.py, serial/connect.py and the stream handler all
\* rely on it: whoever talks to a board holds its lock, and nobody else has
\* its port open, except a command that is about to exit.
OnlyHolderTalks ==
    \A b \in Board : \A s \in openers[b] :
        use[s].pc = "abandoned" \/ holder[b] = s

\* Who drives each board: the sessions that have its port open, save the
\* commands about to exit.
Driving == [b \in Board |-> {s \in openers[b] : use[s].pc # "abandoned"}]

\* The same as an implementation of BoardUse: a board is only locked when its
\* port is closed, and is no longer driven once its lock has been released.
Boards == INSTANCE BoardUse WITH
    User <- Session, Nobody <- NoSession, owner <- holder, busy <- Driving

ImplementsBoardUse == Boards!Spec

\* RelayControl.reset_and_normalize ("to guarantee a clean board"): whatever
\* earlier sessions left behind, a session is handed a relay that answers in
\* its command plane, at the factory defaults.
HandedOverIsNormalized ==
    \A s \in Session : use[s].pc \in {"banner", "tune"} =>
        relay[BoardOf(s)].plane = "command" /\ relay[BoardOf(s)].cfg = "default"

\* A board whose user has left, was cut off or has died gets its lock back
\* and its port closed: nothing but a live user keeps a relay from the others.
LeftBoardComesBack ==
    \A s \in Session, b \in Board :
        (holder[b] = s \/ s \in openers[b])
          ~> (use[s].pc = "using" \/ (holder[b] # s /\ s \notin openers[b]))

\* relay_pool.py on its release: it "happens on every exit path", "never
\* leaving a board locked with no path back to the pool".
PoolReturnsEveryRelay ==
    \A s \in PoolSession : use[s].pc = "done" => \A b \in Board : holder[b] # s
=============================================================================

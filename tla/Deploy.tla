--------------------------------- MODULE Deploy ---------------------------------
(***************************************************************************)
(* mbdeploy on one board: deploy/cli.py's deploy and debug commands, the   *)
(* hex cache of deploy/release.py, and the flash engine they drive         *)
(* (registry/flashlogic.py, registry/flash.py), which runs pyocd under a   *)
(* watchdog, retries a transient failure once, and mass-erases a board     *)
(* whose failure says it is locked.                                        *)
(*                                                                         *)
(* A local deploy runs the engine in the mbdeploy process, a remote one in *)
(* the owner's server, which also releases the lock when the engine ends.  *)
(* pyocd changes the board at some point while it runs, then exits, is     *)
(* killed, or hangs.  The board's registry row is reduced to last_probe    *)
(* and the announcement of that probe.                                     *)
(***************************************************************************)
EXTENDS Naturals, FiniteSets

CONSTANTS
    Job,            \* mbdeploy invocations
    Remote,         \* the ones that deploy through the owner's remote API
    Debug,          \* the ones that are "mbdeploy debug"
    Asset,          \* hex files of the release
    Preferred,      \* the one chosen without --asset
    Asked,          \* Job -> the asset it names, or Preferred
    NoJob,
    MaxReplugs      \* bound on replugs of the board

ASSUME PreferredIsAsset == Preferred \in Asset
ASSUME AskedIsAsset == Asked \in [Job -> Asset]
ASSUME NoJobIsNoJob == NoJob \notin Job
ASSUME RemoteAreDeploys == Remote \cup Debug \subseteq Job /\ Remote \cap Debug = {}
ASSUME MaxReplugsIsNat == MaxReplugs \in Nat

\* What is in the board's flash memory besides an asset.
Firmware == Asset \cup {"factory", "broken", "blank"}
Runs(fw) == fw \in Asset \cup {"factory"}

VARIABLES
    board,      \* [fw, by, holder, lastProbe, announced, wantProbe]; by is a
                \* history field: the job whose pyocd last wrote the flash
    probe,      \* the daemon's probe: "none", or the firmware it heard
    cache,      \* assets in the cache directory of the release's tag
    job,        \* Job -> where its invocation is
    replugs

vars == <<board, probe, cache, job, replugs>>

\* The pyocd commands of _flash_hex, in order.
Engine == {"flash", "retry", "erase", "reflash", "reset"}
Pcs == {"find", "resolve", "lock", "debugging", "unlock", "waiting", "done"} \cup Engine

\* How a pyocd command ends: success, or what its output looks like.
Failure == {"denied", "transient", "locked", "other"}

JobState == [pc: Pcs, seen: Nat, image: Asset, worked: BOOLEAN, erased: BOOLEAN,
             warned: BOOLEAN, ok: BOOLEAN, exit: {"none", "ok", "failed", "unconfirmed", "debugged"}]

Init ==
    /\ board = [fw |-> "factory", by |-> NoJob, holder |-> NoJob, lastProbe |-> 1,
                announced |-> "factory", wantProbe |-> FALSE]
    /\ probe = "none"
    /\ cache = {}
    /\ job = [j \in Job |-> [pc |-> "find", seen |-> 0, image |-> Asked[j],
                             worked |-> FALSE, erased |-> FALSE, warned |-> FALSE,
                             ok |-> FALSE, exit |-> "none"]]
    /\ replugs = 0

Goto(j, pc) == job' = [job EXCEPT ![j].pc = pc]
Exit(j, how) == job' = [job EXCEPT ![j].pc = "done", ![j].exit = how]
-----------------------------------------------------------------------------
(***************************************************************************)
(* The command line: resolve the target, refuse a relay, fetch the hex,    *)
(* take the lock.  Any failure ends the command with nothing to undo.      *)
(***************************************************************************)
Find(j) ==
    /\ job[j].pc = "find"
    /\ \/ job' = [job EXCEPT ![j].pc = IF j \in Debug THEN "lock" ELSE "resolve",
                             ![j].seen = board.lastProbe]
       \/ Exit(j, "failed")
    /\ UNCHANGED <<board, probe, cache, replugs>>

\* _cache_lookup for a pinned tag.  Without --asset a single file counts.
CacheHit(j) == IF Asked[j] = Preferred /\ Cardinality(cache) = 1 THEN cache
               ELSE cache \cap {Asked[j]}

ResolveHex(j) ==
    /\ job[j].pc = "resolve"
    /\ \/ \E a \in IF CacheHit(j) # {} THEN CacheHit(j) ELSE {Asked[j]} :
            /\ job' = [job EXCEPT ![j].pc = "lock", ![j].image = a]
            /\ cache' = cache \cup {a}
       \/ Exit(j, "failed") /\ UNCHANGED cache
    /\ UNCHANGED <<board, probe, replugs>>

\* Faulty variant: the answer to lock is not looked at.
LockAnyway(j) ==
    /\ job[j].pc = "lock"
    /\ board' = [board EXCEPT !.holder = IF @ = NoJob THEN j ELSE @]
    /\ Goto(j, IF j \in Debug THEN "debugging" ELSE "flash")
    /\ UNCHANGED <<probe, cache, replugs>>

\* client.lock: DeviceLockedError ends the command.
Lock(j) ==
    /\ job[j].pc = "lock"
    /\ IF board.holder = NoJob
         THEN /\ board' = [board EXCEPT !.holder = j]
              /\ Goto(j, IF j \in Debug THEN "debugging" ELSE "flash")
         ELSE Exit(j, "failed") /\ UNCHANGED board
    /\ UNCHANGED <<probe, cache, replugs>>

\* Releasing a flash lock makes the daemon probe the board again.
Released(j) ==
    IF board.holder = j
      THEN [board EXCEPT !.holder = NoJob, !.wantProbe = @ \/ j \notin Debug]
      ELSE board

\* pyocd with the user's own arguments may do anything to the firmware, as
\* often as the user likes.  No watchdog and no timeout ends it.
DebugWrites(j) ==
    /\ job[j].pc = "debugging"
    /\ board' = [board EXCEPT !.fw = "broken", !.by = j]
    /\ UNCHANGED <<probe, cache, job, replugs>>

DebugEnds(j) ==
    /\ job[j].pc = "debugging"
    /\ Goto(j, "unlock")
    /\ UNCHANGED <<board, probe, cache, replugs>>

\* Faulty variant: only a successful flash is followed by the unlock.
UnlockOnSuccess(j) ==
    /\ job[j].pc = "unlock"
    /\ board' = IF job[j].ok THEN Released(j) ELSE board
    /\ IF job[j].ok THEN Goto(j, "waiting")
       ELSE Exit(j, IF j \in Debug THEN "debugged" ELSE "failed")
    /\ UNCHANGED <<probe, cache, replugs>>

\* The finally of _run_deploy_flow and of _run_debug.
Unlock(j) ==
    /\ job[j].pc = "unlock"
    /\ board' = Released(j)
    /\ IF job[j].ok THEN Goto(j, "waiting")
       ELSE Exit(j, IF j \in Debug THEN "debugged" ELSE "failed")
    /\ UNCHANGED <<probe, cache, replugs>>
-----------------------------------------------------------------------------
(***************************************************************************)
(* The engine.  A command's effect on the board happens once, before it    *)
(* exits; a flash that fails or is killed may have written the image, half *)
(* of it, or nothing.                                                      *)
(***************************************************************************)
Running(j) == job[j].pc \in Engine

PyocdWorks(j) ==
    /\ Running(j) /\ ~job[j].worked
    /\ \E fw \in IF job[j].pc = "erase" THEN {"blank"}
                 ELSE IF job[j].pc = "reset" THEN {board.fw}
                 ELSE {"broken", job[j].image} :
         board' = [board EXCEPT !.fw = fw, !.by = IF job[j].pc = "reset" THEN @ ELSE j]
    /\ job' = [job EXCEPT ![j].worked = TRUE]
    /\ UNCHANGED <<probe, cache, replugs>>

\* The engine is over: the server releases the lock of a remote deploy.
EngineEnds(j, ok, warned) ==
    /\ job' = [job EXCEPT ![j].pc = "unlock", ![j].ok = ok, ![j].warned = warned,
                          ![j].worked = FALSE]
    /\ board' = IF j \in Remote THEN Released(j) ELSE board

NextCommand(j, pc) ==
    /\ job' = [job EXCEPT ![j].pc = pc, ![j].worked = FALSE,
                          ![j].erased = @ \/ job[j].pc = "erase"]
    /\ UNCHANGED board

\* Faulty variant: a reflash that fails goes on to the reset.
PyocdFailsGoesOn(j, f) ==
    CASE job[j].pc = "flash" /\ f = "transient" -> NextCommand(j, "retry")
      [] job[j].pc \in {"flash", "retry"} /\ f = "locked" -> NextCommand(j, "erase")
      [] job[j].pc = "reflash" -> NextCommand(j, "reset")
      [] OTHER -> EngineEnds(j, FALSE, FALSE)

\* Faulty variant: a reflash that fails is reported like any other failure.
PyocdFailsSilently(j, f) ==
    CASE job[j].pc = "flash" /\ f = "transient" -> NextCommand(j, "retry")
      [] job[j].pc \in {"flash", "retry"} /\ f = "locked" -> NextCommand(j, "erase")
      [] OTHER -> EngineEnds(j, FALSE, FALSE)

\* What _flash_hex does with a failed command: a denied device is given up, a
\* transient failure retried once, a locked device mass-erased and reflashed,
\* and a reflash that fails is reported as a board without firmware.
PyocdFails(j, f) ==
    CASE job[j].pc = "flash" /\ f = "transient" -> NextCommand(j, "retry")
      [] job[j].pc \in {"flash", "retry"} /\ f = "locked" -> NextCommand(j, "erase")
      [] job[j].pc = "reflash" -> EngineEnds(j, FALSE, TRUE)
      [] OTHER -> EngineEnds(j, FALSE, FALSE)

PyocdSucceeds(j) ==
    CASE job[j].pc \in {"flash", "retry", "reflash"} -> NextCommand(j, "reset")
      [] job[j].pc = "erase" -> NextCommand(j, "reflash")
      [] job[j].pc = "reset" -> EngineEnds(j, TRUE, FALSE)

\* The command is through with its work, its whole image when it flashes.
Complete(j) ==
    job[j].worked /\ (job[j].pc \in {"erase", "reset"} \/ board.fw = job[j].image)

\* run_streamed_with_watchdog sees the end of the output.
PyocdExits(j) ==
    /\ Running(j)
    /\ \/ Complete(j) /\ PyocdSucceeds(j)
       \/ \E f \in Failure : PyocdFails(j, f)
    /\ UNCHANGED <<probe, cache, replugs>>

\* No output for no_progress_timeout: pyocd is killed and the run counts as
\* failed, with what it printed before, even if it had just exited with 0.
WatchdogKills(j) ==
    /\ Running(j)
    /\ \E f \in Failure : PyocdFails(j, f)
    /\ UNCHANGED <<probe, cache, replugs>>

\* _validate_hex and check_device_permission fail before any pyocd command.
EngineRefuses(j) ==
    /\ job[j].pc = "flash" /\ ~job[j].worked
    /\ EngineEnds(j, FALSE, FALSE)
    /\ UNCHANGED <<probe, cache, replugs>>
-----------------------------------------------------------------------------
(***************************************************************************)
(* After the flash: the daemon probes an unlocked board that wants it, and *)
(* the command polls for a probe later than the one it saw when it began.  *)
(***************************************************************************)
ProbeBegins ==
    /\ board.wantProbe /\ board.holder = NoJob /\ probe = "none"
    /\ probe' = board.fw
    /\ board' = [board EXCEPT !.wantProbe = FALSE]
    /\ UNCHANGED <<cache, job, replugs>>

ProbeEnds ==
    /\ probe # "none"
    /\ board' = [board EXCEPT !.lastProbe = @ + 1,
                              !.announced = IF Runs(probe) THEN probe ELSE "none"]
    /\ probe' = "none"
    /\ UNCHANGED <<cache, job, replugs>>

\* _wait_for_reprobe finds the row connected with a later last_probe.
Confirm(j) ==
    /\ job[j].pc = "waiting"
    /\ board.announced # "none" /\ board.lastProbe > job[j].seen
    /\ Exit(j, "ok")
    /\ UNCHANGED <<board, probe, cache, replugs>>

GiveUpWaiting(j) ==
    /\ job[j].pc = "waiting"
    /\ Exit(j, "unconfirmed")
    /\ UNCHANGED <<board, probe, cache, replugs>>

Replug ==
    /\ replugs < MaxReplugs
    /\ \A j \in Job : ~Running(j)
    /\ replugs' = replugs + 1
    /\ board' = [board EXCEPT !.wantProbe = TRUE]
    /\ UNCHANGED <<probe, cache, job>>
-----------------------------------------------------------------------------
JobStep(j) ==
    \/ Find(j) \/ ResolveHex(j) \/ Lock(j) \/ Unlock(j)
    \/ EngineRefuses(j) \/ Confirm(j) \/ GiveUpWaiting(j)

Next ==
    \/ \E j \in Job :
        \/ JobStep(j) \/ DebugWrites(j) \/ DebugEnds(j)
        \/ PyocdWorks(j) \/ PyocdExits(j) \/ WatchdogKills(j)
    \/ ProbeBegins \/ ProbeEnds \/ Replug

Spec == Init /\ [][Next]_vars

(***************************************************************************)
(* Fairness: commands run on, the watchdog's timer fires and polling ends. *)
(* Of a flashing pyocd only that it does not print for ever: it exits, or  *)
(* falls silent and is killed.  Nothing obliges a debugging one to end.    *)
(***************************************************************************)
FairSpec ==
    /\ Spec
    /\ \A j \in Job : WF_vars(JobStep(j)) /\ WF_vars(WatchdogKills(j))
    /\ WF_vars(ProbeBegins) /\ WF_vars(ProbeEnds)
-----------------------------------------------------------------------------
(***************************************************************************)
(* Properties.                                                             *)
(***************************************************************************)
\* The type invariant: one holder at most, jobs at known steps, and pyocd
\* runs for the holder of the board's lock only.
DeployTypeOK ==
    /\ board.fw \in Firmware
    /\ board.holder \in Job \cup {NoJob}
    /\ job \in [Job -> JobState]
    /\ cache \subseteq Asset
    /\ \A j \in Job : Running(j) \/ job[j].pc = "debugging" => board.holder = j

\* A deploy that the engine reports as successful left its own, whole image
\* on the board, through retries, mass erases and watchdog kills; it stays
\* there until another invocation writes the board, which none does before a
\* local deploy has unlocked it.
ReportedImageIsOnBoard ==
    \A j \in Job : job[j].ok =>
        /\ board.by = j => board.fw = job[j].image
        /\ job[j].pc = "unlock" /\ j \notin Remote => board.by = j

\* A deploy that erased the board and ends without a working image on it has
\* warned that the board is without firmware, unless another invocation has
\* written the board since.
ErasedBoardIsReported ==
    \A j \in Job :
        job[j].erased /\ job[j].exit = "failed" /\ board.by = j /\ ~Runs(board.fw)
            => job[j].warned

\* An invocation ends and leaves no lock behind, also when pyocd hangs while
\* it flashes; a debugging one as soon as its user's pyocd has ended, which it
\* waits for however long that takes (deploy/cli.py, _run_debug).
DeployEnds ==
    \A j \in Job :
        []<>(job[j].pc # "debugging") => <>[](job[j].pc = "done" /\ board.holder # j)
=============================================================================

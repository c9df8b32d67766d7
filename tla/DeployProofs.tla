------------------------------ MODULE DeployProofs ------------------------------
(***************************************************************************)
(* TLAPS proofs about Deploy, for any number of invocations, local, remote *)
(* and debug ones, any release and any number of replugs.                  *)
(***************************************************************************)
EXTENDS Deploy, TLAPS

(***************************************************************************)
(* The inductive invariant, as what is true of the invocation j in state s *)
(* when the board is in state b.  The lock is held from the first pyocd    *)
(* command to the unlock of a local deploy; meanwhile only its holder      *)
(* writes the board, so what its pyocd has written is still there.         *)
(***************************************************************************)
BoardState == [fw: Firmware, by: Job \cup {NoJob}, holder: Job \cup {NoJob}, lastProbe: Nat,
               announced: Firmware \cup {"none"}, wantProbe: BOOLEAN]

Over == {"unlock", "waiting", "done"}

\* Whoever may write the board holds its lock.
Holds(j, s, b) ==
    s.pc \in Engine \cup {"debugging"} \/ (s.pc = "unlock" /\ j \notin Remote)
        => b.holder = j

\* A command that has worked was the last to write the board, and the final
\* reset finds the whole image.
Wrote(j, s, b) ==
    /\ s.worked => s.pc \in Engine /\ b.by = j
    /\ s.pc = "reset" => b.by = j /\ b.fw = s.image

\* Success is reported of the image that is there.
Reports(j, s, b) ==
    s.ok => /\ s.pc \in Over
            /\ b.by = j => b.fw = s.image
            /\ s.pc = "unlock" /\ j \notin Remote => b.by = j

\* An erase is followed by an image, by a warning, or by someone else's write.
Warns(j, s, b) ==
    s.erased => /\ s.pc \in {"reflash", "reset"} \cup Over
                /\ s.pc \in Over /\ b.by = j /\ ~Runs(b.fw) => s.warned

Exits(s) == s.exit # "none" => s.pc = "done"

JobOK(j, s, b) ==
    Holds(j, s, b) /\ Wrote(j, s, b) /\ Reports(j, s, b) /\ Warns(j, s, b) /\ Exits(s)

Types ==
    /\ board \in BoardState
    /\ probe \in Firmware \cup {"none"}
    /\ job \in [Job -> JobState]
    /\ cache \subseteq Asset

Inv == Types /\ \A j \in Job : JobOK(j, job[j], board)

-----------------------------------------------------------------------------
(***************************************************************************)
(* What a step of j does to the others: to them it is one of four changes  *)
(* of the board.                                                           *)
(***************************************************************************)
BoardChange(j) ==
    \/ board' = board
    \/ board.holder = NoJob /\ board' = [board EXCEPT !.holder = j]
    \/ board' = Released(j)
    \/ board.holder = j /\ board'.holder = j /\ (board'.by = j \/ (board'.by = board.by /\ board'.fw = board.fw))

\* The others' part of the invariant outlives each of them.
LEMMA OthersKeepInv ==
    ASSUME Inv, NEW j \in Job, NEW k \in Job, k # j, BoardChange(j), job'[k] = job[k]
    PROVE  JobOK(k, job'[k], board')
  <1>1. JobOK(k, job[k], board) /\ board \in BoardState
    BY DEF Inv, Types
  <1>2. board.holder = k => board'.holder = k
    BY <1>1, NoJobIsNoJob DEF BoardChange, Released, BoardState
  <1>3. \/ board'.by = board.by /\ board'.fw = board.fw
        \/ board'.by = j /\ board.holder # k
    BY <1>1 DEF BoardChange, Released, BoardState
  <1>4. Holds(k, job[k], board')
    BY <1>1, <1>2 DEF JobOK, Holds
  <1>5. Wrote(k, job[k], board')
    BY <1>1, <1>3 DEF JobOK, Wrote, Holds, Engine
  <1>6. Reports(k, job[k], board')
    BY <1>1, <1>3 DEF JobOK, Reports, Holds
  <1>7. Warns(k, job[k], board')
    BY <1>1, <1>3 DEF JobOK, Warns
  <1> QED
    BY <1>1, <1>4, <1>5, <1>6, <1>7 DEF JobOK

\* A step of j keeps the invariant when it keeps its own part.
LEMMA StepKeepsInv ==
    ASSUME Inv, NEW j \in Job, NEW s \in JobState, job' = [job EXCEPT ![j] = s],
           BoardChange(j), board' \in BoardState, JobOK(j, s, board'),
           cache' \subseteq Asset, UNCHANGED probe
    PROVE  Inv'
  <1>1. job \in [Job -> JobState]
    BY DEF Inv, Types
  <1>2. job'[j] = s /\ \A k \in Job \ {j} : job'[k] = job[k]
    BY <1>1
  <1>3. Types'
    BY <1>1 DEF Inv, Types
  <1> QED
    BY <1>2, <1>3, OthersKeepInv DEF Inv

-----------------------------------------------------------------------------
\* A command that fails before it has the lock, or ends otherwise with
\* nothing to undo, leaves its lock and the board alone.
LEMMA ExitKeepsInv ==
    ASSUME Inv, NEW j \in Job, NEW how \in {"ok", "failed", "unconfirmed"}, Exit(j, how),
           ~Running(j), job[j].pc # "debugging", UNCHANGED <<board, probe, cache>>
    PROVE  Inv'
  <1> DEFINE s == [job[j] EXCEPT !.pc = "done", !.exit = how]
  <1>1. job[j] \in JobState /\ JobOK(j, job[j], board) /\ job \in [Job -> JobState]
    BY DEF Inv, Types
  <1>2. s \in JobState /\ job' = [job EXCEPT ![j] = s]
    BY <1>1 DEF Exit, JobState, Pcs
  <1>3. JobOK(j, s, board')
    BY <1>1 DEF JobOK, Holds, Wrote, Reports, Warns, Exits, Over, Engine, JobState, Running
  <1>4. BoardChange(j) /\ board' \in BoardState /\ cache' \subseteq Asset
    BY DEF BoardChange, Inv, Types
  <1> HIDE DEF s
  <1> QED
    BY <1>2, <1>3, <1>4, StepKeepsInv

\* Resolving the target.
LEMMA FindKeepsInv ==
    ASSUME Inv, NEW j \in Job, Find(j)
    PROVE  Inv'
  <1> DEFINE s == [job[j] EXCEPT !.pc = IF j \in Debug THEN "lock" ELSE "resolve",
                                 !.seen = board.lastProbe]
  <1>1. job[j] \in JobState /\ JobOK(j, job[j], board) /\ job \in [Job -> JobState]
    BY DEF Inv, Types
  <1>2. CASE Exit(j, "failed")
    BY <1>2, ExitKeepsInv DEF Find, Running, Engine
  <1>3. CASE ~Exit(j, "failed")
    <2>1. board.lastProbe \in Nat
      BY DEF Inv, Types, BoardState
    <2>2. s \in JobState /\ job' = [job EXCEPT ![j] = s]
      BY <1>1, <1>3, <2>1 DEF Find, JobState, Pcs
    <2>3. JobOK(j, s, board')
      BY <1>1 DEF Find, JobOK, Holds, Wrote, Reports, Warns, Exits, Over, Engine, JobState
    <2>4. BoardChange(j) /\ board' \in BoardState /\ cache' \subseteq Asset /\ UNCHANGED probe
      BY DEF Find, BoardChange, Inv, Types
    <2> HIDE DEF s
    <2> QED
      BY <2>2, <2>3, <2>4, StepKeepsInv
  <1> QED
    BY <1>2, <1>3

\* Fetching the hex file.
LEMMA ResolveKeepsInv ==
    ASSUME Inv, NEW j \in Job, ResolveHex(j)
    PROVE  Inv'
  <1>1. job[j] \in JobState /\ JobOK(j, job[j], board) /\ job \in [Job -> JobState]
    BY DEF Inv, Types
  <1>2. CASE Exit(j, "failed") /\ UNCHANGED cache
    BY <1>2, ExitKeepsInv DEF ResolveHex, Running, Engine
  <1>3. CASE ~(Exit(j, "failed") /\ UNCHANGED cache)
    <2>1. CacheHit(j) \subseteq Asset /\ Asked[j] \in Asset
      BY AskedIsAsset DEF CacheHit, Inv, Types
    <2>2. PICK a \in Asset : job' = [job EXCEPT ![j].pc = "lock", ![j].image = a]
                               /\ cache' = cache \cup {a}
      BY <1>3, <2>1 DEF ResolveHex
    <2> DEFINE s == [job[j] EXCEPT !.pc = "lock", !.image = a]
    <2>3. s \in JobState /\ job' = [job EXCEPT ![j] = s]
      BY <1>1, <2>2 DEF JobState, Pcs
    <2>4. JobOK(j, s, board')
      BY <1>1 DEF ResolveHex, JobOK, Holds, Wrote, Reports, Warns, Exits, Over, Engine, JobState
    <2>5. BoardChange(j) /\ board' \in BoardState /\ cache' \subseteq Asset /\ UNCHANGED probe
      BY <2>2 DEF ResolveHex, BoardChange, Inv, Types
    <2> HIDE DEF s
    <2> QED
      BY <2>3, <2>4, <2>5, StepKeepsInv
  <1> QED
    BY <1>2, <1>3

\* Taking the lock.
LEMMA LockKeepsInv ==
    ASSUME Inv, NEW j \in Job, Lock(j)
    PROVE  Inv'
  <1> DEFINE s == [job[j] EXCEPT !.pc = IF j \in Debug THEN "debugging" ELSE "flash"]
  <1>1. job[j] \in JobState /\ JobOK(j, job[j], board) /\ job \in [Job -> JobState]
    BY DEF Inv, Types
  <1>2. CASE board.holder # NoJob
    BY <1>2, ExitKeepsInv DEF Lock, Running, Engine
  <1>3. CASE board.holder = NoJob
    <2>1. s \in JobState /\ job' = [job EXCEPT ![j] = s]
      BY <1>1, <1>3 DEF Lock, Goto, JobState, Pcs, Engine
    <2>2. board' = [board EXCEPT !.holder = j] /\ board' \in BoardState
      BY <1>3 DEF Lock, Inv, Types, BoardState
    <2>3. BoardChange(j) /\ cache' \subseteq Asset /\ UNCHANGED probe
      BY <1>3, <2>2 DEF Lock, BoardChange, Inv, Types
    <2>4. board'.holder = j /\ job[j].pc = "lock"
      BY <2>2 DEF Lock, Inv, Types, BoardState
    <2>5. ~job[j].worked
      BY <1>1, <2>4 DEF JobOK, Wrote, Engine, JobState
    <2>6. JobOK(j, s, board')
      BY <1>1, <2>4, <2>5 DEF JobOK, Holds, Wrote, Reports, Warns, Exits, Over, Engine, JobState
    <2> HIDE DEF s
    <2> QED
      BY <2>1, <2>2, <2>3, <2>6, StepKeepsInv
  <1> QED
    BY <1>2, <1>3

\* The debug session's pyocd.
LEMMA DebugKeepsInv ==
    ASSUME Inv, NEW j \in Job, DebugWrites(j) \/ DebugEnds(j)
    PROVE  Inv'
  <1> DEFINE s == IF DebugEnds(j) THEN [job[j] EXCEPT !.pc = "unlock"] ELSE job[j]
  <1>1. job[j] \in JobState /\ JobOK(j, job[j], board) /\ job \in [Job -> JobState]
    BY DEF Inv, Types
  <1>2. s \in JobState /\ job' = [job EXCEPT ![j] = s]
    BY <1>1 DEF DebugWrites, DebugEnds, Goto, JobState, Pcs
  <1>3. board \in BoardState /\ board.holder = j
    BY <1>1 DEF DebugWrites, DebugEnds, JobOK, Holds, Inv, Types
  <1>4. board' \in BoardState /\ board'.holder = j
    BY <1>3 DEF DebugWrites, DebugEnds, BoardState, Firmware
  <1>5. BoardChange(j) /\ cache' \subseteq Asset /\ UNCHANGED probe
    BY <1>3, <1>4 DEF DebugWrites, DebugEnds, BoardChange, BoardState, Inv, Types
  <1>6. ~job[j].worked /\ ~job[j].ok /\ ~job[j].erased /\ job[j].exit = "none"
    BY <1>1 DEF DebugWrites, DebugEnds, JobOK, Wrote, Reports, Warns, Exits, Over, Engine, JobState
  <1>7. /\ s.pc \in {"debugging", "unlock"}
        /\ s.worked = job[j].worked /\ s.ok = job[j].ok
        /\ s.erased = job[j].erased /\ s.exit = job[j].exit
    BY <1>1 DEF DebugWrites, DebugEnds, JobState
  <1>8. JobOK(j, s, board')
    BY <1>1, <1>4, <1>6, <1>7 DEF JobOK, Holds, Wrote, Reports, Warns, Exits, Over, Engine, JobState
  <1> HIDE DEF s
  <1> QED
    BY <1>2, <1>4, <1>5, <1>8, StepKeepsInv

\* Releasing the lock keeps the board's record one, and its firmware.
LEMMA ReleasedType ==
    ASSUME Inv, NEW j \in Job
    PROVE  /\ Released(j) \in BoardState
           /\ Released(j).fw = board.fw /\ Released(j).by = board.by
  BY DEF Released, Inv, Types, BoardState

\* The unlock.
LEMMA UnlockKeepsInv ==
    ASSUME Inv, NEW j \in Job, Unlock(j)
    PROVE  Inv'
  <1>1. job[j] \in JobState /\ JobOK(j, job[j], board) /\ job \in [Job -> JobState]
    BY DEF Inv, Types
  <1>2. /\ board' \in BoardState /\ board'.fw = board.fw /\ board'.by = board.by
        /\ BoardChange(j) /\ cache' \subseteq Asset /\ UNCHANGED probe
    BY ReleasedType DEF Unlock, BoardChange, Inv, Types
  <1>3. ASSUME NEW s \in JobState, job' = [job EXCEPT ![j] = s], s.pc \in {"waiting", "done"},
               s.worked = job[j].worked, s.ok = job[j].ok, s.erased = job[j].erased,
               s.warned = job[j].warned, s.image = job[j].image, Exits(s)
        PROVE  Inv'
    <2>1. JobOK(j, s, board')
      BY <1>1, <1>2, <1>3 DEF Unlock, JobOK, Holds, Wrote, Reports, Warns, Over, Engine
    <2> QED
      BY <1>2, <1>3, <2>1, StepKeepsInv
  <1>4. job[j].exit = "none"
    BY <1>1 DEF Unlock, JobOK, Exits
  <1>5. CASE job[j].ok
    <2> DEFINE s == [job[j] EXCEPT !.pc = "waiting"]
    <2>1. s \in JobState /\ s.pc = "waiting"
            /\ s.worked = job[j].worked /\ s.ok = job[j].ok /\ s.erased = job[j].erased
            /\ s.warned = job[j].warned /\ s.image = job[j].image /\ s.exit = "none"
      BY <1>1, <1>4 DEF JobState, Pcs
    <2>2. Goto(j, "waiting")
      BY <1>5 DEF Unlock
    <2>3. job' = [job EXCEPT ![j] = s]
      BY <1>1, <2>2 DEF Goto
    <2> HIDE DEF s
    <2> QED
      BY <1>3, <2>1, <2>3 DEF Exits
  <1>6. CASE ~job[j].ok
    <2>1. PICK how \in {"debugged", "failed"} : Exit(j, how)
      BY <1>6 DEF Unlock
    <2> DEFINE s == [job[j] EXCEPT !.pc = "done", !.exit = how]
    <2>2. s \in JobState /\ job' = [job EXCEPT ![j] = s] /\ s.pc = "done"
            /\ s.worked = job[j].worked /\ s.ok = job[j].ok /\ s.erased = job[j].erased
            /\ s.warned = job[j].warned /\ s.image = job[j].image /\ Exits(s)
      BY <1>1, <2>1 DEF Exit, JobState, Pcs, Exits
    <2> HIDE DEF s
    <2> QED
      BY <1>3, <2>2
  <1> QED
    BY <1>5, <1>6

-----------------------------------------------------------------------------
\* pyocd does its work on the board.
LEMMA WorkKeepsInv ==
    ASSUME Inv, NEW j \in Job, PyocdWorks(j)
    PROVE  Inv'
  <1> DEFINE s == [job[j] EXCEPT !.worked = TRUE]
  <1>1. job[j] \in JobState /\ JobOK(j, job[j], board) /\ job \in [Job -> JobState]
    BY DEF Inv, Types
  <1>2. s \in JobState /\ job' = [job EXCEPT ![j] = s]
    BY <1>1 DEF PyocdWorks, JobState
  <1>3. board \in BoardState /\ board.holder = j /\ job[j].pc \in Engine
    BY <1>1 DEF PyocdWorks, Running, JobOK, Holds, Inv, Types
  <1> DEFINE written == IF job[j].pc = "erase" THEN {"blank"}
                        ELSE IF job[j].pc = "reset" THEN {board.fw}
                        ELSE {"broken", job[j].image}
             writer == IF job[j].pc = "reset" THEN board.by ELSE j
  <1>4. PICK fw \in written : board' = [board EXCEPT !.fw = fw, !.by = writer]
    BY DEF PyocdWorks
  <1>5. fw \in Firmware /\ writer \in Job \cup {NoJob}
    BY <1>1, <1>3, <1>4 DEF Firmware, BoardState, JobState
  <1>6. board' \in BoardState /\ board'.holder = j /\ board'.fw = fw /\ board'.by = writer
    BY <1>3, <1>4, <1>5 DEF BoardState
  <1>7. CASE job[j].pc = "reset"
    <2>1. board'.fw = board.fw /\ board'.by = board.by
      BY <1>4, <1>6, <1>7
    <2>2. BoardChange(j) /\ cache' \subseteq Asset /\ UNCHANGED probe
      BY <1>3, <1>6, <2>1 DEF PyocdWorks, BoardChange, Inv, Types
    <2>3. JobOK(j, s, board')
      BY <1>1, <1>6, <1>7, <2>1 DEF JobOK, Holds, Wrote, Reports, Warns, Exits, Over, Engine, JobState
    <2> HIDE DEF s
    <2> QED
      BY <1>2, <1>6, <2>2, <2>3, StepKeepsInv
  <1>8. CASE job[j].pc # "reset"
    <2>1. board'.by = j
      BY <1>6, <1>8
    <2>2. BoardChange(j) /\ cache' \subseteq Asset /\ UNCHANGED probe
      BY <1>3, <1>6, <2>1 DEF PyocdWorks, BoardChange, Inv, Types
    <2>3. JobOK(j, s, board')
      BY <1>1, <1>3, <1>6, <1>8, <2>1
      DEF JobOK, Holds, Wrote, Reports, Warns, Exits, Over, Engine, JobState
    <2> HIDE DEF s
    <2> QED
      BY <1>2, <1>6, <2>2, <2>3, StepKeepsInv
  <1> QED
    BY <1>7, <1>8

\* The engine goes on to its next command: to the reset only with the whole
\* image on the board, from an erase only to the reflash.
LEMMA NextCommandKeepsInv ==
    ASSUME Inv, NEW j \in Job, NEW pc \in Engine, Running(j), NextCommand(j, pc),
           UNCHANGED <<probe, cache>>,
           pc = "reset" => board.by = j /\ board.fw = job[j].image,
           job[j].pc \in {"erase", "reflash", "reset"} => pc \in {"reflash", "reset"}
    PROVE  Inv'
  <1> DEFINE s == [job[j] EXCEPT !.pc = pc, !.worked = FALSE,
                                 !.erased = @ \/ job[j].pc = "erase"]
  <1>1. job[j] \in JobState /\ JobOK(j, job[j], board) /\ job \in [Job -> JobState]
    BY DEF Inv, Types
  <1>2. s \in JobState /\ job' = [job EXCEPT ![j] = s]
    BY <1>1 DEF NextCommand, JobState, Pcs
  <1>3. BoardChange(j) /\ board' \in BoardState /\ cache' \subseteq Asset
    BY DEF NextCommand, BoardChange, Inv, Types
  <1>4. board.holder = j
    BY <1>1 DEF JobOK, Holds, Running
  <1>5. ~job[j].ok /\ job[j].exit = "none" /\ (job[j].erased => job[j].pc \in {"reflash", "reset"})
    BY <1>1 DEF JobOK, Reports, Exits, Warns, Running, Engine, Over
  <1>6. /\ s.pc = pc /\ ~s.worked /\ ~s.ok /\ s.exit = "none" /\ s.image = job[j].image
        /\ s.erased => job[j].erased \/ job[j].pc = "erase"
    BY <1>1, <1>5 DEF JobState
  <1> HIDE DEF s
  <1>7. JobOK(j, s, board')
    BY <1>4, <1>5, <1>6 DEF NextCommand, JobOK, Holds, Wrote, Reports, Warns, Exits, Over, Engine
  <1> QED
    BY <1>2, <1>3, <1>7, StepKeepsInv

\* The engine ends: well only with the whole image on the board, and badly
\* after an erase only with a warning or an image.
LEMMA EngineEndsKeepsInv ==
    ASSUME Inv, NEW j \in Job, NEW ok \in BOOLEAN, NEW warned \in BOOLEAN, Running(j),
           EngineEnds(j, ok, warned), UNCHANGED <<probe, cache>>,
           ok => job[j].pc = "reset",
           job[j].pc = "reflash" => warned
    PROVE  Inv'
  <1> DEFINE s == [job[j] EXCEPT !.pc = "unlock", !.ok = ok, !.warned = warned,
                                 !.worked = FALSE]
  <1>1. job[j] \in JobState /\ JobOK(j, job[j], board) /\ job \in [Job -> JobState]
    BY DEF Inv, Types
  <1>2. s \in JobState /\ job' = [job EXCEPT ![j] = s]
    BY <1>1 DEF EngineEnds, JobState, Pcs
  <1>3. /\ BoardChange(j) /\ board' \in BoardState /\ cache' \subseteq Asset
        /\ board'.fw = board.fw /\ board'.by = board.by
        /\ j \notin Remote => board' = board
    BY ReleasedType DEF EngineEnds, BoardChange, Inv, Types
  <1>4. board.holder = j
    BY <1>1 DEF JobOK, Holds, Running
  <1>5. /\ job[j].exit = "none" /\ (job[j].erased => job[j].pc \in {"reflash", "reset"})
        /\ job[j].pc = "reset" => board.by = j /\ board.fw = job[j].image
    BY <1>1 DEF JobOK, Wrote, Exits, Warns, Running, Engine, Over
  <1>6. /\ s.pc = "unlock" /\ ~s.worked /\ s.ok = ok /\ s.exit = "none"
        /\ s.image = job[j].image /\ s.image \in Asset
        /\ s.erased = job[j].erased /\ s.warned = warned
    BY <1>1, <1>5 DEF JobState
  <1> HIDE DEF s
  <1>7. JobOK(j, s, board')
    BY <1>3, <1>4, <1>5, <1>6
    DEF JobOK, Holds, Wrote, Reports, Warns, Exits, Over, Engine, Runs
  <1> QED
    BY <1>2, <1>3, <1>7, StepKeepsInv

\* A failed or killed command.
LEMMA FailureKeepsInv ==
    ASSUME Inv, NEW j \in Job, NEW f \in Failure, Running(j), PyocdFails(j, f),
           UNCHANGED <<probe, cache>>
    PROVE  Inv'
  <1>1. CASE job[j].pc = "flash" /\ f = "transient"
    BY <1>1, NextCommandKeepsInv DEF PyocdFails, Engine
  <1>2. CASE job[j].pc \in {"flash", "retry"} /\ f = "locked"
    BY <1>2, NextCommandKeepsInv DEF PyocdFails, Engine
  <1>3. CASE job[j].pc = "reflash"
    BY <1>3, EngineEndsKeepsInv DEF PyocdFails
  <1>4. CASE EngineEnds(j, FALSE, FALSE) /\ job[j].pc # "reflash"
    BY <1>4, EngineEndsKeepsInv
  <1> QED
    BY <1>1, <1>2, <1>3, <1>4 DEF PyocdFails

\* A command that succeeds.
LEMMA SuccessKeepsInv ==
    ASSUME Inv, NEW j \in Job, Running(j), Complete(j), PyocdSucceeds(j),
           UNCHANGED <<probe, cache>>
    PROVE  Inv'
  <1>1. JobOK(j, job[j], board)
    BY DEF Inv
  <1>2. CASE job[j].pc \in {"flash", "retry", "reflash"}
    <2>1. board.by = j /\ board.fw = job[j].image
      BY <1>1, <1>2 DEF Complete, JobOK, Wrote
    <2> QED
      BY <1>2, <2>1, NextCommandKeepsInv DEF PyocdSucceeds, Engine
  <1>3. CASE job[j].pc = "erase"
    BY <1>3, NextCommandKeepsInv DEF PyocdSucceeds, Engine
  <1>4. CASE job[j].pc = "reset"
    BY <1>4, EngineEndsKeepsInv DEF PyocdSucceeds
  <1> QED
    BY <1>2, <1>3, <1>4 DEF Running, Engine

-----------------------------------------------------------------------------
\* The initial state satisfies the invariant.
LEMMA InitInv == Init => Inv
  BY AskedIsAsset DEF Init, Inv, Types, BoardState, Firmware, JobState, Pcs, JobOK, Holds, Wrote,
     Reports, Warns, Exits, Engine

\* The probes and replugs write the registry's row only.
LEMMA RowKeepsInv ==
    ASSUME Inv, board' \in BoardState, board'.fw = board.fw, board'.by = board.by,
           board'.holder = board.holder, probe' \in Firmware \cup {"none"},
           UNCHANGED <<cache, job>>
    PROVE  Inv'
  <1>1. ASSUME NEW j \in Job
        PROVE  JobOK(j, job[j], board')
    <2>1. JobOK(j, job[j], board)
      BY DEF Inv
    <2> QED
      BY <2>1 DEF JobOK, Holds, Wrote, Reports, Warns
  <1> QED
    BY <1>1 DEF Inv, Types

\* Every step keeps the invariant.
LEMMA NextInv == Inv /\ [Next]_vars => Inv'
  <1> SUFFICES ASSUME Inv, [Next]_vars
               PROVE  Inv'
    OBVIOUS
  <1>1. board \in BoardState /\ probe \in Firmware \cup {"none"}
    BY DEF Inv, Types
  <1>2. ASSUME NEW j \in Job, JobStep(j)
        PROVE  Inv'
    <2>1. CASE Find(j) \/ ResolveHex(j) \/ Lock(j) \/ Unlock(j)
      BY <2>1, FindKeepsInv, ResolveKeepsInv, LockKeepsInv, UnlockKeepsInv
    <2>2. CASE EngineRefuses(j)
      BY <2>2, EngineEndsKeepsInv DEF EngineRefuses, Running, Engine
    <2>3. CASE Confirm(j) \/ GiveUpWaiting(j)
      BY <2>3, ExitKeepsInv DEF Confirm, GiveUpWaiting, Running, Engine
    <2> QED
      BY <1>2, <2>1, <2>2, <2>3 DEF JobStep
  <1>3. ASSUME NEW j \in Job, PyocdWorks(j) \/ DebugWrites(j) \/ DebugEnds(j)
        PROVE  Inv'
    BY <1>3, WorkKeepsInv, DebugKeepsInv
  <1>4. ASSUME NEW j \in Job, PyocdExits(j) \/ WatchdogKills(j)
        PROVE  Inv'
    BY <1>4, FailureKeepsInv, SuccessKeepsInv DEF PyocdExits, WatchdogKills
  <1>5. CASE ProbeBegins
    <2>1. board' \in BoardState /\ board'.fw = board.fw /\ board'.by = board.by
            /\ board'.holder = board.holder /\ probe' \in Firmware \cup {"none"}
      BY <1>1, <1>5 DEF ProbeBegins, BoardState
    <2> QED
      BY <1>5, <2>1, RowKeepsInv DEF ProbeBegins
  <1>6. CASE ProbeEnds
    <2>1. board' \in BoardState /\ board'.fw = board.fw /\ board'.by = board.by
            /\ board'.holder = board.holder /\ probe' \in Firmware \cup {"none"}
      <3> DEFINE heard == IF Runs(probe) THEN probe ELSE "none"
      <3>1. heard \in Firmware \cup {"none"} /\ board.lastProbe + 1 \in Nat
        BY <1>1, <1>6 DEF BoardState
      <3>2. board' = [board EXCEPT !.lastProbe = @ + 1, !.announced = heard] /\ probe' = "none"
        BY <1>6 DEF ProbeEnds
      <3> QED
        BY <1>1, <3>1, <3>2 DEF BoardState
    <2> QED
      BY <1>6, <2>1, RowKeepsInv DEF ProbeEnds
  <1>7. CASE Replug
    <2>1. board' \in BoardState /\ board'.fw = board.fw /\ board'.by = board.by
            /\ board'.holder = board.holder /\ probe' \in Firmware \cup {"none"}
      BY <1>1, <1>7 DEF Replug, BoardState
    <2> QED
      BY <1>7, <2>1, RowKeepsInv DEF Replug
  <1>8. CASE UNCHANGED vars
    BY <1>1, <1>8, RowKeepsInv DEF vars
  <1> QED
    BY <1>2, <1>3, <1>4, <1>5, <1>6, <1>7, <1>8 DEF Next

\* The invariant holds throughout.
LEMMA Invariance == Spec => []Inv
  BY InitInv, NextInv, PTL DEF Spec

\* Every state is well typed, and pyocd, of a deploy or of a debug session,
\* runs for the holder of the board's lock only (_run_deploy_flow, _run_debug,
\* _flash_hex), for any number of invocations.
THEOREM PyocdRunsForHolder == Spec => []DeployTypeOK
  <1>1. Inv => DeployTypeOK
    BY DEF Inv, Types, DeployTypeOK, BoardState, JobOK, Holds, Running
  <1> QED
    BY <1>1, Invariance, PTL

\* What _flash_hex reports as flashed is on the board, whole, until someone
\* else writes it, through retries, mass erases and watchdog kills.
THEOREM SuccessIsTrue == Spec => []ReportedImageIsOnBoard
  <1>1. Inv => ReportedImageIsOnBoard
    BY DEF Inv, JobOK, Reports, ReportedImageIsOnBoard
  <1> QED
    BY <1>1, Invariance, PTL

\* A deploy that has erased the board and failed has said that the board is
\* without firmware, if it is.
THEOREM EraseIsReported == Spec => []ErasedBoardIsReported
  <1>1. Inv => ErasedBoardIsReported
    BY DEF Inv, JobOK, Warns, Exits, Over, ErasedBoardIsReported
  <1> QED
    BY <1>1, Invariance, PTL
=============================================================================

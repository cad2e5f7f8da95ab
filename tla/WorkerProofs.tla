---------------------------- MODULE WorkerProofs ----------------------------
(***************************************************************************)
(* Theorems about Worker, for any processes, candidates, revisions and     *)
(* bounds: the workers keep to the protocol of the lock, so that what      *)
(* PidLockProofs shows of the lock holds of them; no request to run is     *)
(* lost; and no candidate is acted on twice or dropped.                    *)
(***************************************************************************)
EXTENDS Worker, PidLockProofs

USE WorkerAssumption

-----------------------------------------------------------------------------
(* The lock. *)

LEMMA WorkerStepsLock ==
    ASSUME NEW p \in Procs, p \notin dead, Acquire(p) \/ EndCycle(p)
    PROVE  Next
BY DEF Acquire, EndCycle, Next, Step

LEMMA OtherStepsKeepLock ==
    ASSUME NEW p \in Procs,
           \/ SwitchOn(p) \/ SwitchOff(p) \/ Fire(p)
           \/ TickerFires(p) \/ TakeTrigger(p) \/ CheckEnabled(p)
           \/ Consolidation(p) \/ Backup(p)
    PROVE  UNCHANGED vars
<1>1. CASE SwitchOn(p) \/ SwitchOff(p) \/ Fire(p)
  BY <1>1 DEF SwitchOn, SwitchOff, Fire
<1>2. CASE TickerFires(p) \/ TakeTrigger(p) \/ CheckEnabled(p)
  BY <1>2 DEF TickerFires, TakeTrigger, CheckEnabled
<1>3. CASE Consolidation(p)
  BY <1>3 DEF Consolidation, ReadCandidates, AskFails, Drain, SaveNotes,
              CommitFails, Decide, RunScript, Staging
<1>4. CASE Backup(p)
  BY <1>4 DEF Backup, Integrate, FetchFails, ResetDir, CopyTree, CommitTree,
              Push, PushRejected, BackupFails, Copying
<1> QED
  BY <1>1, <1>2, <1>3, <1>4

LEMMA LockStep == [WorkerNext]_workerVars => [Next]_vars
<1> SUFFICES ASSUME WorkerNext PROVE [Next]_vars
  BY DEF workerVars
<1>1. ASSUME NEW p \in Procs, Proceed(p) PROVE [Next]_vars
  BY <1>1, WorkerStepsLock, OtherStepsKeepLock DEF Proceed
<1>2. ASSUME NEW p \in Procs, p \notin dead,
             SwitchOn(p) \/ SwitchOff(p) \/ TickerFires(p)
      PROVE  [Next]_vars
  BY <1>2, OtherStepsKeepLock
<1>3. ASSUME NEW p \in Procs, p \notin dead, Kill(p) PROVE [Next]_vars
  BY <1>3 DEF Kill, Next
<1>4. ASSUME (\E c \in Cands : Stage(c)) \/ (\E s \in Sources : Edit(s)) \/ Mark
      PROVE  [Next]_vars
  BY <1>4 DEF Stage, Edit, Mark
<1> QED
  BY <1>1, <1>2, <1>3, <1>4 DEF WorkerNext

\* The workers use the lock as its protocol prescribes: what the code does
\* between AcquireLock and Release, and wherever a cycle ends, no step of a
\* worker touches the lock file in another way.
THEOREM WorkersFollowProtocol == WorkerSpec => LockDiscipline
<1>1. WorkerInit => Init
  BY DEF WorkerInit
<1> QED
  BY <1>1, LockStep, PTL DEF WorkerSpec, LockDiscipline, Spec

\* The lock of AcquireLock and Release is exclusive among the workers until a
\* process is killed.
THEOREM CyclesExclusive == WorkerSpec => []ExclusiveUntilCrash
BY WorkersFollowProtocol, ExclusionHolds DEF LockDiscipline

-----------------------------------------------------------------------------
(* The controller. *)

\* The switch, the channel and the loop have the values their types allow, a
\* process in AcquireLock or in a cycle is in runOnce, and a switch that has
\* been turned off again wants nothing.
ControlInv ==
    /\ TypeOK
    /\ enabled \in [Procs -> BOOLEAN] /\ trigger \in [Procs -> BOOLEAN]
    /\ wanted \in [Procs -> BOOLEAN]
    /\ firing \in [Procs -> Nat]
    /\ loop \in [Procs -> {"select", "check", "run"}]
    /\ \A p \in Procs : pc[p] # "idle" => loop[p] = "run"
    /\ \A p \in Procs : wanted[p] => enabled[p]
    /\ \A p \in Procs : wanted[p] => firing[p] > 0 \/ trigger[p]
                                     \/ loop[p] = "check"

LEMMA ControlInit == WorkerInit => ControlInv
BY TypeInit DEF WorkerInit, ControlInv, Init

LEMMA ControlStep == ControlInv /\ [WorkerNext]_workerVars => ControlInv'
<1> SUFFICES ASSUME ControlInv, [WorkerNext]_workerVars PROVE ControlInv'
  OBVIOUS
<1>t. TypeOK'
  BY LockStep, TypeStep DEF ControlInv
<1>1. ASSUME NEW p \in Procs, SwitchOn(p) \/ SwitchOff(p) PROVE ControlInv'
  <2>1. UNCHANGED <<vars, trigger, loop>>
    BY <1>1 DEF SwitchOn, SwitchOff
  <2>2. CASE SwitchOn(p)
    BY <1>t, <2>1, <2>2 DEF SwitchOn, ControlInv, vars
  <2>3. CASE SwitchOff(p)
    BY <1>t, <2>1, <2>3 DEF SwitchOff, ControlInv, vars
  <2> QED
    BY <1>1, <2>2, <2>3
<1>2. ASSUME NEW p \in Procs, Fire(p) PROVE ControlInv'
  BY <1>t, <1>2 DEF Fire, ControlInv, vars
<1>3. ASSUME NEW p \in Procs, TickerFires(p) PROVE ControlInv'
  BY <1>t, <1>3 DEF TickerFires, Loop, control, ControlInv, vars
<1>4. ASSUME NEW p \in Procs, TakeTrigger(p) PROVE ControlInv'
  BY <1>t, <1>4 DEF TakeTrigger, Loop, ControlInv, vars
<1>5. ASSUME NEW p \in Procs, CheckEnabled(p) PROVE ControlInv'
  BY <1>t, <1>5 DEF CheckEnabled, Loop, ControlInv, vars
<1>6. ASSUME NEW p \in Procs, Acquire(p) PROVE ControlInv'
  <2>1. loop[p] = "run" /\ UNCHANGED control
        /\ loop' = [loop EXCEPT ![p] = IF pc'[p] = "idle" THEN "select" ELSE @]
    BY <1>6 DEF Acquire
  <2>2. \A q \in Procs : q # p => pc'[q] = pc[q]
    BY <1>6 DEF Acquire, Attempt, WritePid, CheckStale, RemoveStale, Retry,
                Create, Goto, ControlInv, TypeOK
  <2> QED
    BY <1>t, <2>1, <2>2 DEF control, ControlInv
<1>7. ASSUME NEW p \in Procs, EndCycle(p) PROVE ControlInv'
  <2>1. loop[p] = "run"
    BY <1>7 DEF EndCycle, Release, ControlInv
  <2>2. pc' = [pc EXCEPT ![p] = "idle"] /\ UNCHANGED control
        /\ loop' = [loop EXCEPT ![p] = "select"]
    BY <1>7 DEF EndCycle, Release, Goto
  <2> QED
    BY <1>t, <2>1, <2>2 DEF control, ControlInv, TypeOK
<1>8. ASSUME NEW p \in Procs, Consolidation(p) \/ Backup(p) PROVE ControlInv'
  <2>1. UNCHANGED <<control, loop>>
    <3>1. CASE Consolidation(p)
      BY <3>1 DEF Consolidation, ReadCandidates, AskFails, Drain, SaveNotes,
                  CommitFails, Decide, RunScript, Staging
    <3>2. CASE Backup(p)
      BY <3>2 DEF Backup, Integrate, FetchFails, ResetDir, CopyTree,
                  CommitTree, Push, PushRejected, BackupFails, Copying
    <3> QED
      BY <1>8, <3>1, <3>2
  <2> QED
    BY <1>t, <1>8, <2>1, OtherStepsKeepLock DEF control, vars, ControlInv
<1>9. ASSUME NEW p \in Procs, Kill(p) PROVE ControlInv'
  BY <1>t, <1>9 DEF Kill, Crash, control, ControlInv
<1>10. ASSUME (\E c \in Cands : Stage(c)) \/ (\E s \in Sources : Edit(s)) \/ Mark
       PROVE  ControlInv'
  BY <1>t, <1>10 DEF Stage, Edit, Mark, control, vars, ControlInv
<1>11. ASSUME UNCHANGED workerVars PROVE ControlInv'
  BY <1>t, <1>11 DEF workerVars, control, vars, ControlInv
<1> QED
  BY <1>1, <1>2, <1>3, <1>4, <1>5, <1>6, <1>7, <1>8, <1>9, <1>10, <1>11
  DEF WorkerNext, Proceed

\* SetEnabled(true) leads to a cycle at once, although the channel holds only
\* one request and a send to a full channel is dropped.
THEOREM NoRequestLost == WorkerSpec => []EnableIsPending
<1>1. ControlInv => EnableIsPending
  BY DEF ControlInv, EnableIsPending
<1> QED
  BY <1>1, ControlInit, ControlStep, PTL DEF WorkerSpec

-----------------------------------------------------------------------------
(* The candidates. *)

Evaluated(c) ==
    \E p \in Procs : cycle[p].at = "drain" /\ c \in cycle[p].decided

\* What a cycle holds is in the staging directory until the cycle drains it.
Held(p) ==
    /\ cycle[p].at \in {"ask", "script", "drain"} => cycle[p].batch \subseteq raw
    /\ cycle[p].at \in {"script", "drain"} => cycle[p].decided \subseteq cycle[p].batch

\* A candidate that was staged was acted on, or it is in the directory, and
\* not both, except between the script and the drain.
Balanced ==
    \A c \in Cands :
        staged[c] = evals[c] + (IF c \in raw /\ ~Evaluated(c) THEN 1 ELSE 0)

CycleType ==
    [at : Stages, batch : SUBSET Cands, decided : SUBSET Cands,
     wrote : BOOLEAN, dir : Sources]

CandidateTypes ==
    /\ cycle \in [Procs -> CycleType]
    /\ raw \subseteq Cands
    /\ staged \in [Cands -> Nat] /\ evals \in [Cands -> Nat]

CandidateInv ==
    /\ ExclusionInv
    /\ CandidateTypes
    /\ \A p \in Procs : pc[p] # "held" => cycle[p].at = "none"
    /\ dead = {} => Balanced /\ \A p \in Procs : Held(p)

LEMMA CandidateInit == WorkerInit => CandidateInv
<1> SUFFICES ASSUME WorkerInit PROVE CandidateInv
  OBVIOUS
<1>1. CandidateTypes
  BY DEF WorkerInit, CandidateTypes, CycleType, NoCycle, Stages, Sources
<1>2. \A p \in Procs : cycle[p].at = "none"
  BY DEF WorkerInit, NoCycle
<1>3. Balanced /\ \A p \in Procs : Held(p)
  BY <1>2 DEF WorkerInit, Balanced, Held, Evaluated
<1> QED
  BY <1>1, <1>2, <1>3, ExclusionInit DEF WorkerInit, CandidateInv

\* Until a process is killed, at most one cycle is under way.
LEMMA OneCycle ==
    ASSUME CandidateInv, dead = {}, NEW p \in Procs, NEW q \in Procs,
           pc[p] = "held", q # p
    PROVE  cycle[q].at = "none"
BY DEF CandidateInv, ExclusionInv, MutualExclusion, Owner

\* A step that leaves the directory alone and neither enters nor leaves the
\* stage between the script and the drain keeps the balance.
LEMMA StageMoves ==
    ASSUME CandidateInv, dead = {}, NEW p \in Procs,
           UNCHANGED <<raw, staged, evals>>,
           \A q \in Procs : q # p => cycle'[q] = cycle[q],
           cycle[p].at # "drain", cycle'[p].at # "drain",
           cycle'[p].at \in {"ask", "script"} => cycle'[p].batch \subseteq raw,
           cycle'[p].at = "script" => cycle'[p].decided \subseteq cycle'[p].batch
    PROVE  Balanced' /\ \A q \in Procs : Held(q)'
<1>1. \A c : Evaluated(c)' <=> Evaluated(c)
  BY DEF Evaluated
<1>2. Balanced'
  BY <1>1 DEF CandidateInv, Balanced
<1>3. \A q \in Procs : Held(q)'
  BY DEF CandidateInv, Held
<1> QED
  BY <1>2, <1>3

LEMMA ConsolidationStep ==
    ASSUME CandidateInv, "scriptdies" \notin Env,
           NEW p \in Procs, Consolidation(p)
    PROVE  /\ CandidateTypes'
           /\ dead = {} => Balanced' /\ \A q \in Procs : Held(q)'
<1> USE DEF CycleType, Stages
<1>0. CandidateTypes
  BY DEF CandidateInv
<1>b. dead = {} => Balanced /\ \A q \in Procs : Held(q)
  BY DEF CandidateInv
<1>1. ASSUME ReadCandidates(p)
      PROVE  /\ CandidateTypes'
             /\ dead = {} => Balanced' /\ \A q \in Procs : Held(q)'
  <2>1. Batch \subseteq raw
    BY DEF Batch
  <2>2. CandidateTypes'
    <3> DEFINE r == [cycle[p] EXCEPT !.at = IF raw = {} THEN "done" ELSE "ask",
                                     !.batch = Batch]
    <3>1. r \in CycleType
      BY <1>0, <2>1 DEF CandidateTypes
    <3>2. cycle' = [cycle EXCEPT ![p] = r]
      BY <1>0, <1>1 DEF ReadCandidates, CandidateTypes
    <3>3. UNCHANGED <<raw, staged, evals>>
      BY <1>1 DEF ReadCandidates, staging
    <3> HIDE DEF r
    <3> QED
      BY <1>0, <3>1, <3>2, <3>3 DEF CandidateTypes
  <2>3. /\ UNCHANGED <<raw, staged, evals>>
        /\ cycle[p].at = "read"
        /\ cycle'[p].at \in {"ask", "done"} /\ cycle'[p].batch = Batch
        /\ \A q \in Procs : q # p => cycle'[q] = cycle[q]
    BY <1>0, <1>1 DEF ReadCandidates, At, CandidateTypes, staging
  <2> QED
    BY <2>1, <2>2, <2>3, StageMoves
<1>2. ASSUME NEW D \in SUBSET Cands, Decide(p, D)
      PROVE  /\ CandidateTypes'
             /\ dead = {} => Balanced' /\ \A q \in Procs : Held(q)'
  <2>1. /\ UNCHANGED <<raw, staged, evals>>
        /\ cycle[p].at = "ask" /\ cycle'[p].at = "script"
        /\ cycle'[p].batch = cycle[p].batch /\ cycle'[p].decided = D
        /\ D \subseteq cycle[p].batch
        /\ \A q \in Procs : q # p => cycle'[q] = cycle[q]
    BY <1>0, <1>2 DEF Decide, At, CandidateTypes, staging
  <2>2. CandidateTypes'
    <3> DEFINE r == [cycle[p] EXCEPT !.at = "script", !.decided = D]
    <3>1. r \in CycleType
      BY <1>0 DEF CandidateTypes
    <3>2. cycle' = [cycle EXCEPT ![p] = r]
      BY <1>0, <1>2 DEF Decide, CandidateTypes
    <3> HIDE DEF r
    <3> QED
      BY <1>0, <2>1, <3>1, <3>2 DEF CandidateTypes
  <2>3. dead = {} => cycle[p].batch \subseteq raw
    BY <1>b, <2>1 DEF Held
  <2> QED
    BY <2>1, <2>2, <2>3, StageMoves
<1>3. ASSUME AskFails(p) \/ SaveNotes(p) \/ CommitFails(p)
      PROVE  /\ CandidateTypes'
             /\ dead = {} => Balanced' /\ \A q \in Procs : Held(q)'
  <2>1. /\ UNCHANGED <<raw, staged, evals>>
        /\ cycle[p].at \in {"ask", "script", "save"} /\ cycle'[p].at = "done"
        /\ cycle' = [cycle EXCEPT ![p].at = "done"]
        /\ \A q \in Procs : q # p => cycle'[q] = cycle[q]
    BY <1>0, <1>3 DEF AskFails, SaveNotes, CommitFails, Move, At,
                      CandidateTypes, staging
  <2>2. CandidateTypes'
    BY <1>0, <2>1 DEF CandidateTypes
  <2> QED
    BY <2>1, <2>2, StageMoves
<1>4. ASSUME NEW S \in SUBSET Cands, NEW wrote \in BOOLEAN, RunScript(p, S, wrote)
      PROVE  /\ CandidateTypes'
             /\ dead = {} => Balanced' /\ \A q \in Procs : Held(q)'
  <2>1. /\ pc[p] = "held" /\ UNCHANGED <<raw, staged>>
        /\ cycle[p].at = "script" /\ cycle'[p].at = "drain"
        /\ cycle'[p].batch = cycle[p].batch
        /\ cycle'[p].decided = cycle[p].decided
        /\ S = cycle[p].decided \cap raw
        /\ \A q \in Procs : q # p => cycle'[q] = cycle[q]
    BY <1>0, <1>4 DEF RunScript, At, CandidateTypes
  <2>2. evals' = [c \in Cands |-> evals[c] + (IF c \in S THEN 1 ELSE 0)]
    BY <1>4 DEF RunScript
  <2>3. CandidateTypes'
    <3> DEFINE r == [cycle[p] EXCEPT !.at = "drain", !.wrote = wrote]
    <3>1. r \in CycleType
      BY <1>0 DEF CandidateTypes
    <3>2. cycle' = [cycle EXCEPT ![p] = r]
      BY <1>0, <1>4 DEF RunScript, CandidateTypes
    <3> HIDE DEF r
    <3>3. cycle' \in [Procs -> CycleType]
      BY <1>0, <3>1, <3>2 DEF CandidateTypes
    <3> QED
      BY <1>0, <2>1, <2>2, <3>3 DEF CandidateTypes
  <2>4. ASSUME dead = {} PROVE Balanced' /\ \A q \in Procs : Held(q)'
    <3>1. cycle[p].batch \subseteq raw /\ cycle[p].decided \subseteq cycle[p].batch
      BY <1>b, <2>1, <2>4 DEF Held
    <3>2. S = cycle[p].decided
      BY <2>1, <3>1
    <3>3. \A q \in Procs : q # p => cycle[q].at = "none"
      BY <2>1, <2>4, OneCycle
    <3>4. \A c : ~Evaluated(c) /\ (Evaluated(c)' <=> c \in S)
      BY <2>1, <3>2, <3>3 DEF Evaluated
    <3>5. Balanced'
      BY <1>0, <1>b, <2>1, <2>2, <2>4, <3>1, <3>2, <3>4
      DEF Balanced, CandidateTypes
    <3>6. \A q \in Procs : Held(q)'
      BY <1>b, <2>1, <2>4, <3>1 DEF Held
    <3> QED
      BY <3>5, <3>6
  <2> QED
    BY <2>3, <2>4
<1>5. ASSUME Drain(p)
      PROVE  /\ CandidateTypes'
             /\ dead = {} => Balanced' /\ \A q \in Procs : Held(q)'
  <2>1. /\ pc[p] = "held" /\ UNCHANGED <<staged, evals>>
        /\ cycle[p].at = "drain" /\ cycle'[p].at = "save"
        /\ raw' = raw \ cycle[p].decided
        /\ \A q \in Procs : q # p => cycle'[q] = cycle[q]
    BY <1>0, <1>5 DEF Drain, Move, At, CandidateTypes
  <2>2. CandidateTypes'
    BY <1>0, <1>5, <2>1 DEF Drain, Move, CandidateTypes
  <2>3. ASSUME dead = {} PROVE Balanced' /\ \A q \in Procs : Held(q)'
    <3>1. \A q \in Procs : q # p => cycle[q].at = "none"
      BY <2>1, <2>3, OneCycle
    <3>2. \A c : ~Evaluated(c)' /\ (Evaluated(c) <=> c \in cycle[p].decided)
      BY <2>1, <3>1 DEF Evaluated
    <3>3. Balanced'
      BY <1>0, <1>b, <2>1, <2>3, <3>2 DEF Balanced, CandidateTypes
    <3>4. \A q \in Procs : Held(q)'
      BY <2>1, <3>1 DEF Held
    <3> QED
      BY <3>3, <3>4
  <2> QED
    BY <2>2, <2>3
<1> QED
  BY <1>1, <1>2, <1>3, <1>4, <1>5 DEF Consolidation

\* A step that is not part of consolidation keeps the directory, and moves
\* cycles to stages that are not among those of consolidation.
LEMMA OtherStages ==
    ASSUME CandidateInv, UNCHANGED <<raw, staged, evals>>,
           NEW p \in Procs, NEW r \in CycleType,
           cycle' = [cycle EXCEPT ![p] = r],
           cycle[p].at # "drain", r.at \notin {"ask", "script", "drain"}
    PROVE  /\ CandidateTypes'
           /\ dead = {} => Balanced' /\ \A q \in Procs : Held(q)'
<1>0. CandidateTypes
  BY DEF CandidateInv
<1>1. cycle'[p] = r /\ \A q \in Procs : q # p => cycle'[q] = cycle[q]
  BY <1>0 DEF CandidateTypes
<1>2. CandidateTypes'
  BY <1>0 DEF CandidateTypes
<1> QED
  BY <1>1, <1>2, StageMoves

LEMMA BackupStep ==
    ASSUME CandidateInv, NEW p \in Procs, Backup(p)
    PROVE  /\ CandidateTypes'
           /\ dead = {} => Balanced' /\ \A q \in Procs : Held(q)'
<1>0. CandidateTypes
  BY DEF CandidateInv
<1>1. UNCHANGED <<raw, staged, evals>>
  BY DEF Backup, Integrate, FetchFails, ResetDir, CopyTree, CommitTree, Push,
         PushRejected, BackupFails, Copying, staging
<1>2. \E r \in CycleType :
        /\ cycle' = [cycle EXCEPT ![p] = r]
        /\ cycle[p].at # "drain" /\ r.at \notin {"ask", "script", "drain"}
  <2>1. ASSUME CopyTree(p)
        PROVE  \E r \in CycleType :
                  /\ cycle' = [cycle EXCEPT ![p] = r]
                  /\ cycle[p].at # "drain" /\ r.at \notin {"ask", "script", "drain"}
    <3> DEFINE r == [cycle[p] EXCEPT
                        !.at = IF cycle[p].dir = "cross" THEN "reset" ELSE "commit",
                        !.dir = "native"]
    <3>1. r \in CycleType /\ r.at \notin {"ask", "script", "drain"}
      BY <1>0 DEF CandidateTypes, CycleType, Stages, Sources
    <3>2. cycle' = [cycle EXCEPT ![p] = r] /\ cycle[p].at # "drain"
      BY <1>0, <2>1 DEF CopyTree, At, CandidateTypes, CycleType
    <3> QED
      BY <3>1, <3>2
  <2>2. ASSUME ~CopyTree(p)
        PROVE  \E r \in CycleType :
                  /\ cycle' = [cycle EXCEPT ![p] = r]
                  /\ cycle[p].at # "drain" /\ r.at \notin {"ask", "script", "drain"}
    <3>1. PICK to \in {"reset", "copy", "push", "done"} :
             cycle' = [cycle EXCEPT ![p].at = to] /\ cycle[p].at # "drain"
      BY <2>2 DEF Backup, Integrate, FetchFails, ResetDir, CommitTree, Push,
                  PushRejected, BackupFails, Move, At
    <3> DEFINE r == [cycle[p] EXCEPT !.at = to]
    <3>2. r \in CycleType /\ r.at \notin {"ask", "script", "drain"}
      BY <1>0 DEF CandidateTypes, CycleType, Stages
    <3>3. cycle' = [cycle EXCEPT ![p] = r]
      BY <1>0, <3>1 DEF CandidateTypes
    <3> QED
      BY <3>1, <3>2, <3>3
  <2> QED
    BY <2>1, <2>2
<1> QED
  BY <1>1, <1>2, OtherStages

LEMMA CandidateStep ==
    ASSUME "scriptdies" \notin Env
    PROVE  CandidateInv /\ [WorkerNext]_workerVars => CandidateInv'
<1> SUFFICES ASSUME CandidateInv, [WorkerNext]_workerVars PROVE CandidateInv'
  OBVIOUS
<1>0. CandidateTypes /\ TypeOK /\ (dead = {} => Balanced /\ \A q \in Procs : Held(q))
  BY DEF CandidateInv, ExclusionInv
<1>x. ExclusionInv'
  BY LockStep, ExclusionStep DEF CandidateInv
<1> DEFINE Kept == /\ CandidateTypes'
                   /\ dead' = {} => Balanced' /\ \A q \in Procs : Held(q)'
           Idle == \A q \in Procs : pc'[q] # "held" => cycle'[q].at = "none"
<1>i. \A q \in Procs : pc[q] # "held" => cycle[q].at = "none"
  BY DEF CandidateInv
<1>1. ASSUME UNCHANGED <<cycle, raw, staged, evals, vars>> PROVE Kept /\ Idle
  BY <1>0, <1>1, <1>i DEF CandidateTypes, Balanced, Held, Evaluated, vars
<1>2. ASSUME NEW p \in Procs,
             \/ SwitchOn(p) \/ SwitchOff(p) \/ Fire(p)
             \/ TickerFires(p) \/ TakeTrigger(p) \/ CheckEnabled(p)
      PROVE  Kept /\ Idle
  <2>1. UNCHANGED <<cycle, raw, staged, evals>>
    BY <1>2 DEF SwitchOn, SwitchOff, Fire, TickerFires, TakeTrigger,
                CheckEnabled, staging
  <2> QED
    BY <1>1, <1>2, <2>1, OtherStepsKeepLock
<1>3. ASSUME NEW p \in Procs, Acquire(p) PROVE Kept /\ Idle
  <2>1. pc[p] # "held" /\ UNCHANGED <<dead, raw, staged, evals>>
    BY <1>3 DEF Acquire, Attempt, WritePid, CheckStale, RemoveStale, Retry, staging
  <2> DEFINE r == [cycle[p] EXCEPT !.at = IF pc'[p] = "held" THEN FirstStage ELSE @]
  <2>2. cycle[p].at = "none"
    BY <1>i, <2>1
  <2>3. r \in CycleType /\ r.at = IF pc'[p] = "held" THEN FirstStage ELSE "none"
    BY <1>0, <2>2 DEF CandidateTypes, CycleType, FirstStage, Stages
  <2>4. cycle' = [cycle EXCEPT ![p] = r]
    BY <1>0, <1>3 DEF Acquire, CandidateTypes
  <2> HIDE DEF r
  <2>5. Kept
    BY <2>1, <2>2, <2>3, <2>4, OtherStages DEF FirstStage
  <2>6. \A q \in Procs : q # p => pc'[q] = pc[q]
    BY <1>0, <1>3 DEF Acquire, Attempt, WritePid, CheckStale, RemoveStale,
                      Retry, Create, Goto, TypeOK
  <2>7. Idle
    BY <1>0, <1>i, <2>3, <2>4, <2>6 DEF CandidateTypes
  <2> QED
    BY <2>5, <2>7
<1>4. ASSUME NEW p \in Procs, EndCycle(p) PROVE Kept /\ Idle
  <2>1. cycle' = [cycle EXCEPT ![p] = NoCycle]
        /\ cycle[p].at = "done" /\ UNCHANGED <<dead, raw, staged, evals>>
    BY <1>4 DEF EndCycle, Release, staging
  <2>2. NoCycle \in CycleType /\ NoCycle.at = "none"
    BY DEF NoCycle, CycleType, Stages, Sources
  <2>3. Kept
    BY <2>1, <2>2, OtherStages
  <2>4. \A q \in Procs : q # p => pc'[q] = pc[q]
    BY <1>0, <1>4 DEF EndCycle, Release, Goto, TypeOK
  <2>5. Idle
    BY <1>0, <1>i, <2>1, <2>2, <2>4 DEF CandidateTypes
  <2> QED
    BY <2>3, <2>5
<1>5. ASSUME NEW p \in Procs, Consolidation(p) \/ Backup(p) PROVE Kept /\ Idle
  <2>1. UNCHANGED vars
    BY <1>5, OtherStepsKeepLock
  <2>2. Kept
    BY <1>5, <2>1, ConsolidationStep, BackupStep DEF vars
  <2>3. pc[p] = "held" /\ \A q \in Procs : q # p => cycle'[q] = cycle[q]
    <3>1. CASE Consolidation(p)
      BY <1>0, <3>1 DEF Consolidation, ReadCandidates, AskFails, Drain,
            SaveNotes, CommitFails, Decide, RunScript, Move, At, CandidateTypes
    <3>2. CASE Backup(p)
      BY <1>0, <3>2 DEF Backup, Integrate, FetchFails, ResetDir, CopyTree,
            CommitTree, Push, PushRejected, BackupFails, Move, At, CandidateTypes
    <3> QED
      BY <1>5, <3>1, <3>2
  <2> QED
    BY <1>i, <2>1, <2>2, <2>3 DEF vars
<1>6. ASSUME NEW p \in Procs, Kill(p) PROVE Kept /\ Idle
  <2>1. UNCHANGED <<cycle, raw, staged, evals, pc>> /\ dead' # {}
    BY <1>6 DEF Kill, Crash, staging
  <2> QED
    BY <1>0, <1>i, <2>1 DEF CandidateTypes
<1>7. ASSUME NEW c \in Cands, Stage(c) PROVE Kept /\ Idle
  <2>1. /\ c \notin raw /\ raw' = raw \cup {c}
        /\ staged' = [staged EXCEPT ![c] = @ + 1]
        /\ UNCHANGED <<cycle, evals, vars>>
    BY <1>7 DEF Stage
  <2>2. CandidateTypes'
    BY <1>0, <2>1 DEF CandidateTypes
  <2>3. ASSUME dead = {} PROVE Balanced' /\ \A q \in Procs : Held(q)'
    <3>1. ~Evaluated(c)
      BY <1>0, <2>1, <2>3 DEF Evaluated, Held
    <3>2. \A d : Evaluated(d)' <=> Evaluated(d)
      BY <2>1 DEF Evaluated
    <3>3. Balanced'
      BY <1>0, <2>1, <2>3, <3>1, <3>2 DEF Balanced, CandidateTypes
    <3>4. \A q \in Procs : Held(q)'
      BY <1>0, <2>1, <2>3 DEF Held
    <3> QED
      BY <3>3, <3>4
  <2> QED
    BY <1>i, <2>1, <2>2, <2>3 DEF vars
<1>8. ASSUME (\E s \in Sources : Edit(s)) \/ Mark PROVE Kept /\ Idle
  <2>1. UNCHANGED <<cycle, raw, staged, evals, vars>>
    BY <1>8 DEF Edit, Mark, staging
  <2> QED
    BY <1>1, <2>1
<1>9. ASSUME UNCHANGED workerVars PROVE Kept /\ Idle
  <2>1. UNCHANGED <<cycle, raw, staged, evals, vars>>
    BY <1>9 DEF workerVars, staging
  <2> QED
    BY <1>1, <2>1
<1>10. Kept /\ Idle
  <2> HIDE DEF Kept, Idle
  <2> QED
    BY <1>2, <1>3, <1>4, <1>5, <1>6, <1>7, <1>8, <1>9 DEF WorkerNext, Proceed
<1> QED
  BY <1>x, <1>10 DEF CandidateInv

\* If the script acts on every decision it was given, a candidate is acted on
\* once for every time it was staged, and it leaves the directory only after
\* that, whatever fails in a cycle and however often it is repeated, until a
\* process is killed.
THEOREM CandidatesActedOnOnce ==
    ASSUME "scriptdies" \notin Env
    PROVE  WorkerSpec => []EvaluatedOnce
<1>1. CandidateInv => EvaluatedOnce
  <2> SUFFICES ASSUME CandidateInv, dead = {}, NEW c \in Cands
               PROVE  /\ evals[c] <= staged[c]
                      /\ staged[c] <= evals[c] + (IF c \in raw THEN 1 ELSE 0)
    BY DEF EvaluatedOnce
  <2>1. evals[c] \in Nat
        /\ staged[c] = evals[c] + (IF c \in raw /\ ~Evaluated(c) THEN 1 ELSE 0)
    BY DEF CandidateInv, CandidateTypes, Balanced
  <2> QED
    BY <2>1
<1> QED
  BY <1>1, CandidateInit, CandidateStep, PTL DEF WorkerSpec

-----------------------------------------------------------------------------
(* The types of the rest: cycles, the staging directory, the copies. *)

\* A cycle is under way exactly in the process that holds the lock.
CycleOK ==
    /\ cycle \in [Procs -> CycleType]
    /\ \A p \in Procs : cycle[p].at # "none" <=> pc[p] = "held"

StagingOK ==
    /\ raw \subseteq Cands
    /\ staged \in [Cands -> 0 .. MaxStaged] /\ evals \in [Cands -> Nat]
    /\ unsaved \in BOOLEAN

CopiesOK ==
    /\ memory \in Revisions
    /\ ws \in [based : BOOLEAN, head : Revisions, tree : Revisions]
    /\ remote \in [exists : BOOLEAN, head : Revisions]

\* The calls that have yet to fire are among those that switched on.
CountsOK ==
    /\ kind \in Kinds /\ limit \in BatchSizes
    /\ toggles \in 0 .. MaxToggles
    /\ \A p \in Procs : firing[p] <= toggles
    /\ faults \in 0 .. MaxFaults

WorkerInv == ControlInv /\ CycleOK /\ StagingOK /\ CopiesOK /\ CountsOK

LEMMA WorkerTypesInit == WorkerInit => WorkerInv
<1> SUFFICES ASSUME WorkerInit PROVE WorkerInv
  OBVIOUS
<1>1. CycleOK
  BY DEF WorkerInit, Init, CycleOK, CycleType, NoCycle, Stages, Sources
<1>2. StagingOK /\ CopiesOK
  <2>1. Nothing \in Revisions
    BY DEF Nothing, Revisions
  <2>2. CopiesOK
    <3>1. /\ memory = Nothing
          /\ ws = [based |-> FALSE, head |-> Nothing, tree |-> Nothing]
          /\ remote \in [exists : BOOLEAN, head : {Nothing}]
      BY DEF WorkerInit
    <3> QED
      BY <2>1, <3>1 DEF CopiesOK
  <2>3. StagingOK
    <3>1. /\ raw = {} /\ unsaved = FALSE
          /\ staged = [c \in Cands |-> 0] /\ evals = [c \in Cands |-> 0]
      BY DEF WorkerInit
    <3>2. 0 \in 0 .. MaxStaged
      OBVIOUS
    <3> QED
      BY <3>1, <3>2 DEF StagingOK
  <2> QED
    BY <2>2, <2>3
<1>3. CountsOK
  BY DEF WorkerInit, CountsOK
<1> QED
  BY <1>1, <1>2, <1>3, ControlInit DEF WorkerInv

\* A step of a cycle leaves one, in the process that has the lock.
LEMMA CycleMoves ==
    ASSUME cycle \in [Procs -> CycleType], raw \subseteq Cands, NEW p \in Procs,
           Consolidation(p) \/ Backup(p)
    PROVE  pc[p] = "held" /\ \E r \in CycleType :
              r.at # "none" /\ cycle' = [cycle EXCEPT ![p] = r]
<1> DEFINE Ok == \E r \in CycleType :
                    r.at # "none" /\ cycle' = [cycle EXCEPT ![p] = r]
<1>0. pc[p] = "held"
  BY DEF Consolidation, ReadCandidates, AskFails, Drain, SaveNotes,
         CommitFails, Decide, RunScript, Backup, Integrate, FetchFails,
         ResetDir, CopyTree, CommitTree, Push, PushRejected, BackupFails,
         Move, At
<1>1. ASSUME NEW to \in Stages \ {"none"}, cycle' = [cycle EXCEPT ![p].at = to]
      PROVE  Ok
  <2> DEFINE r == [cycle[p] EXCEPT !.at = to]
  <2>1. r \in CycleType /\ r.at # "none"
    BY DEF CycleType
  <2>2. cycle' = [cycle EXCEPT ![p] = r]
    BY <1>1
  <2> QED
    BY <2>1, <2>2
<1>2. ASSUME ReadCandidates(p) PROVE Ok
  <2> DEFINE r == [cycle[p] EXCEPT !.at = IF raw = {} THEN "done" ELSE "ask",
                                   !.batch = Batch]
  <2>1. cycle' = [cycle EXCEPT ![p] = r]
    BY <1>2 DEF ReadCandidates
  <2>2. r \in CycleType /\ r.at # "none"
    BY DEF CycleType, Stages, Batch
  <2> QED
    BY <2>1, <2>2
<1>3. ASSUME NEW D \in SUBSET Cands, Decide(p, D) PROVE Ok
  <2> DEFINE r == [cycle[p] EXCEPT !.at = "script", !.decided = D]
  <2>1. cycle' = [cycle EXCEPT ![p] = r]
    BY <1>3 DEF Decide
  <2>2. r \in CycleType /\ r.at # "none"
    BY DEF CycleType, Stages
  <2> QED
    BY <2>1, <2>2
<1>4. ASSUME NEW S \in SUBSET Cands, NEW wrote \in BOOLEAN, RunScript(p, S, wrote)
      PROVE  Ok
  <2> DEFINE r == [cycle[p] EXCEPT !.at = "drain", !.wrote = wrote]
  <2>1. cycle' = [cycle EXCEPT ![p] = r]
    BY <1>4 DEF RunScript
  <2>2. r \in CycleType /\ r.at # "none"
    BY DEF CycleType, Stages
  <2> QED
    BY <2>1, <2>2
<1>5. ASSUME CopyTree(p) PROVE Ok
  <2> DEFINE r == [cycle[p] EXCEPT
                      !.at = IF cycle[p].dir = "cross" THEN "reset" ELSE "commit",
                      !.dir = "native"]
  <2>1. cycle' = [cycle EXCEPT ![p] = r]
    BY <1>5 DEF CopyTree
  <2>2. r \in CycleType /\ r.at # "none"
    BY DEF CycleType, Stages, Sources
  <2> QED
    BY <2>1, <2>2
<1>6. ASSUME \/ AskFails(p) \/ Drain(p) \/ SaveNotes(p) \/ CommitFails(p)
             \/ Integrate(p) \/ FetchFails(p) \/ ResetDir(p) \/ CommitTree(p)
             \/ Push(p) \/ PushRejected(p) \/ BackupFails(p)
      PROVE  Ok
  <2>1. PICK to \in Stages \ {"none"} : cycle' = [cycle EXCEPT ![p].at = to]
    BY <1>6 DEF AskFails, Drain, SaveNotes, CommitFails, Integrate,
                FetchFails, ResetDir, CommitTree, Push, PushRejected,
                BackupFails, Move, Stages
  <2> QED
    BY <1>1, <2>1
<1> QED
  BY <1>0, <1>2, <1>3, <1>4, <1>5, <1>6 DEF Consolidation, Backup

LEMMA CycleStep ==
    TypeOK /\ StagingOK /\ CycleOK /\ [WorkerNext]_workerVars => CycleOK'
<1> SUFFICES ASSUME TypeOK, StagingOK, CycleOK, [WorkerNext]_workerVars
             PROVE  CycleOK'
  OBVIOUS
<1>1. ASSUME UNCHANGED <<cycle, pc>> PROVE CycleOK'
  BY <1>1 DEF CycleOK
<1>2. ASSUME NEW p \in Procs, Acquire(p) PROVE CycleOK'
  <2> DEFINE r == [cycle[p] EXCEPT !.at = IF pc'[p] = "held" THEN FirstStage ELSE @]
  <2>1. pc[p] # "held" /\ \A q \in Procs : q # p => pc'[q] = pc[q]
    BY <1>2 DEF Acquire, Attempt, WritePid, CheckStale, RemoveStale, Retry,
                Create, Goto, TypeOK
  <2>2. r \in CycleType /\ (r.at # "none" <=> pc'[p] = "held")
    BY <2>1 DEF CycleOK, CycleType, FirstStage, Stages
  <2>3. cycle' = [cycle EXCEPT ![p] = r]
    BY <1>2 DEF Acquire, CycleOK
  <2> HIDE DEF r
  <2> QED
    BY <2>1, <2>2, <2>3 DEF CycleOK
<1>3. ASSUME NEW p \in Procs, EndCycle(p) PROVE CycleOK'
  <2>1. NoCycle \in CycleType /\ NoCycle.at = "none"
    BY DEF NoCycle, CycleType, Stages, Sources
  <2>2. pc' = [pc EXCEPT ![p] = "idle"] /\ cycle' = [cycle EXCEPT ![p] = NoCycle]
    BY <1>3 DEF EndCycle, Release, Goto
  <2> QED
    BY <2>1, <2>2 DEF CycleOK, TypeOK
<1>4. ASSUME NEW p \in Procs, Consolidation(p) \/ Backup(p) PROVE CycleOK'
  <2>1. UNCHANGED pc
    BY <1>4, OtherStepsKeepLock DEF vars
  <2>2. pc[p] = "held" /\ \E r \in CycleType :
              r.at # "none" /\ cycle' = [cycle EXCEPT ![p] = r]
    BY <1>4, CycleMoves DEF CycleOK, StagingOK
  <2> QED
    BY <2>1, <2>2 DEF CycleOK
<1>5. ASSUME NEW p \in Procs,
             \/ SwitchOn(p) \/ SwitchOff(p) \/ Fire(p) \/ TickerFires(p)
             \/ TakeTrigger(p) \/ CheckEnabled(p) \/ Kill(p)
      PROVE  UNCHANGED <<cycle, pc>>
  BY <1>5 DEF SwitchOn, SwitchOff, Fire, TickerFires, TakeTrigger,
              CheckEnabled, Kill, Crash, vars
<1>6. ASSUME (\E c \in Cands : Stage(c)) \/ (\E s \in Sources : Edit(s)) \/ Mark
             \/ UNCHANGED workerVars
      PROVE  UNCHANGED <<cycle, pc>>
  BY <1>6 DEF Stage, Edit, Mark, vars, workerVars
<1> QED
  BY <1>1, <1>2, <1>3, <1>4, <1>5, <1>6 DEF WorkerNext, Proceed

LEMMA StagingStep ==
    CycleOK /\ StagingOK /\ [WorkerNext]_workerVars => StagingOK'
<1> SUFFICES ASSUME CycleOK, StagingOK, [WorkerNext]_workerVars PROVE StagingOK'
  OBVIOUS
<1>1. ASSUME UNCHANGED staging PROVE StagingOK'
  BY <1>1 DEF StagingOK, staging
<1>2. ASSUME NEW p \in Procs,
             \/ SwitchOn(p) \/ SwitchOff(p) \/ Fire(p) \/ TickerFires(p)
             \/ TakeTrigger(p) \/ CheckEnabled(p) \/ Kill(p)
             \/ Acquire(p) \/ EndCycle(p)
             \/ ReadCandidates(p) \/ AskFails(p) \/ CommitFails(p)
             \/ (\E D \in SUBSET Cands : Decide(p, D)) \/ Backup(p)
      PROVE  UNCHANGED staging
  <2>1. CASE Backup(p)
    BY <2>1 DEF Backup, Integrate, FetchFails, ResetDir, CopyTree, CommitTree,
                Push, PushRejected, BackupFails, Copying
  <2>2. CASE ~Backup(p)
    BY <1>2, <2>2 DEF SwitchOn, SwitchOff, Fire, TickerFires, TakeTrigger,
                CheckEnabled, Kill, Acquire, EndCycle, ReadCandidates,
                AskFails, CommitFails, Decide
  <2> QED
    BY <2>1, <2>2
<1>3. ASSUME NEW p \in Procs, Drain(p) \/ SaveNotes(p) PROVE StagingOK'
  <2>1. (unsaved /\ ~cycle[p].wrote) \in BOOLEAN
    OBVIOUS
  <2> QED
    BY <1>3, <2>1 DEF Drain, SaveNotes, StagingOK
<1>4. ASSUME NEW p \in Procs, NEW S \in SUBSET Cands, NEW wrote \in BOOLEAN,
             RunScript(p, S, wrote)
      PROVE  StagingOK'
  <2>1. (unsaved \/ wrote) \in BOOLEAN
    OBVIOUS
  <2> QED
    BY <1>4, <2>1 DEF RunScript, StagingOK
<1>5. ASSUME NEW c \in Cands, Stage(c) PROVE StagingOK'
  BY <1>5 DEF Stage, StagingOK
<1>6. ASSUME (\E s \in Sources : Edit(s)) \/ Mark \/ UNCHANGED workerVars
      PROVE  UNCHANGED staging
  BY <1>6 DEF Edit, Mark, workerVars
<1> QED
  BY <1>1, <1>2, <1>3, <1>4, <1>5, <1>6
  DEF WorkerNext, Proceed, Consolidation

LEMMA CopiesStep ==
    CycleOK /\ CopiesOK /\ [WorkerNext]_workerVars => CopiesOK'
<1> SUFFICES ASSUME CycleOK, CopiesOK, [WorkerNext]_workerVars PROVE CopiesOK'
  OBVIOUS
<1> USE DEF CopiesOK, Revisions
<1>1. ASSUME UNCHANGED copies PROVE CopiesOK'
  BY <1>1 DEF copies
<1>2. ASSUME NEW p \in Procs,
             \/ SwitchOn(p) \/ SwitchOff(p) \/ Fire(p) \/ TickerFires(p)
             \/ TakeTrigger(p) \/ CheckEnabled(p) \/ Kill(p)
             \/ Acquire(p) \/ EndCycle(p) \/ Consolidation(p)
      PROVE  UNCHANGED copies
  <2>1. CASE Consolidation(p)
    BY <2>1 DEF Consolidation, ReadCandidates, AskFails, Drain, SaveNotes,
                CommitFails, Decide, RunScript, Staging
  <2>2. CASE ~Consolidation(p)
    BY <1>2, <2>2 DEF SwitchOn, SwitchOff, Fire, TickerFires, TakeTrigger,
                CheckEnabled, Kill, Acquire, EndCycle
  <2> QED
    BY <2>1, <2>2
<1>3. ASSUME NEW p \in Procs, Integrate(p) PROVE CopiesOK'
  BY <1>3 DEF Integrate
<1>4. ASSUME NEW p \in Procs, NEW tree \in Revisions,
             ws' = [ws EXCEPT !.tree = tree], UNCHANGED <<memory, remote>>
      PROVE  CopiesOK'
  BY <1>4
<1>5. ASSUME NEW p \in Procs, ResetDir(p) \/ CopyTree(p) PROVE CopiesOK'
  <2>1. cycle[p].dir \in Sources
    BY DEF CycleOK, CycleType
  <2>2. PICK n \in 0 .. MaxEdits : ws' = [ws EXCEPT !.tree[cycle[p].dir] = n]
    BY <1>5, <2>1 DEF ResetDir, CopyTree
  <2>3. [ws.tree EXCEPT ![cycle[p].dir] = n] \in Revisions
    OBVIOUS
  <2> QED
    BY <1>4, <1>5, <2>2, <2>3 DEF ResetDir, CopyTree
<1>6. ASSUME NEW p \in Procs, CommitTree(p) \/ Push(p) PROVE CopiesOK'
  <2>1. ws.head \in Revisions /\ ws.tree \in Revisions
    OBVIOUS
  <2>2. CASE CommitTree(p)
    BY <2>1, <2>2 DEF CommitTree
  <2>3. CASE Push(p)
    BY <2>1, <2>3 DEF Push
  <2> QED
    BY <1>6, <2>2, <2>3
<1>7. ASSUME NEW p \in Procs, FetchFails(p) \/ PushRejected(p) \/ BackupFails(p)
      PROVE  UNCHANGED copies
  BY <1>7 DEF FetchFails, PushRejected, BackupFails
<1>8. ASSUME NEW s \in Sources, Edit(s) PROVE CopiesOK'
  BY <1>8 DEF Edit
<1>9. ASSUME Mark PROVE CopiesOK'
  BY <1>9 DEF Mark
<1>10. ASSUME (\E c \in Cands : Stage(c)) \/ UNCHANGED workerVars
       PROVE  UNCHANGED copies
  BY <1>10 DEF Stage, workerVars
<1> QED
  BY <1>1, <1>2, <1>3, <1>5, <1>6, <1>7, <1>8, <1>9, <1>10
  DEF WorkerNext, Proceed, Backup

LEMMA CountsStep ==
    ControlInv /\ CountsOK /\ [WorkerNext]_workerVars => CountsOK'
<1> SUFFICES ASSUME ControlInv, CountsOK, [WorkerNext]_workerVars PROVE CountsOK'
  OBVIOUS
<1> USE DEF CountsOK
<1>0. firing \in [Procs -> Nat]
  BY DEF ControlInv
<1>1. ASSUME UNCHANGED <<worker, firing, toggles>>, Fault \/ UNCHANGED faults
      PROVE  CountsOK'
  BY <1>1 DEF worker, Fault
<1>2. ASSUME NEW p \in Procs, SwitchOn(p) PROVE CountsOK'
  BY <1>0, <1>2 DEF SwitchOn, worker
<1>3. ASSUME NEW p \in Procs, Fire(p) PROVE CountsOK'
  BY <1>0, <1>3 DEF Fire, worker
<1>4. ASSUME NEW p \in Procs,
             \/ SwitchOff(p) \/ TickerFires(p) \/ TakeTrigger(p)
             \/ CheckEnabled(p) \/ Kill(p) \/ Acquire(p) \/ EndCycle(p)
      PROVE  UNCHANGED <<worker, firing, toggles, faults>>
  BY <1>4 DEF SwitchOff, TickerFires, TakeTrigger, CheckEnabled, Kill,
              Acquire, EndCycle, control
<1>5. ASSUME NEW p \in Procs, Consolidation(p)
      PROVE  UNCHANGED <<worker, firing, toggles>> /\ (Fault \/ UNCHANGED faults)
  BY <1>5, Zenon DEF Consolidation, ReadCandidates, AskFails, Drain, SaveNotes,
              CommitFails, Decide, RunScript, Staging, control
<1>6. ASSUME NEW p \in Procs, Backup(p)
      PROVE  UNCHANGED <<worker, firing, toggles>> /\ (Fault \/ UNCHANGED faults)
  BY <1>6, Zenon DEF Backup, Integrate, FetchFails, ResetDir, CopyTree,
              CommitTree, Push, PushRejected, BackupFails, Copying, control
<1>7. ASSUME (\E c \in Cands : Stage(c)) \/ (\E s \in Sources : Edit(s)) \/ Mark
             \/ UNCHANGED workerVars
      PROVE  UNCHANGED <<worker, firing, toggles, faults>>
  BY <1>7 DEF Stage, Edit, Mark, control, workerVars
<1> QED
  BY <1>1, <1>2, <1>3, <1>4, <1>5, <1>6, <1>7 DEF WorkerNext, Proceed

LEMMA WorkerAlways == WorkerSpec => []WorkerInv
<1>1. WorkerInv /\ [WorkerNext]_workerVars => WorkerInv'
  BY ControlStep, CycleStep, StagingStep, CopiesStep, CountsStep
  DEF WorkerInv, ControlInv
<1> QED
  BY <1>1, WorkerTypesInit, PTL DEF WorkerSpec

\* WorkerTypeOK of every reachable state: above all, a cycle is under way in a
\* process exactly while it holds the lock, from AcquireLock to the deferred
\* Release, whichever step of the cycle fails.
THEOREM WorkerTypeCorrect == WorkerSpec => []WorkerTypeOK
<1>1. WorkerInv => WorkerTypeOK
  <2> SUFFICES ASSUME WorkerInv PROVE WorkerTypeOK
    OBVIOUS
  <2>1. firing \in [Procs -> 0 .. MaxToggles]
    <3>1. ASSUME NEW p \in Procs PROVE firing[p] \in 0 .. MaxToggles
      BY DEF WorkerInv, ControlInv, CountsOK
    <3> QED
      BY <3>1 DEF WorkerInv, ControlInv
  <2> QED
    BY <2>1 DEF WorkerInv, ControlInv, CycleOK, CycleType, StagingOK, CopiesOK,
                CountsOK, WorkerTypeOK
<1> QED
  BY <1>1, WorkerAlways, PTL

-----------------------------------------------------------------------------
(* The backup.  A cycle's tree may hold a directory that is removed or older; *)
(* what it commits and pushes may not.                                        *)

Behind(r, m) == \A s \in Sources : r[s] <= m[s]

\* What the remote has, and what is committed on top of it, is never ahead of
\* the directories; a commit that may be pushed is never behind the remote.
Ordered ==
    /\ Behind(remote.head, memory) /\ Behind(ws.head, memory)
    /\ Behind(ws.tree, memory)
    /\ ~remote.exists => \A s \in Sources : remote.head[s] = 0
    /\ ws.based => Behind(remote.head, ws.head)

\* Which directories the cycle of p has copied.
Copied(p) ==
    /\ cycle[p].at \in {"none", "fetch"} => cycle[p].dir = "cross"
    /\ cycle[p].at \in {"reset", "copy"} /\ cycle[p].dir = "native" =>
          remote.head["cross"] <= ws.tree["cross"]
    /\ cycle[p].at = "commit" => Behind(remote.head, ws.tree)

CopyInv == dead = {} => Ordered /\ \A p \in Procs : Copied(p)

LEMMA CopyInit == WorkerInit => CopyInv
<1> SUFFICES ASSUME WorkerInit PROVE CopyInv
  OBVIOUS
<1>1. \A s \in Sources : Nothing[s] = 0
  BY DEF Nothing
<1>2. Ordered
  <2>1. /\ memory = Nothing /\ ws.head = Nothing /\ ws.tree = Nothing
        /\ remote.head = Nothing
    BY DEF WorkerInit
  <2> QED
    BY <1>1, <2>1 DEF Ordered, Behind
<1>3. \A p \in Procs : Copied(p)
  BY DEF WorkerInit, Copied, NoCycle
<1> QED
  BY <1>2, <1>3 DEF CopyInv

\* A step of the one cycle there is concerns no other process.
LEMMA CopyMoves ==
    ASSUME WorkerInv, CopyInv, dead = {}, ExclusionInv, NEW p \in Procs,
           pc[p] = "held", \A q \in Procs : q # p => cycle'[q] = cycle[q],
           Copied(p)'
    PROVE  \A q \in Procs : Copied(q)'
<1> SUFFICES ASSUME NEW q \in Procs, q # p PROVE Copied(q)'
  OBVIOUS
<1>1. cycle[q].at = "none"
  BY DEF WorkerInv, CycleOK, ExclusionInv, MutualExclusion, Owner
<1> QED
  BY <1>1 DEF CopyInv, Copied

LEMMA CopyStep ==
    WorkerInv /\ ExclusionInv /\ CopyInv /\ [WorkerNext]_workerVars => CopyInv'
<1> SUFFICES ASSUME WorkerInv, ExclusionInv, CopyInv, [WorkerNext]_workerVars,
                    dead' = {}
             PROVE  Ordered' /\ \A p \in Procs : Copied(p)'
  BY DEF CopyInv
<1>0. /\ cycle \in [Procs -> CycleType]
      /\ memory \in Revisions /\ remote.head \in Revisions
      /\ ws \in [based : BOOLEAN, head : Revisions, tree : Revisions]
      /\ remote \in [exists : BOOLEAN, head : Revisions]
  BY DEF WorkerInv, CycleOK, CopiesOK
<1>n. /\ \A s \in Sources : /\ memory[s] \in Nat /\ remote.head[s] \in Nat
                            /\ ws.head[s] \in Nat /\ ws.tree[s] \in Nat
  BY <1>0 DEF Revisions
<1>d. dead = {} /\ \A p \in Procs : ~Kill(p)
  <2>1. ASSUME NEW p \in Procs PROVE ~Kill(p)
    BY DEF Kill, Crash
  <2>2. [Next]_vars
    BY LockStep
  <2>3. dead \subseteq dead'
    BY <2>2 DEF Next, Step, Attempt, WritePid, CheckStale, RemoveStale, Retry,
                Release, Crash, Create, Goto, vars
  <2> QED
    BY <2>1, <2>3
<1>o. Ordered /\ \A p \in Procs : Copied(p)
  BY <1>d DEF CopyInv
<1>1. ASSUME UNCHANGED <<cycle, copies>> PROVE Ordered' /\ \A p \in Procs : Copied(p)'
  BY <1>o, <1>1 DEF copies, Ordered, Behind, Copied
<1>2. ASSUME NEW p \in Procs,
             \/ SwitchOn(p) \/ SwitchOff(p) \/ Fire(p) \/ TickerFires(p)
             \/ TakeTrigger(p) \/ CheckEnabled(p)
      PROVE  UNCHANGED <<cycle, copies>>
  BY <1>2 DEF SwitchOn, SwitchOff, Fire, TickerFires, TakeTrigger, CheckEnabled
<1>3. ASSUME NEW p \in Procs, UNCHANGED copies,
             \A q \in Procs : q # p => cycle'[q] = cycle[q], Copied(p)'
      PROVE  Ordered' /\ \A q \in Procs : Copied(q)'
  BY <1>o, <1>3 DEF copies, Ordered, Behind, Copied
<1>4. ASSUME NEW p \in Procs, Acquire(p)
      PROVE  Ordered' /\ \A q \in Procs : Copied(q)'
  <2>1. pc[p] # "held"
    BY <1>4 DEF Acquire, Attempt, WritePid, CheckStale, RemoveStale, Retry
  <2>2. cycle[p].at = "none" /\ cycle[p].dir = "cross"
    BY <1>o, <2>1 DEF WorkerInv, CycleOK, Copied
  <2>3. /\ UNCHANGED copies /\ \A q \in Procs : q # p => cycle'[q] = cycle[q]
        /\ cycle'[p].at \in {"none", "fetch", "read"} /\ cycle'[p].dir = "cross"
    BY <1>0, <1>4, <2>2 DEF Acquire, FirstStage, CycleType
  <2>4. Copied(p)'
    BY <2>3 DEF Copied
  <2> QED
    BY <1>3, <2>3, <2>4
<1>5. ASSUME NEW p \in Procs, EndCycle(p)
      PROVE  Ordered' /\ \A q \in Procs : Copied(q)'
  <2>1. /\ UNCHANGED copies /\ \A q \in Procs : q # p => cycle'[q] = cycle[q]
        /\ cycle'[p] = NoCycle
    BY <1>0, <1>5 DEF EndCycle
  <2>2. Copied(p)'
    BY <2>1 DEF Copied, NoCycle
  <2> QED
    BY <1>3, <2>1, <2>2
<1>6. ASSUME NEW p \in Procs, Consolidation(p)
      PROVE  Ordered' /\ \A q \in Procs : Copied(q)'
  <2>1. UNCHANGED copies
    BY <1>6 DEF Consolidation, ReadCandidates, AskFails, Drain, SaveNotes,
                CommitFails, Decide, RunScript, Staging
  <2>2. /\ \A q \in Procs : q # p => cycle'[q] = cycle[q]
        /\ cycle'[p].at \in {"ask", "script", "drain", "save", "done"}
    BY <1>0, <1>6 DEF Consolidation, ReadCandidates, AskFails, Drain, SaveNotes,
                CommitFails, Decide, RunScript, Move, At, CycleType
  <2>3. Copied(p)'
    BY <2>2 DEF Copied
  <2> QED
    BY <1>3, <2>1, <2>2, <2>3
<1>7. ASSUME NEW p \in Procs, FetchFails(p) \/ PushRejected(p) \/ BackupFails(p)
      PROVE  Ordered' /\ \A q \in Procs : Copied(q)'
  <2>1. /\ UNCHANGED copies /\ \A q \in Procs : q # p => cycle'[q] = cycle[q]
        /\ \/ cycle'[p].at = "done"
           \/ /\ cycle[p].at = "fetch" /\ cycle'[p].at = "reset"
              /\ cycle'[p].dir = cycle[p].dir
    BY <1>0, <1>7 DEF FetchFails, PushRejected, BackupFails, Move, At, CycleType
  <2>2. Copied(p)'
    BY <1>o, <2>1 DEF Copied
  <2> QED
    BY <1>3, <2>1, <2>2
<1>8. ASSUME NEW p \in Procs, Integrate(p)
      PROVE  Ordered' /\ \A q \in Procs : Copied(q)'
  <2>1. /\ pc[p] = "held" /\ UNCHANGED <<memory, remote>>
        /\ \A q \in Procs : q # p => cycle'[q] = cycle[q]
        /\ cycle[p].at = "fetch" /\ cycle'[p].at = "reset"
        /\ cycle'[p].dir = cycle[p].dir
    BY <1>0, <1>8 DEF Integrate, Move, At, CycleType
  <2>2. ws' = ws \/ ws' = [based |-> TRUE, head |-> remote.head, tree |-> remote.head]
    BY <1>8 DEF Integrate
  <2>3. Ordered'
    BY <1>n, <1>o, <2>1, <2>2 DEF Ordered, Behind
  <2>4. Copied(p)'
    BY <1>o, <2>1 DEF Copied
  <2> QED
    BY <1>d, <2>1, <2>3, <2>4, CopyMoves
<1>9. ASSUME NEW p \in Procs, ResetDir(p)
      PROVE  Ordered' /\ \A q \in Procs : Copied(q)'
  <2>1. /\ pc[p] = "held" /\ UNCHANGED <<memory, remote>>
        /\ \A q \in Procs : q # p => cycle'[q] = cycle[q]
        /\ cycle[p].at = "reset" /\ cycle'[p].at = "copy"
        /\ cycle'[p].dir = cycle[p].dir /\ cycle[p].dir \in Sources
    BY <1>0, <1>9 DEF ResetDir, Move, At, CycleType
  <2>2. /\ ws'.based = ws.based /\ ws'.head = ws.head
        /\ ws'.tree[cycle[p].dir] = 0
        /\ \A s \in Sources : s # cycle[p].dir => ws'.tree[s] = ws.tree[s]
    BY <1>0, <1>9, <2>1 DEF ResetDir, Revisions
  <2>3. Ordered'
    BY <1>n, <1>o, <2>1, <2>2 DEF Ordered, Behind
  <2>4. Copied(p)'
    BY <1>o, <2>1, <2>2 DEF Copied, Sources
  <2> QED
    BY <1>d, <2>1, <2>3, <2>4, CopyMoves
<1>10. ASSUME NEW p \in Procs, CopyTree(p)
       PROVE  Ordered' /\ \A q \in Procs : Copied(q)'
  <2>1. /\ pc[p] = "held" /\ UNCHANGED <<memory, remote>>
        /\ \A q \in Procs : q # p => cycle'[q] = cycle[q]
        /\ cycle[p].at = "copy" /\ cycle[p].dir \in Sources
        /\ cycle'[p].dir = "native"
        /\ cycle'[p].at = IF cycle[p].dir = "cross" THEN "reset" ELSE "commit"
    BY <1>0, <1>10 DEF CopyTree, At, CycleType
  <2>2. /\ ws'.based = ws.based /\ ws'.head = ws.head
        /\ ws'.tree[cycle[p].dir] = memory[cycle[p].dir]
        /\ \A s \in Sources : s # cycle[p].dir => ws'.tree[s] = ws.tree[s]
    BY <1>0, <1>10, <2>1 DEF CopyTree, Revisions
  <2>3. Ordered'
    BY <1>n, <1>o, <2>1, <2>2 DEF Ordered, Behind
  <2>4. Copied(p)'
    BY <1>o, <2>1, <2>2 DEF Copied, Sources, Ordered, Behind
  <2> QED
    BY <1>d, <2>1, <2>3, <2>4, CopyMoves
<1>11. ASSUME NEW p \in Procs, CommitTree(p)
       PROVE  Ordered' /\ \A q \in Procs : Copied(q)'
  <2>1. /\ pc[p] = "held" /\ UNCHANGED <<memory, remote>>
        /\ \A q \in Procs : q # p => cycle'[q] = cycle[q]
        /\ cycle[p].at = "commit" /\ cycle'[p].at = "push"
    BY <1>0, <1>11 DEF CommitTree, Move, At, CycleType
  <2>2. ws'.based = ws.based /\ ws'.head = ws.tree /\ ws'.tree = ws.tree
    BY <1>0, <1>11 DEF CommitTree
  <2>3. Ordered' /\ Copied(p)'
    BY <1>n, <1>o, <2>1, <2>2 DEF Ordered, Behind, Copied
  <2> QED
    BY <1>d, <2>1, <2>3, CopyMoves
<1>12. ASSUME NEW p \in Procs, Push(p)
       PROVE  Ordered' /\ \A q \in Procs : Copied(q)'
  <2>1. /\ pc[p] = "held" /\ UNCHANGED memory
        /\ \A q \in Procs : q # p => cycle'[q] = cycle[q]
        /\ cycle[p].at = "push" /\ cycle'[p].at = "done"
    BY <1>0, <1>12 DEF Push, Move, At, CycleType
  <2>2. /\ ws'.head = ws.head /\ ws'.tree = ws.tree
        /\ remote' = [exists |-> TRUE, head |-> ws.head]
    BY <1>0, <1>12 DEF Push
  <2>3. Ordered' /\ Copied(p)'
    BY <1>n, <1>o, <2>1, <2>2 DEF Ordered, Behind, Copied
  <2> QED
    BY <1>d, <2>1, <2>3, CopyMoves
<1>13. ASSUME NEW s \in Sources, Edit(s)
       PROVE  Ordered' /\ \A q \in Procs : Copied(q)'
  <2>1. /\ UNCHANGED <<cycle, ws, remote>>
        /\ \A t \in Sources : memory[t] <= memory'[t]
    BY <1>0, <1>n, <1>13 DEF Edit, Revisions
  <2> QED
    <3>1. \A t \in Sources : memory'[t] \in Nat
      BY <1>0, <1>n, <1>13 DEF Edit, Revisions
    <3>2. Ordered'
      BY <1>n, <1>o, <2>1, <3>1 DEF Ordered, Behind
    <3> QED
      BY <1>o, <2>1, <3>2 DEF Copied, Behind
<1>14. ASSUME Mark PROVE Ordered' /\ \A q \in Procs : Copied(q)'
  <2>1. UNCHANGED <<cycle, memory, ws>> /\ remote'.head = remote.head /\ remote'.exists
    BY <1>0, <1>14 DEF Mark
  <2> QED
    BY <1>o, <2>1 DEF Ordered, Copied, Behind
<1>15. ASSUME (\E c \in Cands : Stage(c)) \/ UNCHANGED workerVars
       PROVE  UNCHANGED <<cycle, copies>>
  BY <1>15 DEF Stage, workerVars
<1> QED
  BY <1>1, <1>2, <1>4, <1>5, <1>6, <1>7, <1>8, <1>9, <1>10, <1>11, <1>12,
     <1>13, <1>14, <1>15, <1>d DEF WorkerNext, Proceed, Backup

\* BackupForward of every step: until a process is killed the remote's copy of
\* a directory only moves forward, although a cycle may fail with a directory
\* removed or half copied and a fetch that fails is taken for an empty remote.
THEOREM BackupsGoForward == WorkerSpec => BackupForward
<1> DEFINE Fwd == dead = {} => \A s \in Sources :
                     /\ remote.head[s] <= remote'.head[s]
                     /\ remote'.head[s] <= memory'[s]
<1>1. ASSUME WorkerInv, ExclusionInv, CopyInv, [WorkerNext]_workerVars PROVE Fwd
  <2> SUFFICES ASSUME dead = {}, NEW s \in Sources
               PROVE  remote.head[s] <= remote'.head[s] /\ remote'.head[s] <= memory'[s]
    OBVIOUS
  <2>a. /\ memory \in Revisions /\ ws.head \in Revisions /\ remote.head \in Revisions
        /\ remote \in [exists : BOOLEAN, head : Revisions]
    BY <1>1 DEF WorkerInv, CopiesOK
  <2>0. /\ memory[s] \in Nat /\ remote.head[s] \in Nat /\ ws.head[s] \in Nat
        /\ memory \in Revisions /\ remote \in [exists : BOOLEAN, head : Revisions]
    BY <2>a DEF Revisions
  <2>o. Ordered
    BY <1>1 DEF CopyInv
  <2>1. CASE UNCHANGED <<memory, remote>>
    BY <2>0, <2>o, <2>1 DEF Ordered, Behind
  <2>2. ASSUME NEW t \in Sources, Edit(t)
        PROVE  remote' = remote /\ memory[s] <= memory'[s] /\ memory'[s] \in Nat
    BY <2>0, <2>2 DEF Edit, Revisions
  <2>3. ASSUME Mark PROVE remote'.head = remote.head /\ memory' = memory
    BY <2>0, <2>3 DEF Mark
  <2>4. ASSUME NEW p \in Procs, Push(p)
        PROVE  /\ memory' = memory /\ remote'.head = ws.head
               /\ remote.head[s] <= ws.head[s]
    BY <2>0, <2>o, <2>4 DEF Push, Ordered, Behind
  <2>5. ASSUME NEW p \in Procs, Backup(p), ~Push(p) PROVE UNCHANGED <<memory, remote>>
    BY <2>5 DEF Backup, Integrate, FetchFails, ResetDir, CopyTree, CommitTree,
                PushRejected, BackupFails, copies
  <2>6. ASSUME NEW p \in Procs, Consolidation(p) PROVE UNCHANGED <<memory, remote>>
    BY <2>6 DEF Consolidation, ReadCandidates, AskFails, Drain, SaveNotes,
                CommitFails, Decide, RunScript, Staging, copies
  <2>7. ASSUME NEW p \in Procs,
               \/ SwitchOn(p) \/ SwitchOff(p) \/ Fire(p) \/ TickerFires(p)
               \/ TakeTrigger(p) \/ CheckEnabled(p) \/ Kill(p)
               \/ Acquire(p) \/ EndCycle(p)
        PROVE  UNCHANGED <<memory, remote>>
    BY <2>7 DEF SwitchOn, SwitchOff, Fire, TickerFires, TakeTrigger,
                CheckEnabled, Kill, Acquire, EndCycle, copies
  <2>8. ASSUME (\E c \in Cands : Stage(c)) \/ UNCHANGED workerVars
        PROVE  UNCHANGED <<memory, remote>>
    BY <2>8 DEF Stage, workerVars, copies
  <2>9. CASE \E t \in Sources : Edit(t)
    BY <2>0, <2>o, <2>2, <2>9 DEF Ordered, Behind
  <2>10. CASE Mark \/ \E p \in Procs : Push(p)
    BY <2>0, <2>o, <2>3, <2>4, <2>10 DEF Ordered, Behind
  <2> QED
    BY <1>1, <2>1, <2>5, <2>6, <2>7, <2>8, <2>9, <2>10 DEF WorkerNext, Proceed
<1>2. ASSUME WorkerInv, ExclusionInv, CopyInv, [WorkerNext]_workerVars
      PROVE  [Fwd]_workerVars
  BY <1>1, <1>2
<1>3. WorkerInit => ExclusionInv
  BY ExclusionInit DEF WorkerInit
<1>4. ExclusionInv /\ [WorkerNext]_workerVars => ExclusionInv'
  BY LockStep, ExclusionStep
<1> QED
  BY <1>2, <1>3, <1>4, CopyInit, CopyStep, WorkerAlways, PTL
  DEF WorkerSpec, BackupForward
=============================================================================

------------------------------- MODULE Worker -------------------------------
(***************************************************************************)
(* A background worker of several agentsview processes: the loop that a    *)
(* ticker and a switch drive (controller.go, the same in each package),    *)
(* the cycle it runs under the lock of PidLock, and what the cycle works   *)
(* on.  Two cycles are modelled, each with a lock file of its own:         *)
(*   - consolidation (internal/consolidate/worker.go) takes candidates     *)
(*     from a staging directory, asks a language model for decisions, has  *)
(*     a script act on them, moves them away and commits the notes;        *)
(*   - backup (internal/backup/worker.go) copies two directories into a    *)
(*     git workspace, commits and pushes it.                               *)
(*                                                                         *)
(* Candidates are numbered in the order of their file names.  A directory  *)
(* that is backed up is at a revision, 0 when it is empty.                 *)
(***************************************************************************)
EXTENDS PidLock

CONSTANTS
    Kinds,      \* the kinds of worker considered
    Toggled,    \* processes whose worker is switched on and off
    Cands,      \* candidates for consolidation
    BatchSizes, \* candidates in a cycle, at most (20 if not configured)
    MaxStaged,  \* bound: times a candidate is staged
    MaxEdits,   \* bound: revisions of each directory
    MaxToggles, \* bound: times a worker is switched on
    MaxFaults,  \* bound: requests, commands and files that fail
    Env         \* what else may happen, a subset of EnvKinds

EnvKinds ==
    { "scriptdies" } \* the script ends before it has acted on every decision

Sources == {"cross", "native"}
Stages == {"none", "read", "ask", "script", "drain", "save",
           "fetch", "reset", "copy", "commit", "push", "done"}

ASSUME WorkerAssumption ==
    /\ Kinds \subseteq {"consolidate", "backup"}
    /\ Toggled \subseteq Procs
    /\ Cands \subseteq Nat
    /\ BatchSizes \subseteq Nat \ {0}
    /\ MaxStaged \in Nat /\ MaxEdits \in Nat
    /\ MaxToggles \in Nat /\ MaxFaults \in Nat
    /\ Env \subseteq EnvKinds

VARIABLES
    kind,     \* what the worker does
    limit,    \* Worker.BatchSize
    enabled,  \* the switch of every process
    firing,   \* SetEnabled calls that have switched on and not fired yet
    trigger,  \* the trigger channel, which holds one request
    loop,     \* where the loop is
    wanted,   \* history: switched on, and no cycle since
    toggles,  \* times switched on
    cycle,    \* the cycle in progress: stage, batch, decisions, directory
    raw,      \* candidates in the staging directory
    staged,   \* history: times a candidate was put there
    evals,    \* history: times the script acted on it
    unsaved,  \* notes are written and not committed
    memory,   \* the directories to back up
    ws,       \* the workspace: its commit, its tree, whether it descends
              \* from the remote's tip
    remote,   \* the remote branch: its commit, if it has one
    faults    \* failures so far

control == <<enabled, firing, trigger, wanted, toggles>>
staging == <<raw, staged, evals, unsaved>>
copies == <<memory, ws, remote>>
worker == <<kind, limit>>
workerVars == <<vars, worker, control, loop, cycle, staging, copies, faults>>

NoCycle == [at |-> "none", batch |-> {}, decided |-> {}, wrote |-> FALSE,
            dir |-> "cross"]
Revisions == [Sources -> 0 .. MaxEdits]
Nothing == [s \in Sources |-> 0]

\* The values the code's types allow; a cycle is under way only in a process
\* that holds the lock, and holds it until its end.
WorkerTypeOK ==
    /\ TypeOK
    /\ kind \in Kinds /\ limit \in BatchSizes
    /\ enabled \in [Procs -> BOOLEAN] /\ trigger \in [Procs -> BOOLEAN]
    /\ wanted \in [Procs -> BOOLEAN]
    /\ firing \in [Procs -> 0 .. MaxToggles]
    /\ toggles \in 0 .. MaxToggles
    /\ loop \in [Procs -> {"select", "check", "run"}]
    /\ cycle \in [Procs -> [at : Stages, batch : SUBSET Cands,
                            decided : SUBSET Cands, wrote : BOOLEAN,
                            dir : Sources]]
    /\ raw \subseteq Cands
    /\ staged \in [Cands -> 0 .. MaxStaged]
    /\ evals \in [Cands -> Nat]
    /\ unsaved \in BOOLEAN
    /\ memory \in Revisions
    /\ ws \in [based : BOOLEAN, head : Revisions, tree : Revisions]
    /\ remote \in [exists : BOOLEAN, head : Revisions]
    /\ faults \in 0 .. MaxFaults
    /\ \A p \in Procs : /\ cycle[p].at # "none" <=> pc[p] = "held"
                        /\ pc[p] # "idle" => loop[p] = "run"

\* A worker starts with the switch as configured and checks it at once.
WorkerInit ==
    /\ Init
    /\ kind \in Kinds /\ limit \in BatchSizes
    /\ kind = "backup" => \A n \in BatchSizes : limit <= n
    /\ enabled \in [Procs -> BOOLEAN]
    /\ \A p \in Procs \ Toggled : enabled[p]
    /\ firing = [p \in Procs |-> 0]
    /\ trigger = [p \in Procs |-> FALSE]
    /\ loop = [p \in Procs |-> "check"]
    /\ wanted = [p \in Procs |-> FALSE]
    /\ toggles = 0
    /\ cycle = [p \in Procs |-> NoCycle]
    /\ raw = {}
    /\ staged = [c \in Cands |-> 0] /\ evals = [c \in Cands |-> 0]
    /\ unsaved = FALSE
    /\ memory = Nothing
    /\ ws = [based |-> FALSE, head |-> Nothing, tree |-> Nothing]
    /\ remote \in [exists : BOOLEAN, head : {Nothing}]
    /\ faults = 0

-----------------------------------------------------------------------------
(* The controller. *)

\* SetEnabled(true) swaps the flag; if it was off, it goes on to fire.
SwitchOn(p) ==
    /\ p \in Toggled /\ ~enabled[p]
    /\ toggles < MaxToggles
    /\ toggles' = toggles + 1
    /\ enabled' = [enabled EXCEPT ![p] = TRUE]
    /\ wanted' = [wanted EXCEPT ![p] = TRUE]
    /\ firing' = [firing EXCEPT ![p] = @ + 1]
    /\ UNCHANGED <<vars, worker, trigger, loop, cycle, staging, copies, faults>>

\* A send that does not wait: the channel holds one request.
Fire_Unbuffered(p) ==
    /\ firing[p] > 0
    /\ firing' = [firing EXCEPT ![p] = @ - 1]
    /\ trigger' = [trigger EXCEPT ![p] = loop[p] = "select"]
    /\ UNCHANGED <<vars, worker, enabled, wanted, toggles, loop, cycle, staging,
                   copies, faults>>
Fire(p) ==
    /\ firing[p] > 0
    /\ firing' = [firing EXCEPT ![p] = @ - 1]
    /\ trigger' = [trigger EXCEPT ![p] = TRUE]
    /\ UNCHANGED <<vars, worker, enabled, wanted, toggles, loop, cycle, staging,
                   copies, faults>>

\* SetEnabled(false); a cycle in progress goes on.
SwitchOff(p) ==
    /\ p \in Toggled /\ enabled[p]
    /\ enabled' = [enabled EXCEPT ![p] = FALSE]
    /\ wanted' = [wanted EXCEPT ![p] = FALSE]
    /\ UNCHANGED <<vars, worker, firing, trigger, toggles, loop, cycle, staging,
                   copies, faults>>

Loop(p, from, to) == loop[p] = from /\ loop' = [loop EXCEPT ![p] = to]

TickerFires(p) ==
    /\ Loop(p, "select", "check")
    /\ UNCHANGED <<vars, worker, control, cycle, staging, copies, faults>>

TakeTrigger(p) ==
    /\ trigger[p]
    /\ trigger' = [trigger EXCEPT ![p] = FALSE]
    /\ Loop(p, "select", "check")
    /\ UNCHANGED <<vars, worker, enabled, firing, wanted, toggles, cycle,
                   staging, copies, faults>>

CheckEnabled(p) ==
    /\ \/ /\ enabled[p]
          /\ Loop(p, "check", "run")
          /\ wanted' = [wanted EXCEPT ![p] = FALSE]
       \/ /\ ~enabled[p]
          /\ Loop(p, "check", "select")
          /\ UNCHANGED wanted
    /\ UNCHANGED <<vars, worker, enabled, firing, trigger, toggles, cycle,
                   staging, copies, faults>>

-----------------------------------------------------------------------------
(* RunOnce: the lock around a cycle. *)

FirstStage == IF kind = "backup" THEN "fetch" ELSE "read"

\* AcquireLock; after ErrLocked the loop waits for the next tick or trigger.
Acquire(p) ==
    /\ loop[p] = "run"
    /\ Attempt(p) \/ WritePid(p) \/ CheckStale(p) \/ RemoveStale(p) \/ Retry(p)
    /\ loop' = [loop EXCEPT ![p] = IF pc'[p] = "idle" THEN "select" ELSE @]
    /\ cycle' = [cycle EXCEPT ![p].at = IF pc'[p] = "held" THEN FirstStage
                                                           ELSE @]
    /\ UNCHANGED <<worker, control, staging, copies, faults>>

\* The deferred Release.
EndCycle_KeepsCycle(p) ==
    /\ cycle[p].at = "done"
    /\ Release(p)
    /\ loop' = [loop EXCEPT ![p] = "select"]
    /\ UNCHANGED <<worker, control, cycle, staging, copies, faults>>
EndCycle(p) ==
    /\ cycle[p].at = "done"
    /\ Release(p)
    /\ loop' = [loop EXCEPT ![p] = "select"]
    /\ cycle' = [cycle EXCEPT ![p] = NoCycle]
    /\ UNCHANGED <<worker, control, staging, copies, faults>>

\* The cycle of p goes from one stage to another.
At(p, stage) == pc[p] = "held" /\ cycle[p].at = stage
Move(p, from, to) ==
    /\ At(p, from)
    /\ cycle' = [cycle EXCEPT ![p].at = to]

Staging == UNCHANGED <<vars, worker, control, loop, copies, faults>>
Copying == UNCHANGED <<vars, worker, control, loop, staging, faults>>

Fault == faults < MaxFaults /\ faults' = faults + 1

-----------------------------------------------------------------------------
(* Consolidation. *)

\* The extraction worker, or a hook, writes a candidate file.  A file that is
\* there already is left alone; one that was moved away is not remembered.
Stage(c) ==
    /\ kind = "consolidate"
    /\ c \notin raw /\ staged[c] < MaxStaged
    /\ raw' = raw \cup {c}
    /\ staged' = [staged EXCEPT ![c] = @ + 1]
    /\ UNCHANGED <<vars, worker, control, loop, cycle, evals, unsaved, copies,
                   faults>>

\* The first candidates in the order of the file names.
Batch_Newest == { c \in raw : /\ \A d \in Cands : staged[d] > 0 => d <= c
                              /\ limit > 0 }
Batch == { c \in raw : Cardinality({ d \in raw : d < c }) < limit }

ReadCandidates(p) ==
    /\ At(p, "read")
    /\ cycle' = [cycle EXCEPT ![p].at = IF raw = {} THEN "done" ELSE "ask",
                              ![p].batch = Batch]
    /\ Staging /\ UNCHANGED staging

\* The answer has a decision for some of the candidates that were sent.
Decide(p, D) ==
    /\ At(p, "ask")
    /\ D \subseteq cycle[p].batch /\ D # {}
    /\ cycle' = [cycle EXCEPT ![p].at = "script", ![p].decided = D]
    /\ Staging /\ UNCHANGED staging

\* The request fails, nothing in the answer can be used, or the decision file
\* or the script's process cannot be created.
AskFails_Releases(p) ==
    /\ Move(p, "ask", "done") \/ Move(p, "script", "done")
    /\ Fault
    /\ lock' = None
    /\ UNCHANGED <<pc, fd, dead, worker, control, loop, staging, copies>>
AskFails(p) ==
    /\ Move(p, "ask", "done") \/ Move(p, "script", "done")
    /\ Fault
    /\ UNCHANGED <<vars, worker, control, loop, staging, copies>>

\* The script goes through the directory and acts on what it finds a decision
\* for; a decision may write a note or skip the candidate.
RunScript(p, S, wrote) ==
    LET found == cycle[p].decided \cap raw
    IN  /\ At(p, "script")
        /\ S \subseteq found
        /\ S = found \/ "scriptdies" \in Env
        /\ wrote => S # {}
        /\ cycle' = [cycle EXCEPT ![p].at = "drain", ![p].wrote = wrote]
        /\ evals' = [c \in Cands |-> evals[c] + (IF c \in S THEN 1 ELSE 0)]
        /\ unsaved' = (unsaved \/ wrote)
        /\ Staging /\ UNCHANGED <<raw, staged>>

\* Every candidate with a decision is moved to consumed/.
Drain_Nothing(p) ==
    /\ Move(p, "drain", "save")
    /\ Staging /\ UNCHANGED staging
Drain(p) ==
    /\ Move(p, "drain", "save")
    /\ raw' = raw \ cycle[p].decided
    /\ Staging /\ UNCHANGED <<staged, evals, unsaved>>

\* When the script reported a write, the directory is committed, and with it
\* every note that is there; then the views are refreshed.
SaveNotes(p) ==
    /\ Move(p, "save", "done")
    /\ unsaved' = (unsaved /\ ~cycle[p].wrote)
    /\ Staging /\ UNCHANGED <<raw, staged, evals>>

\* git add or git commit fails, and the error is dropped.
CommitFails(p) ==
    /\ Move(p, "save", "done") /\ cycle[p].wrote
    /\ Fault
    /\ UNCHANGED <<vars, worker, control, loop, staging, copies>>

-----------------------------------------------------------------------------
(* Backup. *)

\* The directory is edited.
Edit(s) ==
    /\ kind = "backup"
    /\ memory[s] < MaxEdits
    /\ memory' = [memory EXCEPT ![s] = @ + 1]
    /\ UNCHANGED <<vars, worker, control, loop, cycle, staging, ws, remote,
                   faults>>

\* Connecting the repository writes a marker file through the service.
Mark ==
    /\ kind = "backup"
    /\ ~remote.exists
    /\ remote' = [remote EXCEPT !.exists = TRUE]
    /\ UNCHANGED <<vars, worker, control, loop, cycle, staging, memory, ws,
                   faults>>

\* ensureWorkspace: the workspace is set to what the remote has, local
\* commits and all; when there is nothing to fetch it is left as it is.  The
\* remote and the credentials are verified.
Integrate_KeepsLocal(p) ==
    /\ Move(p, "fetch", "reset")
    /\ Copying /\ UNCHANGED copies
Integrate(p) ==
    /\ Move(p, "fetch", "reset")
    /\ ws' = IF remote.exists
             THEN [based |-> TRUE, head |-> remote.head, tree |-> remote.head]
             ELSE ws
    /\ Copying /\ UNCHANGED <<memory, remote>>

\* A fetch that fails is taken for a remote without the branch.
FetchFails(p) ==
    /\ Move(p, "fetch", "reset")
    /\ Fault
    /\ UNCHANGED <<vars, worker, control, loop, staging, copies>>

\* SyncSources, one directory after the other: removed and copied again.
ResetDir(p) ==
    /\ Move(p, "reset", "copy")
    /\ ws' = [ws EXCEPT !.tree[cycle[p].dir] = 0]
    /\ Copying /\ UNCHANGED <<memory, remote>>

CopyTree(p) ==
    /\ At(p, "copy")
    /\ ws' = [ws EXCEPT !.tree[cycle[p].dir] = memory[cycle[p].dir]]
    /\ cycle' = [cycle EXCEPT
                    ![p].at = IF cycle[p].dir = "cross" THEN "reset"
                                                        ELSE "commit",
                    ![p].dir = "native"]
    /\ Copying /\ UNCHANGED <<memory, remote>>

CommitTree(p) ==
    /\ Move(p, "commit", "push")
    /\ ws' = [ws EXCEPT !.head = ws.tree]
    /\ Copying /\ UNCHANGED <<memory, remote>>

\* The remote takes a commit that descends from its own.
Push(p) ==
    /\ Move(p, "push", "done")
    /\ ws.based \/ ~remote.exists
    /\ remote' = [exists |-> TRUE, head |-> ws.head]
    /\ ws' = [ws EXCEPT !.based = TRUE]
    /\ Copying /\ UNCHANGED memory

\* A push that does not descend from the remote's tip is rejected.
PushRejected(p) ==
    /\ Move(p, "push", "done")
    /\ ~ws.based /\ remote.exists
    /\ Copying /\ UNCHANGED copies

\* A step fails, and with it the cycle; a directory may be copied in part.
BackupFails_Pushes(p) ==
    /\ Move(p, "copy", "commit")
    /\ Fault
    /\ UNCHANGED <<vars, worker, control, loop, staging, copies>>
BackupFails(p) ==
    /\ \E stage \in {"fetch", "copy", "commit", "push"} :
          Move(p, stage, "done")
    /\ Fault
    /\ UNCHANGED <<vars, worker, control, loop, staging, copies>>

-----------------------------------------------------------------------------
Kill(p) ==
    /\ Crash(p)
    /\ UNCHANGED <<worker, control, loop, cycle, staging, copies, faults>>

Consolidation(p) ==
    \/ ReadCandidates(p) \/ AskFails(p) \/ Drain(p)
    \/ SaveNotes(p) \/ CommitFails(p)
    \/ \E D \in SUBSET Cands : Decide(p, D)
    \/ \E S \in SUBSET Cands, wrote \in BOOLEAN : RunScript(p, S, wrote)

Backup(p) ==
    \/ Integrate(p) \/ FetchFails(p) \/ ResetDir(p) \/ CopyTree(p)
    \/ CommitTree(p) \/ Push(p) \/ PushRejected(p) \/ BackupFails(p)

\* What the process does by itself, the ticker apart.
Proceed(p) ==
    /\ p \notin dead
    /\ \/ Fire(p) \/ TakeTrigger(p) \/ CheckEnabled(p)
       \/ Acquire(p) \/ EndCycle(p)
       \/ Consolidation(p) \/ Backup(p)

WorkerNext ==
    \/ \E p \in Procs :
          \/ Proceed(p)
          \/ /\ p \notin dead
             /\ SwitchOn(p) \/ SwitchOff(p) \/ TickerFires(p) \/ Kill(p)
    \/ \E c \in Cands : Stage(c)
    \/ \E s \in Sources : Edit(s)
    \/ Mark

WorkerSpec == WorkerInit /\ [][WorkerNext]_workerVars

\* A process goes on, and its ticker keeps firing.
WorkerFairness ==
    \A p \in Procs : /\ WF_workerVars(Proceed(p))
                     /\ WF_workerVars(p \notin dead /\ TickerFires(p))

WorkerFairSpec == WorkerSpec /\ WorkerFairness

-----------------------------------------------------------------------------
(* Properties. *)

\* The workers use the lock as its protocol prescribes: what holds of PidLock
\* holds of them, whatever a cycle does and wherever it ends.
LockDiscipline == Spec

Armed == \E p \in Procs \ dead : enabled[p]

\* Switching a worker on leads to a cycle at once, however the switch, the
\* loop and a cycle in progress interleave: no request is lost, so the worker
\* never waits for the ticker, which may take a day.
EnableIsPending ==
    \A p \in Procs \ dead :
        wanted[p] => firing[p] > 0 \/ trigger[p] \/ loop[p] = "check"

\* Until a process is killed, a candidate is acted on at most once for every
\* time it was staged, so it yields at most one note, and it leaves the
\* directory only after the script has acted on it.
EvaluatedOnce ==
    dead = {} => \A c \in Cands :
        /\ evals[c] <= staged[c]
        /\ staged[c] <= evals[c] + (IF c \in raw THEN 1 ELSE 0)

\* Every candidate is worked off in the end, however long the backlog, whatever
\* failed, and although a killed process has left its lock, if a worker stays
\* switched on; and every note is committed, unless a commit failed or a
\* process was killed.
EventuallyConsolidated ==
    <>[]Armed
        => <>[](/\ raw = {}
                /\ dead = {} /\ faults = 0 => ~unsaved)

\* Every edit reaches the remote in the end, whatever failed, if a worker
\* stays switched on.
EventuallyBackedUp ==
    <>[]Armed => <>[](kind = "backup" => remote.head = memory)

\* Until a process is killed, what the remote has of a directory is a copy
\* that only moves forward: never half copied, never older than before.
BackupForward ==
    [][dead = {} =>
          \A s \in Sources : /\ remote.head[s] <= remote'.head[s]
                             /\ remote'.head[s] <= memory'[s]]_workerVars
=============================================================================

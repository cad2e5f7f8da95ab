------------------------------- MODULE Mirror -------------------------------
(***************************************************************************)
(* Pushing the archive to a mirror: PostgreSQL (internal/postgres/push.go) *)
(* or DuckDB (internal/duckdb/sync.go, push.go).                           *)
(*                                                                         *)
(* A push lists the sessions modified since the watermark of its scope,    *)
(* drops those whose fingerprint is the one it recorded last time, sends   *)
(* the others and then stores the new watermark and fingerprints in the    *)
(* local archive.  PostgreSQL gets them in transactions of BatchSize       *)
(* sessions, while the file watcher of `pg push --watch` goes on writing   *)
(* to the archive; DuckDB gets them in one transaction, and nothing else   *)
(* writes meanwhile.  A scope is the whole archive or the projects that    *)
(* the user selected.                                                      *)
(*                                                                         *)
(* Every change of a session has a revision of its own, which stands for   *)
(* its columns, messages and findings; the mirror keeps the revision its   *)
(* row and its messages were taken from, 0 when it has none.  Time counts  *)
(* milliseconds, the resolution of the stamps; 0 is the empty watermark.   *)
(***************************************************************************)
EXTENDS Naturals, FiniteSets

CONSTANTS
    Sessions,   \* session ids
    Selected,   \* the sessions of the projects a filtered push selects
    Backends,   \* the kinds of mirror considered
    Deploy,     \* the sets of scopes that may be pushed
    BatchSize,  \* sessions in a PostgreSQL transaction (50 in the code)
    MaxNow,     \* bound: the clock
    MaxRev,     \* bound: revisions of each session
    MaxFaults,  \* bound: failures, crashes, losses of the mirror, rebuilds
    Env         \* what else may happen, a subset of EnvKinds

EnvKinds ==
    { "late",          \* a change is committed after a later cutoff was taken
      "filteredreset", \* the mirror is lost though filtered pushes are made
      "interrupted" }  \* a full push fails half way

Scopes == {"all", "some"}
Revs == UNION { 0 .. MaxRev[s] : s \in Sessions }
ASSUME MirrorAssumption ==
    /\ IsFiniteSet(Sessions) /\ Selected \subseteq Sessions
    /\ Backends \subseteq {"postgres", "duckdb"}
    /\ Deploy \subseteq (SUBSET Scopes) \ {{}}
    /\ BatchSize \in Nat \ {0}
    /\ MaxNow \in Nat \ {0}
    /\ MaxRev \in [Sessions -> Nat]
    /\ MaxFaults \in Nat
    /\ Env \subseteq EnvKinds

VARIABLES
    backend,    \* the kind of mirror
    scopes,     \* the scopes this installation pushes
    now,        \* the clock
    local,      \* the archive: state, revision and stamp of every session
    writing,    \* stamps in the open write transaction, 0 when none
    wm,         \* last push of every scope (pg_last_push_at_v2:<scope>)
    legacy,     \* last_push_at, the key that all scopes share
    fps,        \* fingerprints recorded for every scope
    schema,     \* the mirror's tables exist
    schemaDone, \* the memo of the process that they do
    mirror,     \* the mirror's rows
    run,        \* the push in progress
    faults      \* failures so far

archive == <<local, writing, now>>
states == <<wm, legacy, fps>>
target == <<schema, schemaDone, mirror>>
vars == <<backend, scopes, archive, states, target, run, faults>>

None == [s \in Sessions |-> 0]
Empty == [s \in Sessions |-> [row |-> 0, msgs |-> 0]]
Live == { s \in Sessions : local[s].st = "live" }
Scope(sc) == IF sc = "all" THEN Sessions ELSE Selected

Idle == [pc |-> "idle", scope |-> "all", full |-> FALSE, last |-> 0,
         cutoff |-> 0, todo |-> None, prior |-> None, pushed |-> None,
         retry |-> {}, err |-> FALSE]
Pcs == {"idle", "check", "clear", "clearmark", "cutoff", "list", "window",
        "send", "retry", "duckclear", "mark", "legacy", "fps"}

\* The state is what the code's types allow, and no watermark and no stamp is
\* ahead of the clock.
TypeOK ==
    /\ backend \in Backends /\ scopes \in Deploy
    /\ now \in 1 .. MaxNow
    /\ local \in [Sessions -> [st : {"none", "live", "gone"},
                               rev : Revs, mark : 0 .. now]]
    /\ writing \in [Sessions -> 0 .. now]
    /\ wm \in [Scopes -> 0 .. now] /\ legacy \in 0 .. now
    /\ fps \in [Scopes -> [Sessions -> Revs]]
    /\ schema \in BOOLEAN /\ schemaDone \in BOOLEAN
    /\ mirror \in [Sessions -> [row : Revs, msgs : Revs]]
    /\ run \in [pc : Pcs, scope : Scopes, full : BOOLEAN,
                last : 0 .. now, cutoff : 0 .. now,
                todo : [Sessions -> Revs], prior : [Sessions -> Revs],
                pushed : [Sessions -> Revs],
                retry : SUBSET Sessions, err : BOOLEAN]
    /\ faults \in 0 .. MaxFaults

Init ==
    /\ backend \in Backends /\ scopes \in Deploy
    /\ now = 1
    /\ local = [s \in Sessions |-> [st |-> "none", rev |-> 0, mark |-> 0]]
    /\ writing = None
    /\ wm = [sc \in Scopes |-> 0] /\ legacy = 0
    /\ fps = [sc \in Scopes |-> None]
    /\ schema = FALSE /\ schemaDone = FALSE
    /\ mirror = Empty
    /\ run = Idle
    /\ faults = 0

-----------------------------------------------------------------------------
(* The archive. *)

Tick ==
    /\ now < MaxNow
    /\ now' = now + 1
    /\ UNCHANGED <<backend, scopes, local, writing, states, target, run,
                   faults>>

\* The process that pushes to DuckDB does nothing else, and holds the
\* write-owner lock of the archive meanwhile.
MayWrite == backend = "postgres" \/ run.pc = "idle"

\* A statement of the open write transaction changes s and stamps it.
Stamp(s) ==
    /\ MayWrite
    /\ local[s].st # "gone" /\ local[s].rev < MaxRev[s]
    /\ writing[s] = 0
    /\ writing' = [writing EXCEPT ![s] = now]
    /\ UNCHANGED <<backend, scopes, local, now, states, target, run, faults>>

\* The write transaction is committed: its changes can be read from now on.
Commit ==
    /\ writing # None
    /\ local' = [s \in Sessions |->
                    IF writing[s] = 0 THEN local[s]
                    ELSE [st |-> "live", rev |-> local[s].rev + 1,
                          mark |-> writing[s]]]
    /\ writing' = None
    /\ UNCHANGED <<backend, scopes, now, states, target, run, faults>>

\* The session is deleted for good.
Delete(s) ==
    /\ MayWrite
    /\ local[s].st = "live" /\ writing = None
    /\ local' = [local EXCEPT ![s].st = "gone"]
    /\ UNCHANGED <<backend, scopes, writing, now, states, target, run,
                   faults>>

\* ResyncAll swaps in a new archive, which has no push state.
Rebuild ==
    /\ run.pc = "idle" /\ writing = None
    /\ faults < MaxFaults
    /\ faults' = faults + 1
    /\ wm' = [sc \in Scopes |-> 0] /\ legacy' = 0
    /\ fps' = [sc \in Scopes |-> None]
    /\ UNCHANGED <<backend, scopes, archive, target, run>>

-----------------------------------------------------------------------------
(* The mirror. *)

\* The PostgreSQL schema is dropped, or the DuckDB file removed while no push
\* has it open.
Reset ==
    /\ schema
    /\ MayWrite
    /\ faults < MaxFaults
    /\ "some" \notin scopes \/ "filteredreset" \in Env
    /\ faults' = faults + 1
    /\ schema' = FALSE
    /\ mirror' = Empty
    /\ UNCHANGED <<backend, scopes, archive, states, schemaDone, run>>

\* The rows of this machine, as pgSessionCount counts them.
Count == Cardinality({ s \in Sessions : mirror[s].row # 0 })

\* The process or the connection may fail, in a full push only if the
\* environment is allowed to be that unlucky.
Fault ==
    /\ faults < MaxFaults
    /\ faults' = faults + 1
    /\ ~run.full \/ "interrupted" \in Env

-----------------------------------------------------------------------------
(* Push: what to send. *)

\* Reading the watermark.  A PostgreSQL watermark counts only as long as the
\* shared key is set; --full ignores it and, in a filtered push, clears it.
ReadLast(sc, full) ==
    IF full \/ (backend = "postgres" /\ legacy = 0) THEN 0 ELSE wm[sc]

Begin(sc, full) ==
    LET last == ReadLast(sc, full)
    IN  /\ run.pc = "idle"
        /\ sc \in scopes
        /\ backend = "duckdb" => writing = None
        /\ schema' = (schema \/ ~schemaDone \/ full \/ backend = "duckdb")
        /\ schemaDone' = TRUE
        /\ run' = [Idle EXCEPT !.pc = IF full /\ sc = "some"
                                         /\ backend = "postgres"
                                      THEN "clear" ELSE "check",
                      !.scope = sc, !.last = last,
                      !.full = \/ full
                               \/ backend = "duckdb" /\ last = 0
                                     /\ sc = "all"]
        /\ UNCHANGED <<backend, scopes, archive, states, mirror, faults>>

\* clearPushState: first the fingerprints of the scope, then the watermarks.
ClearFingerprints ==
    /\ run.pc = "clear"
    /\ fps' = [fps EXCEPT ![run.scope] = None]
    /\ run' = [run EXCEPT !.pc = "clearmark"]
    /\ UNCHANGED <<backend, scopes, archive, wm, legacy, target, faults>>

ClearWatermarks ==
    /\ run.pc = "clearmark"
    /\ wm' = [wm EXCEPT ![run.scope] = 0]
    /\ legacy' = 0
    /\ run' = [run EXCEPT !.pc = "cutoff"]
    /\ UNCHANGED <<backend, scopes, archive, fps, target, faults>>

\* The coherence check: a watermark, but no session in the mirror.
WasReset_Never == FALSE
WasReset == run.last # 0 /\ Count = 0

CheckCoherence ==
    /\ run.pc = "check"
    /\ \/ /\ WasReset
          /\ schema' = TRUE
          /\ run' = [run EXCEPT !.last = 0, !.full = TRUE,
                        !.pc = IF run.scope = "some" /\ backend = "postgres"
                               THEN "clear" ELSE "cutoff"]
       \/ /\ ~WasReset
          /\ run' = [run EXCEPT !.pc = "cutoff"]
          /\ UNCHANGED schema
    /\ UNCHANGED <<backend, scopes, archive, states, schemaDone, mirror,
                   faults>>

\* The prices are sent, which takes the tables; then the time is taken.  No
\* change that is stamped earlier is still to be committed, unless the
\* environment is allowed to be that unlucky.
TakeCutoff ==
    /\ run.pc = "cutoff"
    /\ schema
    /\ \/ "late" \in Env
       \/ \A s \in Sessions : writing[s] \in {0, now}
    /\ run' = [run EXCEPT !.pc = "list", !.cutoff = now]
    /\ UNCHANGED <<backend, scopes, archive, states, target, faults>>

\* ListSessionsModifiedBetween.
ModifiedBetween(since, until) ==
    { s \in Live : since < local[s].mark /\ local[s].mark <= until }

Captured(S) == [s \in Sessions |-> IF s \in S THEN local[s].rev ELSE 0]
In(f) == { s \in Sessions : f[s] # 0 }

ListModified ==
    /\ run.pc = "list"
    /\ run' = [run EXCEPT !.pc = "window",
                  !.todo = Captured(ModifiedBetween(run.last, run.cutoff)
                                       \cap Scope(run.scope)),
                  !.prior = IF run.full THEN None ELSE fps[run.scope]]
    /\ UNCHANGED <<backend, scopes, archive, states, target, faults>>

\* Sessions stamped in the very millisecond of the watermark are looked at
\* again.
Boundary_Never == {}
Boundary ==
    IF run.last = 0 THEN {}
    ELSE { s \in ModifiedBetween(run.last - 1, run.last)
              \cap Scope(run.scope) : run.todo[s] = 0 }

\* Sessions whose fingerprint is the recorded one are dropped.
AddBoundary ==
    LET seen == [s \in Sessions |-> IF s \in Boundary THEN local[s].rev
                                                      ELSE run.todo[s]]
    IN  /\ run.pc = "window"
        /\ run' = [run EXCEPT !.pc = "send",
                      !.todo = [s \in Sessions |->
                         IF seen[s] = run.prior[s] THEN 0 ELSE seen[s]]]
        /\ UNCHANGED <<backend, scopes, archive, states, target, faults>>

-----------------------------------------------------------------------------
(* Push: sending to PostgreSQL. *)

\* The rows were read when the sessions were listed, the messages are read
\* now.  The row of a session deleted since is sent without messages.
Copied_Dirty(S) ==
    [s \in Sessions |->
        IF s \notin S THEN mirror[s]
        ELSE [row |-> run.todo[s],
              msgs |-> local[s].rev + (IF writing[s] = 0 THEN 0 ELSE 1)]]
Copied(S) ==
    [s \in Sessions |->
        IF s \notin S THEN mirror[s]
        ELSE [row |-> run.todo[s],
              msgs |-> IF s \in Live THEN local[s].rev ELSE 0]]

Sent(S) ==
    [run EXCEPT
        !.pushed = [s \in Sessions |-> IF s \in S THEN run.todo[s] ELSE @[s]],
        !.todo = [s \in Sessions |-> IF s \in S THEN 0 ELSE @[s]],
        !.retry = @ \ S,
        !.pc = IF run.retry \ S = {} THEN "send" ELSE "retry"]

Batch ==
    { S \in SUBSET In(run.todo) :
        \/ Cardinality(S) = BatchSize
        \/ Cardinality(S) < BatchSize /\ S = In(run.todo) }

SendBatch(S) ==
    /\ run.pc = "send" /\ backend = "postgres"
    /\ S \in Batch /\ S # {}
    /\ schema
    /\ mirror' = Copied(S)
    /\ run' = Sent(S)
    /\ UNCHANGED <<backend, scopes, archive, states, schema, schemaDone,
                   faults>>

\* A transaction fails and is rolled back: its sessions are sent one by one.
BatchFails(S) ==
    /\ run.pc = "send" /\ backend = "postgres"
    /\ S \in Batch /\ S # {}
    /\ \/ Fault
       \/ ~schema /\ UNCHANGED faults
    /\ run' = [run EXCEPT !.pc = "retry", !.retry = S]
    /\ UNCHANGED <<backend, scopes, archive, states, target>>

SendOne(s) ==
    /\ run.pc = "retry" /\ s \in run.retry
    /\ schema
    /\ mirror' = Copied({s})
    /\ run' = Sent({s})
    /\ UNCHANGED <<backend, scopes, archive, states, schema, schemaDone,
                   faults>>

OneFails(s) ==
    /\ run.pc = "retry" /\ s \in run.retry
    /\ \/ Fault
       \/ ~schema /\ UNCHANGED faults
    /\ run' = [run EXCEPT !.err = TRUE, !.retry = @ \ {s}, !.todo[s] = 0,
                          !.pc = IF run.retry = {s} THEN "send" ELSE @]
    /\ UNCHANGED <<backend, scopes, archive, states, target>>

\* Everything has been tried.  After an error nothing is recorded.
AllSent ==
    /\ run.pc = "send" /\ backend = "postgres"
    /\ In(run.todo) = {}
    /\ run' = IF run.err THEN Idle
              ELSE [run EXCEPT !.pc = IF run.scope = "some" THEN "fps"
                                                            ELSE "mark"]
    /\ UNCHANGED <<backend, scopes, archive, states, target, faults>>

-----------------------------------------------------------------------------
(* Push: sending to DuckDB. *)

\* One transaction: the rows in scope of sessions that are gone are deleted,
\* their fingerprints are forgotten, and every listed session is sent.
SendDuckDB ==
    LET stale == { s \in Scope(run.scope) \ Live : mirror[s].row # 0 }
        sent == In(run.todo)
    IN  /\ run.pc = "send" /\ backend = "duckdb"
        /\ schema
        /\ mirror' = [s \in Sessions |->
                         IF s \in stale THEN [row |-> 0, msgs |-> 0]
                         ELSE Copied(sent)[s]]
        /\ run' = [run EXCEPT
                      !.pushed = run.todo, !.todo = None,
                      !.prior = [s \in Sessions |->
                                    IF s \in stale THEN 0 ELSE @[s]],
                      !.pc = IF run.scope = "all" THEN "mark"
                             ELSE IF run.full THEN "duckclear" ELSE "fps"]
        /\ UNCHANGED <<backend, scopes, archive, states, schema, schemaDone,
                       faults>>

\* clearDuckDBSyncState: the keys of the scope, after a full filtered push.
ClearDuckDB ==
    /\ run.pc = "duckclear"
    /\ wm' = [wm EXCEPT ![run.scope] = 0]
    /\ legacy' = 0
    /\ fps' = [fps EXCEPT ![run.scope] = None]
    /\ run' = [run EXCEPT !.pc = "fps"]
    /\ UNCHANGED <<backend, scopes, archive, target, faults>>

-----------------------------------------------------------------------------
(* Push: recording what was sent, in separate writes to the archive. *)

RecordWatermark ==
    /\ run.pc = "mark"
    /\ wm' = [wm EXCEPT ![run.scope] = run.cutoff]
    /\ run' = [run EXCEPT !.pc = "legacy"]
    /\ UNCHANGED <<backend, scopes, archive, legacy, fps, target, faults>>

RecordLegacy ==
    /\ run.pc = "legacy"
    /\ legacy' = run.cutoff
    /\ run' = [run EXCEPT !.pc = "fps"]
    /\ UNCHANGED <<backend, scopes, archive, wm, fps, target, faults>>

\* An unfiltered push to PostgreSQL keeps only what it sent itself.
RecordFingerprints_AtEnd ==
    /\ run.pc = "fps"
    /\ fps' = [fps EXCEPT ![run.scope] =
                  [s \in Sessions |->
                      IF run.pushed[s] # 0 THEN local[s].rev
                      ELSE IF backend = "duckdb" \/ run.scope = "some"
                      THEN run.prior[s] ELSE 0]]
    /\ run' = Idle
    /\ UNCHANGED <<backend, scopes, archive, wm, legacy, target, faults>>
RecordFingerprints ==
    /\ run.pc = "fps"
    /\ fps' = [fps EXCEPT ![run.scope] =
                  [s \in Sessions |->
                      IF run.pushed[s] # 0 THEN run.pushed[s]
                      ELSE IF backend = "duckdb" \/ run.scope = "some"
                      THEN run.prior[s] ELSE 0]]
    /\ run' = Idle
    /\ UNCHANGED <<backend, scopes, archive, wm, legacy, target, faults>>

-----------------------------------------------------------------------------
(* Failures that end a push. *)

\* A query fails, or no transaction can be begun: Push returns the error and
\* the watcher opens a new connection next time.
Abort ==
    /\ run.pc \in {"check", "cutoff", "list", "window", "send", "retry"}
    /\ \/ Fault
       \/ run.pc = "cutoff" /\ ~schema /\ UNCHANGED faults
    /\ run' = Idle
    /\ schemaDone' = FALSE
    /\ UNCHANGED <<backend, scopes, archive, states, schema, mirror>>

\* The process is killed and started again.
Crash ==
    /\ run.pc # "idle"
    /\ Fault
    /\ run' = Idle
    /\ schemaDone' = FALSE
    /\ UNCHANGED <<backend, scopes, archive, states, schema, mirror>>

-----------------------------------------------------------------------------
PushStep ==
    \/ ClearFingerprints \/ ClearWatermarks \/ CheckCoherence
    \/ TakeCutoff \/ ListModified \/ AddBoundary
    \/ \E S \in SUBSET Sessions : SendBatch(S) \/ BatchFails(S)
    \/ \E s \in Sessions : SendOne(s) \/ OneFails(s)
    \/ AllSent \/ SendDuckDB \/ ClearDuckDB
    \/ RecordWatermark \/ RecordLegacy \/ RecordFingerprints
    \/ Abort

World ==
    \/ Tick \/ Commit \/ Rebuild \/ Reset \/ Crash
    \/ \E s \in Sessions : Stamp(s) \/ Delete(s)

Next ==
    \/ \E sc \in Scopes, full \in BOOLEAN : Begin(sc, full)
    \/ PushStep
    \/ World

Spec == Init /\ [][Next]_vars

\* A push that has begun goes on, an open transaction is committed, and pushes
\* of every scope that the installation uses keep coming (the floor tick of
\* the watcher, the user's cron job).
Fairness ==
    /\ WF_vars(PushStep)
    /\ WF_vars(Commit)
    /\ \A sc \in Scopes : SF_vars(Begin(sc, FALSE))

FairSpec == Spec /\ Fairness

-----------------------------------------------------------------------------
(* Properties. *)

\* The mirror has the session as it is.
Current(s) ==
    mirror[s].row = local[s].rev /\ mirror[s].msgs = local[s].rev

\* A recorded fingerprint never hides a change: where it is the session's
\* fingerprint, the mirror has the session as it is, or has been lost whole.
FingerprintsHonest ==
    run.pc = "idle" =>
        \A sc \in Scopes, s \in Live :
            fps[sc][s] = local[s].rev => Current(s) \/ Count = 0

\* What the next push of the whole archive would look at.
NextLast == ReadLast("all", FALSE)
WillBeSent(s) ==
    \/ NextLast # 0 /\ Count = 0
    \/ /\ NextLast = 0 \/ NextLast <= local[s].mark
       /\ fps["all"][s] # local[s].rev

\* No change slips past the watermark: a session that the mirror does not have
\* as it is will be sent by the next push, whatever failed or crashed before.
NothingSlipsPast ==
    run.pc = "idle" => \A s \in Live : Current(s) \/ WillBeSent(s)

\* Once the archive and the failures are quiet, every session in scope is in
\* the mirror as it is, and DuckDB has none that is gone.
Pushed(s) == \E sc \in scopes : s \in Scope(sc)
Settled(s) ==
    /\ local[s].st = "live" => Current(s)
    /\ local[s].st = "gone" /\ backend = "duckdb" => mirror[s].row = 0
EventuallyMirrored ==
    \A s \in Sessions : <>[](Pushed(s) => Settled(s))

\* What the mirror is compared with: the revisions that are committed.
NotGone == { s \in Sessions : local[s].st # "gone" }
Source == [s \in Sessions |-> local[s].rev]
Rows == INSTANCE Replica WITH source <- Source, live <- NotGone,
            copy <- [s \in Sessions |-> mirror[s].row]
Messages == INSTANCE Replica WITH source <- Source, live <- NotGone,
            copy <- [s \in Sessions |-> mirror[s].msgs]
RowsAreReplica == Rows!Spec
MessagesAreReplica == Messages!Spec

\* A mirror's rows, and its messages, are replicas of the archive, whatever is
\* lost, sent again or read in between: they never go back to an older
\* revision, and never show one that is not committed.
MirrorIsReplica == RowsAreReplica /\ MessagesAreReplica
=============================================================================

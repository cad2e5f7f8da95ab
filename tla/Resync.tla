------------------------------- MODULE Resync -------------------------------
(***************************************************************************)
(* Engine.ResyncAll (internal/sync/engine.go): the archive is rebuilt in a *)
(* temporary database, completed with what only the old one knows, and     *)
(* renamed into place, while users go on working on the old one until its  *)
(* connections are closed.                                                 *)
(*                                                                         *)
(* A session has at most one source file.  disk[s] says what parsing it    *)
(* gives: "ok", "bad" (a parse error), "filtered" (the parser excludes the *)
(* session on purpose), "gone" (no file any more) or "import" (a session   *)
(* that an importer writes and that never has one).  The transcript of a   *)
(* row is "old" when an earlier parser produced it and "new" when the      *)
(* current one did.                                                        *)
(***************************************************************************)
EXTENDS Naturals, FiniteSets

CONSTANTS
    Sessions,   \* session ids
    MaxEdits,   \* bound: operations of users
    MaxFaults   \* bound: failures and crashes

ASSUME ResyncAssumption ==
    /\ IsFiniteSet(Sessions)
    /\ MaxEdits \in Nat
    /\ MaxFaults \in Nat

VARIABLES
    disk,     \* what each source file holds
    db,       \* the database file at its usual path
    temp,     \* the database file under resyncTempSuffix, or NoDb
    open,     \* the handle of db has connections
    pc,       \* where ResyncAll is
    stats,    \* its SyncStats and local variables
    skip,     \* Engine.skipCache
    deleted,  \* sessions a user deleted for good (history)
    lapsed,   \* what completed swaps failed to carry over, without giving up
    broken,   \* the last Reopen failed
    edits, faults

vars == <<disk, db, temp, open, pc, stats, skip, deleted, lapsed, broken,
          edits, faults>>

-----------------------------------------------------------------------------

Sources == {"ok", "bad", "filtered", "gone", "import"}
Files == { s \in Sessions : disk[s] \in {"ok", "bad", "filtered"} }
FileBacked == { s \in Sessions : disk[s] # "import" }

NoRow == [st |-> "none", text |-> "old", rev |-> 0, star |-> FALSE]

RowType == [st : {"none", "live", "trashed"}, text : {"old", "new"},
            rev : Nat, star : BOOLEAN]

\* sessions with starred_sessions, excluded_sessions, skipped_files, insights,
\* and whether user_version is the one of the running binary.
DbType == [rows : [Sessions -> RowType], excl : SUBSET Sessions,
           skipped : SUBSET Sessions, insight : BOOLEAN, current : BOOLEAN]

EmptyDb == [rows |-> [s \in Sessions |-> NoRow], excl |-> {}, skipped |-> {},
            insight |-> FALSE, current |-> TRUE]

NoDb == [EmptyDb EXCEPT !.current = FALSE]

Ids(d) == { s \in Sessions : d.rows[s].st # "none" }
Trashed(d) == { s \in Sessions : d.rows[s].st = "trashed" }
Live(d) == Ids(d) \ Trashed(d)

\* Copy the rows of the ids S of database o into d.  The star is in a table of
\* its own, which this copy leaves out.
copySessionDataForIDs(d, o, S) ==
    [d EXCEPT !.rows = [s \in Sessions |->
        IF s \in S THEN [o.rows[s] EXCEPT !.star = FALSE] ELSE @[s]]]

Lapses == {"deletions", "metadata", "skips"}

\* oldFiles, trashed: oldFileSessions, trashedCopied.  todo: discovered files
\* not parsed yet.  saved: savedSkipCache.  unwritten: sessions whose write
\* failed or was refused.  lapses: the other failures that ResyncAll tolerates.
NoStats == [oldFiles |-> 0, trashed |-> 0, total |-> 0, synced |-> 0,
            failed |-> 0, filesOK |-> 0, filteredFiles |-> 0,
            parserExcluded |-> {}, aborted |-> FALSE, todo |-> {},
            saved |-> {}, unwritten |-> {}, lapses |-> {}]

StatsType == [oldFiles : Nat, trashed : Nat, total : Nat, synced : Nat,
              failed : Nat, filesOK : Nat, filteredFiles : Nat,
              parserExcluded : SUBSET Sessions, aborted : BOOLEAN,
              todo : SUBSET Sessions, saved : SUBSET Sessions,
              unwritten : SUBSET Sessions, lapses : SUBSET Lapses]

Pcs == {"idle", "opentemp", "excl", "trash", "discover", "parse", "decide",
        "close", "reexcl", "purge", "insights", "orphans", "metadata",
        "fts", "rename", "reopen", "recover"}

Init ==
    /\ disk \in [Sessions -> Sources]
    /\ \E live \in SUBSET Sessions :
       \E trash \in SUBSET live :
          db = [rows |-> [s \in Sessions |->
                    IF s \in live
                      THEN [st |-> IF s \in trash THEN "trashed" ELSE "live",
                            text |-> "old", rev |-> 1, star |-> FALSE]
                      ELSE NoRow],
                excl |-> {}, skipped |-> { s \in Sessions : disk[s] = "bad" },
                insight |-> FALSE, current |-> FALSE]
    /\ temp = NoDb
    /\ open = TRUE
    /\ pc = "idle"
    /\ stats = NoStats
    /\ skip = db.skipped
    /\ deleted = {}
    /\ lapsed = {}
    /\ broken = FALSE
    /\ edits = 0 /\ faults = 0

-----------------------------------------------------------------------------
(* Users and importers, on the handle of the usual database. *)

Edit == open /\ edits < MaxEdits /\ edits' = edits + 1

EditsOnlyDb == UNCHANGED <<disk, temp, open, pc, stats, skip, lapsed, broken,
                           faults>>

SoftDeleteSession(s) ==
    /\ Edit /\ db.rows[s].st = "live"
    /\ db' = [db EXCEPT !.rows[s].st = "trashed"]
    /\ UNCHANGED deleted /\ EditsOnlyDb

RestoreSession(s) ==
    /\ Edit /\ db.rows[s].st = "trashed"
    /\ db' = [db EXCEPT !.rows[s].st = "live"]
    /\ UNCHANGED deleted /\ EditsOnlyDb

\* DeleteSessionIfTrashed, EmptyTrash: the row goes, its star with it, and the
\* id is excluded.
DeleteSession(s) ==
    /\ Edit /\ db.rows[s].st = "trashed"
    /\ db' = [db EXCEPT !.rows[s] = NoRow, !.excl = @ \cup {s}]
    /\ deleted' = deleted \cup {s}
    /\ EditsOnlyDb

StarSession(s) ==
    /\ Edit /\ db.rows[s].st # "none"
    /\ db' = [db EXCEPT !.rows[s].star = ~@]
    /\ UNCHANGED deleted /\ EditsOnlyDb

InsertInsight ==
    /\ Edit /\ ~db.insight
    /\ db' = [db EXCEPT !.insight = TRUE]
    /\ UNCHANGED deleted /\ EditsOnlyDb

ImportSession(s) ==
    /\ Edit /\ disk[s] = "import"
    /\ db.rows[s].st = "none" /\ s \notin db.excl
    /\ db' = [db EXCEPT !.rows[s] =
                 [st |-> "live", text |-> "new", rev |-> 1, star |-> FALSE]]
    /\ UNCHANGED deleted /\ EditsOnlyDb

\* An agent cleans up its own files.
RemoveFile(s) ==
    /\ edits < MaxEdits /\ edits' = edits + 1
    /\ s \in Files
    /\ disk' = [disk EXCEPT ![s] = "gone"]
    /\ UNCHANGED <<db, temp, open, pc, stats, skip, deleted, lapsed, broken,
                   faults>>

-----------------------------------------------------------------------------
(* ResyncAll, step by step. *)

Fault == faults < MaxFaults /\ faults' = faults + 1

\* A failure that is logged and passed over.
Lapse(what) == [stats EXCEPT !.lapses = @ \cup {what}]

\* A step that changes nothing but the temporary database, and goes on.
TempStep(from, to) ==
    /\ pc = from /\ pc' = to
    /\ UNCHANGED <<disk, db, open, skip, deleted, lapsed, broken, edits>>

AbortTo_KeepsTemp(next) ==
    /\ pc' = next
    /\ skip' = stats.saved
    /\ stats' = NoStats
    /\ open' = (open /\ next # "recover")
    /\ UNCHANGED <<disk, db, temp, deleted, lapsed, broken, edits>>

AbortTo_ForgetsSkipCache(next) ==
    /\ pc' = next
    /\ temp' = NoDb
    /\ stats' = NoStats
    /\ open' = (open /\ next # "recover")
    /\ UNCHANGED <<disk, db, skip, deleted, lapsed, broken, edits>>

AbortTo_NoReopen(next) ==
    /\ pc' = "idle"
    /\ temp' = NoDb
    /\ skip' = stats.saved
    /\ stats' = NoStats
    /\ open' = (open /\ next # "recover")
    /\ UNCHANGED <<disk, db, deleted, lapsed, broken, edits>>

\* Give up: the temporary database is removed and the skip cache restored.
\* Where the connections are closed, some of them at least, they are opened
\* again ("recover").
AbortTo(next) ==
    /\ pc' = next
    /\ temp' = NoDb
    /\ skip' = stats.saved
    /\ stats' = NoStats
    /\ open' = (open /\ next # "recover")
    /\ UNCHANGED <<disk, db, deleted, lapsed, broken, edits>>

Fails(at, next) == pc = at /\ Fault /\ AbortTo(next)

Begin_KeepsSkipCache ==
    /\ pc = "idle"
    /\ pc' = "opentemp"
    /\ temp' = NoDb
    /\ stats' = [NoStats EXCEPT !.saved = skip]
    /\ UNCHANGED <<disk, db, open, skip, deleted, lapsed, broken, edits, faults>>

\* Live file-backed sessions are counted (one, when they cannot be), a leftover temporary
\* database is removed and the skip cache is set aside.
Begin ==
    /\ pc = "idle"
    /\ pc' = "opentemp"
    /\ temp' = NoDb
    /\ stats' = [NoStats EXCEPT
          !.oldFiles = IF open THEN Cardinality(Live(db) \cap FileBacked) ELSE 1,
          !.saved = skip]
    /\ skip' = {}
    /\ UNCHANGED <<disk, db, open, deleted, lapsed, broken, edits, faults>>

OpenTemp ==
    /\ TempStep("opentemp", "excl")
    /\ temp' = EmptyDb
    /\ UNCHANGED <<stats, faults>>

CopyExcludedSessionsFrom(from, to) ==
    /\ TempStep(from, to)
    /\ \/ /\ temp' = [temp EXCEPT !.excl = @ \cup db.excl]
          /\ UNCHANGED <<stats, faults>>
       \/ /\ Fault
          /\ stats' = IF from = "reexcl" THEN Lapse("deletions") ELSE stats
          /\ UNCHANGED temp

CopyTrashedDataFrom ==
    LET ids == Trashed(db) \ temp.excl IN
    /\ TempStep("trash", "discover")
    /\ temp' = copySessionDataForIDs(temp, db, ids)
    /\ stats' = [stats EXCEPT !.trashed = Cardinality(ids)]
    /\ UNCHANGED faults

Discover ==
    /\ TempStep("discover", "parse")
    /\ stats' = [stats EXCEPT !.total = Cardinality(Files), !.todo = Files]
    /\ UNCHANGED <<temp, faults>>

\* A parsed session is written unless its id is excluded or in the trash of
\* the temporary database; then its file enters the skip cache.
WriteSessionBatch(s) ==
    IF s \in temp.excl \cup Trashed(temp)
    THEN /\ skip' = skip \cup {s}
         /\ stats' = [stats EXCEPT !.todo = @ \ {s}, !.filesOK = @ + 1,
                                   !.unwritten = @ \cup {s}]
         /\ UNCHANGED temp
    ELSE /\ temp' = [temp EXCEPT !.rows[s] =
                [st |-> "live", text |-> "new", rev |-> 1, star |-> FALSE]]
         /\ stats' = [stats EXCEPT !.todo = @ \ {s}, !.filesOK = @ + 1,
                                   !.synced = @ + 1]
         /\ UNCHANGED skip

\* A file that cannot be read is not cached; one that cannot be parsed is.
FileFails(s) ==
    /\ stats' = [stats EXCEPT !.todo = @ \ {s}, !.failed = @ + 1]
    /\ skip' = IF disk[s] = "gone" THEN skip ELSE skip \cup {s}
    /\ UNCHANGED temp

\* DeleteParserExcludedSessions spares the trash.
FileFiltered(s) ==
    /\ temp' = IF s \in Trashed(temp) THEN temp
               ELSE [temp EXCEPT !.rows[s] = NoRow]
    /\ stats' = [stats EXCEPT !.todo = @ \ {s}, !.filesOK = @ + 1,
                    !.filteredFiles = @ + 1, !.parserExcluded = @ \cup {s}]
    /\ skip' = skip \cup {s}

\* One result of the parse workers, which finish in any order.
ParseFile(s) ==
    /\ pc = "parse" /\ s \in stats.todo
    /\ IF s \in skip
       THEN /\ stats' = [stats EXCEPT !.todo = @ \ {s}]
            /\ UNCHANGED <<temp, skip>>
       ELSE CASE disk[s] = "ok" -> WriteSessionBatch(s)
              [] disk[s] = "filtered" -> FileFiltered(s)
              [] OTHER -> FileFails(s)
    /\ UNCHANGED <<disk, db, open, pc, deleted, lapsed, broken, edits, faults>>

\* The batch a parsed session belongs to is not committed.
WriteFails(s) ==
    /\ pc = "parse" /\ s \in stats.todo /\ disk[s] = "ok"
    /\ Fault
    /\ stats' = [stats EXCEPT !.todo = @ \ {s}, !.filesOK = @ + 1,
                              !.failed = @ + 1, !.unwritten = @ \cup {s}]
    /\ UNCHANGED <<disk, db, temp, open, pc, skip, deleted, lapsed, broken,
                   edits>>

\* The sync ends with persistSkipCache into the temporary database, which may
\* fail, or early because its context is cancelled.
EndSync ==
    /\ TempStep("parse", "decide")
    /\ \/ /\ stats.todo = {}
          /\ temp' = [temp EXCEPT !.skipped = skip]
          /\ UNCHANGED <<stats, faults>>
       \/ /\ stats.todo = {} /\ Fault
          /\ stats' = Lapse("skips")
          /\ UNCHANGED temp
       \/ /\ Fault
          /\ stats' = [stats EXCEPT !.aborted = TRUE]
          /\ UNCHANGED temp

\* The rebuilt database would be worse than the one there is.
AbortSwap ==
    LET nothing == stats.synced = 0 /\ stats.total > 0
        preservedOnly == /\ nothing /\ stats.failed = 0
                         /\ stats.oldFiles = 0 \/ stats.trashed > 0
        excludedOnly == /\ nothing /\ stats.failed = 0
                        /\ stats.filteredFiles > 0
                        /\ stats.filesOK = stats.filteredFiles
    IN \/ stats.aborted
       \/ stats.total = 0 /\ stats.filesOK = 0 /\ stats.oldFiles > 0
       \/ nothing /\ ~preservedOnly /\ ~excludedOnly
       \/ stats.failed > 0 /\ stats.failed > stats.filesOK

Decide ==
    /\ pc = "decide"
    /\ IF AbortSwap THEN AbortTo("idle")
       ELSE TempStep("decide", "close") /\ UNCHANGED <<temp, stats>>
    /\ UNCHANGED faults

CloseConnections_StillOpen ==
    /\ pc = "close" /\ pc' = "reexcl"
    /\ UNCHANGED <<disk, db, temp, open, stats, skip, deleted, lapsed, broken,
                   edits, faults>>

\* From here on no user writes to the old database.
CloseConnections ==
    /\ pc = "close" /\ pc' = "reexcl"
    /\ open' = FALSE
    /\ UNCHANGED <<disk, db, temp, stats, skip, deleted, lapsed, broken,
                   edits, faults>>

PurgeExcludedSessions_Nothing ==
    /\ TempStep("purge", "insights")
    /\ UNCHANGED <<temp, stats, faults>>

PurgeExcludedSessions ==
    /\ TempStep("purge", "insights")
    /\ \/ /\ temp' = [temp EXCEPT !.rows = [s \in Sessions |->
                         IF s \in temp.excl THEN NoRow ELSE @[s]]]
          /\ UNCHANGED <<stats, faults>>
       \/ /\ Fault
          /\ stats' = Lapse("deletions")
          /\ UNCHANGED temp

CopyInsightsFrom ==
    /\ TempStep("insights", "orphans")
    /\ temp' = [temp EXCEPT !.insight = @ \/ db.insight]
    /\ UNCHANGED <<stats, faults>>

ReconcileRevisions_Nothing(d, o) == d

\* Where both databases have the session the revision is the old one, plus one
\* when the transcript differs.
ReconcileRevisions(d, o) ==
    [d EXCEPT !.rows = [s \in Sessions |->
        IF s \in Ids(d) \cap Ids(o)
        THEN [@[s] EXCEPT !.rev = IF d.rows[s].text # o.rows[s].text
                                  THEN o.rows[s].rev + 1 ELSE o.rows[s].rev]
        ELSE @[s]]]

CopyOrphanedDataFrom_NoFile ==
    LET ids == { s \in Ids(db) \ (Ids(temp) \cup temp.excl) : disk[s] = "gone" }
    IN /\ TempStep("orphans", "metadata")
       /\ temp' = ReconcileRevisions(copySessionDataForIDs(temp, db, ids), db)
       /\ UNCHANGED <<stats, faults>>

\* Sessions only the old database has, and is not meant to lose.
CopyOrphanedDataFrom ==
    LET ids == Ids(db) \ (Ids(temp) \cup temp.excl \cup stats.parserExcluded)
    IN /\ TempStep("orphans", "metadata")
       /\ temp' = ReconcileRevisions(copySessionDataForIDs(temp, db, ids), db)
       /\ UNCHANGED <<stats, faults>>

\* deleted_at is overwritten, stars are added.
CopySessionMetadataFrom ==
    /\ TempStep("metadata", "fts")
    /\ \/ /\ temp' = [temp EXCEPT !.rows = [s \in Sessions |->
                 IF s \in Ids(temp) \cap Ids(db)
                 THEN [temp.rows[s] EXCEPT
                          !.st = db.rows[s].st,
                          !.star = temp.rows[s].star \/ db.rows[s].star]
                 ELSE temp.rows[s]]]
          /\ UNCHANGED <<stats, faults>>
       \/ /\ Fault
          /\ stats' = Lapse("metadata")
          /\ UNCHANGED temp

RebuildFTS ==
    /\ TempStep("fts", "rename")
    /\ UNCHANGED <<temp, stats, faults>>

Rename ==
    /\ pc = "rename" /\ pc' = "reopen"
    /\ db' = temp
    /\ temp' = NoDb
    /\ lapsed' = lapsed \cup stats.lapses
    /\ UNCHANGED <<disk, open, stats, skip, deleted, broken, edits, faults>>

\* Reopen, then persistSkipCache through the new connections.
Reopen ==
    /\ pc = "reopen" /\ pc' = "idle"
    /\ \/ /\ open' = TRUE /\ broken' = FALSE
          /\ db' = [db EXCEPT !.skipped = skip]
          /\ lapsed' = lapsed \ {"skips"}
          /\ UNCHANGED faults
       \/ /\ Fault /\ broken' = TRUE
          /\ UNCHANGED <<open, db, lapsed>>
    /\ stats' = NoStats
    /\ UNCHANGED <<disk, temp, skip, deleted, edits>>

Recover ==
    /\ pc = "recover" /\ pc' = "idle"
    /\ \/ open' = TRUE /\ broken' = FALSE /\ UNCHANGED faults
       \/ Fault /\ broken' = TRUE /\ UNCHANGED open
    /\ UNCHANGED <<disk, db, temp, stats, skip, deleted, lapsed, edits>>

\* Opening the temporary database, the copies that may not fail, DropFTS,
\* closing, RebuildFTS and the rename.
Failure ==
    \/ \E at \in {"opentemp", "trash", "discover"} : Fails(at, "idle")
    \/ \E at \in {"close", "insights", "orphans", "fts", "rename"} :
          Fails(at, "recover")

\* The process dies and starts again: cleanResyncTemp, db.Open, NewEngine.
Restart ==
    /\ pc # "idle" \/ ~open
    /\ Fault
    /\ pc' = "idle" /\ stats' = NoStats /\ temp' = NoDb
    /\ skip' = db.skipped
    /\ open' = TRUE /\ broken' = FALSE
    /\ lapsed' = lapsed \ {"skips"}
    /\ UNCHANGED <<disk, db, deleted, edits>>

-----------------------------------------------------------------------------

ResyncStep ==
    \/ OpenTemp
    \/ CopyExcludedSessionsFrom("excl", "trash")
    \/ CopyTrashedDataFrom \/ Discover
    \/ \E s \in Sessions : ParseFile(s)
    \/ EndSync \/ Decide \/ CloseConnections
    \/ CopyExcludedSessionsFrom("reexcl", "purge")
    \/ PurgeExcludedSessions \/ CopyInsightsFrom \/ CopyOrphanedDataFrom
    \/ CopySessionMetadataFrom \/ RebuildFTS \/ Rename \/ Reopen \/ Recover

UserStep ==
    \/ \E s \in Sessions :
          \/ SoftDeleteSession(s) \/ RestoreSession(s) \/ DeleteSession(s)
          \/ StarSession(s) \/ ImportSession(s) \/ RemoveFile(s)
    \/ InsertInsight

Next ==
    \/ Begin
    \/ ResyncStep
    \/ \E s \in Sessions : WriteFails(s)
    \/ Failure
    \/ Restart
    \/ UserStep

Spec == Init /\ [][Next]_vars

\* A rebuild that has begun goes on, so long as the process is up.
FairSpec == Spec /\ WF_vars(ResyncStep)

-----------------------------------------------------------------------------
(* Properties. *)

\* The state has the types of the code's, and a temporary database exists
\* only while a rebuild fills it.
TypeOK ==
    /\ disk \in [Sessions -> Sources]
    /\ db \in DbType /\ temp \in DbType
    /\ pc \in Pcs /\ stats \in StatsType
    /\ skip \subseteq Sessions /\ deleted \subseteq Sessions
    /\ lapsed \subseteq Lapses
    /\ open \in BOOLEAN /\ broken \in BOOLEAN
    /\ edits \in 0 .. MaxEdits /\ faults \in 0 .. MaxFaults
    /\ pc \in {"idle", "opentemp", "reopen", "recover"} => temp = NoDb

\* A session deleted for good is never in the archive again, whenever the
\* deletion falls into a rebuild and however often one is repeated, except
\* when the copy of the deletions or the purge failed in a swap that went on.
DeletedStaysGone ==
    "deletions" \notin lapsed =>
        \A s \in deleted : s \notin Ids(db) /\ s \in db.excl

\* Between two rebuilds the skip cache in memory is the one in the database,
\* whichever way the last rebuild ended ("behavior matches the persisted DB"),
\* except when storing it failed and so did the Reopen.
SkipCacheMatches ==
    pc = "idle" /\ "skips" \notin lapsed => skip = db.skipped

Swap == pc = "rename" /\ pc' = "reopen"

\* The swap loses no session of the old archive, be its file gone, unreadable
\* or not written, or the session imported during the rebuild, other than the
\* deleted ones and the ones the parser excludes on purpose.
SwapKeepsArchive ==
    [][Swap => Ids(db) \ (db.excl \cup stats.parserExcluded)
                   \subseteq Ids(db')]_vars

\* The swap loses nothing users did until the connections were closed:
\* insights, and the trash and the stars unless copying them failed.
SwapKeepsUserState ==
    [][Swap => /\ db'.insight = db.insight
               /\ "metadata" \notin stats.lapses =>
                    \A s \in Ids(db) \cap Ids(db') :
                        /\ db'.rows[s].st = db.rows[s].st
                        /\ db'.rows[s].star = db.rows[s].star]_vars

\* A swap changes the revision clients compare to notice a new transcript
\* when, and only when, it changes the transcript.
RevisionMarksChange ==
    [][Swap => \A s \in Ids(db) \cap Ids(db') :
                  (db'.rows[s].rev # db.rows[s].rev)
                     <=> (db'.rows[s].text # db.rows[s].text)]_vars

\* A transcript of an older parser survives a swap only if its file cannot be
\* parsed any more, or its write failed or was refused for being in the trash
\* when the rebuild began; whatever the skip cache held before is parsed again.
RebuildIsFresh ==
    [][Swap => \A s \in Ids(db') :
                  \/ db'.rows[s].text = "new"
                  \/ disk[s] # "ok"
                  \/ s \in stats.unwritten]_vars

\* A rebuild ends, and with the connections open unless the Reopen failed.
ResyncEnds == pc # "idle" ~> (pc = "idle" /\ (open \/ broken))

=============================================================================

---------------------------- MODULE ResyncProofs ----------------------------
(***************************************************************************)
(* What is proved of Resync.tla for any set of sessions and any number of  *)
(* edits, failures and rebuilds.                                           *)
(***************************************************************************)
EXTENDS Resync, FiniteSetTheorems, TLAPS

-----------------------------------------------------------------------------
(* Types.  The records are rebuilt with EXCEPT everywhere; these lemmas say  *)
(* what that leaves of their types.                                          *)

LEMMA SomeSessions ==
    ASSUME NEW S \in SUBSET Sessions PROVE Cardinality(S) \in Nat
BY ResyncAssumption, FS_Subset, FS_CardinalityType

LEMMA RowTypes ==
    /\ NoRow \in RowType
    /\ \A st \in {"none", "live", "trashed"}, text \in {"old", "new"},
          rev \in Nat, star \in BOOLEAN :
          [st |-> st, text |-> text, rev |-> rev, star |-> star] \in RowType
BY DEF NoRow, RowType

LEMMA DbTypes ==
    ASSUME NEW d \in DbType
    PROVE  /\ d.rows \in [Sessions -> RowType]
           /\ \A r \in [Sessions -> RowType] : [d EXCEPT !.rows = r] \in DbType
           /\ \A S \in SUBSET Sessions : /\ [d EXCEPT !.excl = S] \in DbType
                                         /\ [d EXCEPT !.skipped = S] \in DbType
           /\ \A b \in BOOLEAN : [d EXCEPT !.insight = b] \in DbType
BY DEF DbType

LEMMA FirstDbs == EmptyDb \in DbType /\ NoDb \in DbType
<1>1. EmptyDb \in DbType
    BY RowTypes DEF EmptyDb, DbType
<1> QED
    BY <1>1 DEF NoDb, DbType

\* The temporary database after the steps that rewrite many rows.
LEMMA CopyType ==
    ASSUME NEW d \in DbType, NEW o \in DbType, NEW S
    PROVE  /\ copySessionDataForIDs(d, o, S) \in DbType
           /\ ReconcileRevisions(d, o) \in DbType
<1>1. ASSUME NEW s \in Sessions
      PROVE  /\ d.rows[s] \in RowType /\ o.rows[s] \in RowType
             /\ o.rows[s].rev \in Nat /\ o.rows[s].rev + 1 \in Nat
    BY DEF DbType, RowType
<1>2. ASSUME NEW s \in Sessions
      PROVE  /\ [o.rows[s] EXCEPT !.star = FALSE] \in RowType
             /\ \A rev \in Nat : [d.rows[s] EXCEPT !.rev = rev] \in RowType
    BY <1>1 DEF RowType
<1>3. [s \in Sessions |-> IF s \in S THEN [o.rows[s] EXCEPT !.star = FALSE]
                          ELSE d.rows[s]] \in [Sessions -> RowType]
    BY <1>1, <1>2
<1>4. [s \in Sessions |->
          IF s \in Ids(d) \cap Ids(o)
          THEN [d.rows[s] EXCEPT !.rev = IF d.rows[s].text # o.rows[s].text
                                        THEN o.rows[s].rev + 1 ELSE o.rows[s].rev]
          ELSE d.rows[s]] \in [Sessions -> RowType]
    BY <1>1, <1>2
<1> QED
    BY <1>3, <1>4, DbTypes DEF copySessionDataForIDs, ReconcileRevisions

\* The conjuncts of TypeOK, in the form the steps of the proofs use.
StateType ==
    /\ disk \in [Sessions -> Sources] /\ db \in DbType /\ temp \in DbType
    /\ pc \in Pcs /\ stats \in StatsType
    /\ skip \subseteq Sessions /\ deleted \subseteq Sessions
    /\ lapsed \subseteq Lapses
    /\ open \in BOOLEAN /\ broken \in BOOLEAN
    /\ edits \in 0 .. MaxEdits /\ faults \in 0 .. MaxFaults

NoTemp == pc \in {"idle", "opentemp", "reopen", "recover"} => temp = NoDb

LEMMA TypeInit == Init => StateType /\ NoTemp
<1> SUFFICES ASSUME Init PROVE StateType /\ NoTemp
    OBVIOUS
<1>1. NoStats \in StatsType
    BY DEF NoStats, StatsType
<1>2. PICK live \in SUBSET Sessions, trash \in SUBSET Sessions :
          db = [rows |-> [s \in Sessions |->
                    IF s \in live
                      THEN [st |-> IF s \in trash THEN "trashed" ELSE "live",
                            text |-> "old", rev |-> 1, star |-> FALSE]
                      ELSE NoRow],
                excl |-> {}, skipped |-> { s \in Sessions : disk[s] = "bad" },
                insight |-> FALSE, current |-> FALSE]
    BY DEF Init
<1>3. [s \in Sessions |->
          IF s \in live
          THEN [st |-> IF s \in trash THEN "trashed" ELSE "live",
                text |-> "old", rev |-> 1, star |-> FALSE]
          ELSE NoRow] \in [Sessions -> RowType]
    BY RowTypes
<1>4. db \in DbType
    BY <1>2, <1>3 DEF DbType
<1>5. skip \subseteq Sessions
    BY <1>2 DEF Init
<1>6. edits \in 0 .. MaxEdits /\ faults \in 0 .. MaxFaults
    BY ResyncAssumption DEF Init
<1> QED
    BY <1>1, <1>4, <1>5, <1>6, FirstDbs DEF Init, StateType, NoTemp, Pcs

\* What users do touches the rows, the exclusions and the insights of the
\* database, or a file.
LEMMA UserTypes == StateType /\ UserStep => StateType'
<1> SUFFICES ASSUME StateType, UserStep PROVE StateType'
    OBVIOUS
<1>1. /\ UNCHANGED <<temp, open, pc, stats, skip, lapsed, broken, faults>>
      /\ edits < MaxEdits /\ edits' = edits + 1
    BY DEF UserStep, SoftDeleteSession, RestoreSession, DeleteSession,
       StarSession, ImportSession, RemoveFile, InsertInsight, Edit, EditsOnlyDb
<1> DEFINE Row(s, r) == [db EXCEPT !.rows[s] = r]
<1>2. ASSUME NEW s \in Sessions
      PROVE  /\ db.rows[s] \in RowType
             /\ \A r \in RowType : Row(s, r) \in DbType
    BY DEF StateType, DbType
<1>3. ASSUME NEW s \in Sessions
      PROVE  /\ \A st \in {"live", "trashed"} :
                    [db.rows[s] EXCEPT !.st = st] \in RowType
             /\ [db.rows[s] EXCEPT !.star = ~db.rows[s].star] \in RowType
    BY <1>2 DEF RowType
<1>4. ASSUME NEW s \in Sessions, SoftDeleteSession(s) \/ RestoreSession(s)
                                 \/ StarSession(s) \/ ImportSession(s)
      PROVE  db' \in DbType
    <2>1. PICK r \in RowType : db' = Row(s, r)
        BY <1>3, <1>4, RowTypes, Zenon DEF SoftDeleteSession, RestoreSession,
           StarSession, ImportSession
    <2> QED
        BY <1>2, <2>1
<1>5. ASSUME NEW s \in Sessions, DeleteSession(s)
      PROVE  db' \in DbType /\ deleted' \subseteq Sessions
    <2>1. db' = [Row(s, NoRow) EXCEPT !.excl = db.excl \cup {s}]
        BY <1>5, Zenon DEF DeleteSession
    <2>2. Row(s, NoRow) \in DbType /\ db.excl \cup {s} \in SUBSET Sessions
        BY <1>2, RowTypes DEF StateType, DbType
    <2> HIDE DEF Row
    <2>3. db' \in DbType
        BY <2>1, <2>2, DbTypes
    <2> QED
        BY <1>5, <2>3 DEF DeleteSession, StateType
<1>6. ASSUME InsertInsight PROVE db' \in DbType
    BY <1>6, DbTypes DEF InsertInsight, StateType
<1>7. ASSUME NEW s \in Sessions, RemoveFile(s) PROVE disk' \in [Sessions -> Sources]
    BY <1>7 DEF RemoveFile, StateType, Sources
<1>8. /\ disk' \in [Sessions -> Sources] /\ db' \in DbType
      /\ deleted' \subseteq Sessions
    BY <1>4, <1>5, <1>6, <1>7 DEF UserStep, StateType, SoftDeleteSession,
       RestoreSession, DeleteSession, StarSession, ImportSession, RemoveFile,
       InsertInsight, EditsOnlyDb
<1> QED
    BY <1>1, <1>8, ResyncAssumption DEF StateType

LEMMA FaultType ==
    ASSUME StateType, Fault \/ UNCHANGED faults PROVE faults' \in 0 .. MaxFaults
BY ResyncAssumption DEF StateType, Fault

\* The fields of SyncStats that a step updates.
LEMMA StatsTypes ==
    ASSUME NEW x \in StatsType
    PROVE  /\ NoStats \in StatsType
           /\ x.todo \in SUBSET Sessions /\ x.saved \in SUBSET Sessions
           /\ x.parserExcluded \in SUBSET Sessions
           /\ x.unwritten \in SUBSET Sessions
           /\ \A what \in Lapses :
                 [x EXCEPT !.lapses = x.lapses \cup {what}] \in StatsType
           /\ [x EXCEPT !.aborted = TRUE] \in StatsType
           /\ \A n \in Nat : [x EXCEPT !.trashed = n] \in StatsType
           /\ \A n \in Nat, S \in SUBSET Sessions :
                 /\ [x EXCEPT !.total = n, !.todo = S] \in StatsType
                 /\ [NoStats EXCEPT !.oldFiles = n, !.saved = S] \in StatsType
<1>1. NoStats \in StatsType
    BY DEF NoStats, StatsType
<1>2. ASSUME NEW what \in Lapses
      PROVE  [x EXCEPT !.lapses = x.lapses \cup {what}] \in StatsType
    BY DEF StatsType
<1> QED
    BY <1>1, <1>2 DEF StatsType

\* ParseFile and WriteFails, the steps of one file.
LEMMA FileTypes ==
    ASSUME StateType, NEW s \in Sessions, ParseFile(s) \/ WriteFails(s)
    PROVE  StateType'
<1> DEFINE x == stats
<1>1. /\ x \in StatsType /\ temp \in DbType /\ skip \subseteq Sessions
      /\ temp.rows \in [Sessions -> RowType]
    BY DbTypes DEF StateType
<1>2. /\ x.todo \ {s} \in SUBSET Sessions
      /\ x.unwritten \cup {s} \in SUBSET Sessions
      /\ x.parserExcluded \cup {s} \in SUBSET Sessions
      /\ x.filesOK + 1 \in Nat /\ x.failed + 1 \in Nat
      /\ x.synced + 1 \in Nat /\ x.filteredFiles + 1 \in Nat
    BY <1>1 DEF StatsType
<1>3. /\ disk' = disk /\ db' = db /\ open' = open /\ pc' = pc
      /\ deleted' = deleted /\ lapsed' = lapsed /\ broken' = broken
      /\ edits' = edits
    BY DEF ParseFile, WriteFails
<1>4. faults' \in 0 .. MaxFaults
    BY FaultType DEF ParseFile, WriteFails
<1>5. skip' \subseteq Sessions
    BY <1>1 DEF ParseFile, WriteFails, WriteSessionBatch, FileFails, FileFiltered
<1>6. temp' \in DbType
    <2>1. \A r \in RowType : [temp.rows EXCEPT ![s] = r] \in [Sessions -> RowType]
        BY <1>1
    <2>2. PICK r \in RowType : \/ temp' = temp
                              \/ temp' = [temp EXCEPT !.rows[s] = r]
        BY RowTypes, Zenon DEF ParseFile, WriteFails, WriteSessionBatch,
           FileFails, FileFiltered
    <2> QED
        BY <1>1, <2>1, <2>2, DbTypes
<1>7. stats' \in StatsType
    <2>1. \/ stats' = [x EXCEPT !.todo = x.todo \ {s}]
          \/ stats' = [x EXCEPT !.todo = x.todo \ {s}, !.failed = x.failed + 1]
          \/ stats' = [x EXCEPT !.todo = x.todo \ {s}, !.filesOK = x.filesOK + 1,
                                !.unwritten = x.unwritten \cup {s}]
          \/ stats' = [x EXCEPT !.todo = x.todo \ {s}, !.filesOK = x.filesOK + 1,
                                !.synced = x.synced + 1]
          \/ stats' = [x EXCEPT !.todo = x.todo \ {s}, !.filesOK = x.filesOK + 1,
                                !.filteredFiles = x.filteredFiles + 1,
                                !.parserExcluded = x.parserExcluded \cup {s}]
          \/ stats' = [x EXCEPT !.todo = x.todo \ {s}, !.filesOK = x.filesOK + 1,
                                !.failed = x.failed + 1,
                                !.unwritten = x.unwritten \cup {s}]
        BY Zenon DEF ParseFile, WriteFails, WriteSessionBatch, FileFails, FileFiltered
    <2> HIDE DEF x
    <2> QED
        BY <1>1, <1>2, <2>1 DEF StatsType
<1> QED
    BY <1>1, <1>3, <1>4, <1>5, <1>6, <1>7 DEF StateType

\* The steps that work on the temporary database.
TempSteps ==
    \/ OpenTemp
    \/ CopyExcludedSessionsFrom("excl", "trash")
    \/ CopyTrashedDataFrom \/ Discover \/ EndSync
    \/ CopyExcludedSessionsFrom("reexcl", "purge")
    \/ PurgeExcludedSessions \/ CopyInsightsFrom \/ CopyOrphanedDataFrom
    \/ CopySessionMetadataFrom \/ RebuildFTS

LEMMA TempTypes == ASSUME StateType, TempSteps PROVE StateType' /\ NoTemp'
<1> USE DEF TempStep
<1>1. /\ temp \in DbType /\ db \in DbType /\ stats \in StatsType
      /\ skip \in SUBSET Sessions
      /\ temp.rows \in [Sessions -> RowType] /\ db.rows \in [Sessions -> RowType]
      /\ temp.excl \in SUBSET Sessions /\ db.excl \in SUBSET Sessions
      /\ temp.insight \in BOOLEAN /\ db.insight \in BOOLEAN
    BY DEF StateType, DbType
<1>2. /\ UNCHANGED <<disk, db, open, skip, deleted, lapsed, broken, edits>>
      /\ Fault \/ UNCHANGED faults
      /\ pc' \in Pcs /\ pc' \notin {"idle", "opentemp", "reopen", "recover"}
    BY Zenon DEF TempSteps, OpenTemp, CopyExcludedSessionsFrom,
       CopyTrashedDataFrom, Discover, EndSync, PurgeExcludedSessions,
       CopyInsightsFrom, CopyOrphanedDataFrom, CopySessionMetadataFrom,
       RebuildFTS, Pcs
<1>3. Trashed(db) \ temp.excl \in SUBSET Sessions /\ Files \in SUBSET Sessions
    BY DEF Trashed, Ids, Files
<1>4. stats' \in StatsType
    <2>1. \/ stats' = stats
          \/ \E what \in Lapses :
                stats' = [stats EXCEPT !.lapses = stats.lapses \cup {what}]
          \/ stats' = [stats EXCEPT !.aborted = TRUE]
          \/ stats' = [stats EXCEPT !.trashed = Cardinality(Trashed(db) \ temp.excl)]
          \/ stats' = [stats EXCEPT !.total = Cardinality(Files), !.todo = Files]
        BY Zenon DEF TempSteps, OpenTemp, CopyExcludedSessionsFrom,
           CopyTrashedDataFrom, Discover, EndSync, PurgeExcludedSessions,
           CopyInsightsFrom, CopyOrphanedDataFrom, CopySessionMetadataFrom,
           RebuildFTS, Lapse, Lapses
    <2>2. Cardinality(Trashed(db) \ temp.excl) \in Nat /\ Cardinality(Files) \in Nat
        BY <1>3, SomeSessions
    <2>3. \A what \in Lapses :
             [stats EXCEPT !.lapses = stats.lapses \cup {what}] \in StatsType
        BY <1>1, StatsTypes
    <2>4. [stats EXCEPT !.aborted = TRUE] \in StatsType
        BY <1>1, StatsTypes
    <2>5. [stats EXCEPT !.trashed = Cardinality(Trashed(db) \ temp.excl)] \in StatsType
        BY <1>1, <2>2, StatsTypes
    <2>6. [stats EXCEPT !.total = Cardinality(Files), !.todo = Files] \in StatsType
        BY <1>1, <1>3, <2>2, StatsTypes
    <2> QED
        BY <1>1, <2>1, <2>3, <2>4, <2>5, <2>6, Zenon
<1> DEFINE purged == [s \in Sessions |-> IF s \in temp.excl THEN NoRow ELSE temp.rows[s]]
           merged == [s \in Sessions |->
                         IF s \in Ids(temp) \cap Ids(db)
                         THEN [temp.rows[s] EXCEPT
                                  !.st = db.rows[s].st,
                                  !.star = temp.rows[s].star \/ db.rows[s].star]
                         ELSE temp.rows[s]]
<1>5. purged \in [Sessions -> RowType] /\ merged \in [Sessions -> RowType]
    <2>1. ASSUME NEW s \in Sessions
          PROVE  /\ temp.rows[s] \in RowType
                 /\ db.rows[s].st \in {"none", "live", "trashed"}
                 /\ (temp.rows[s].star \/ db.rows[s].star) \in BOOLEAN
        BY <1>1 DEF RowType
    <2>2. ASSUME NEW s \in Sessions
          PROVE  [temp.rows[s] EXCEPT !.st = db.rows[s].st,
                     !.star = temp.rows[s].star \/ db.rows[s].star] \in RowType
        BY <2>1 DEF RowType
    <2> QED
        BY <2>1, <2>2, RowTypes
<1>6. \/ temp' = temp \/ temp' = EmptyDb
      \/ temp' = [temp EXCEPT !.excl = temp.excl \cup db.excl]
      \/ temp' = copySessionDataForIDs(temp, db, Trashed(db) \ temp.excl)
      \/ temp' = [temp EXCEPT !.skipped = skip]
      \/ temp' = [temp EXCEPT !.rows = purged]
      \/ temp' = [temp EXCEPT !.insight = temp.insight \/ db.insight]
      \/ \E S : temp' = ReconcileRevisions(copySessionDataForIDs(temp, db, S), db)
      \/ temp' = [temp EXCEPT !.rows = merged]
    <2>1. CASE OpenTemp \/ RebuildFTS \/ Discover \/ EndSync
        BY <2>1, Zenon DEF OpenTemp, RebuildFTS, Discover, EndSync
    <2>2. CASE CopyExcludedSessionsFrom("excl", "trash")
               \/ CopyExcludedSessionsFrom("reexcl", "purge")
        BY <2>2, Zenon DEF CopyExcludedSessionsFrom
    <2>3. CASE CopyTrashedDataFrom
        BY <2>3, Zenon DEF CopyTrashedDataFrom
    <2>4. CASE PurgeExcludedSessions
        BY <2>4, Zenon DEF PurgeExcludedSessions
    <2>5. CASE CopyInsightsFrom
        BY <2>5, Zenon DEF CopyInsightsFrom
    <2>6. CASE CopyOrphanedDataFrom
        BY <2>6, Zenon DEF CopyOrphanedDataFrom
    <2>7. CASE CopySessionMetadataFrom
        BY <2>7, Zenon DEF CopySessionMetadataFrom
    <2> QED
        BY <2>1, <2>2, <2>3, <2>4, <2>5, <2>6, <2>7 DEF TempSteps
<1>7. temp' \in DbType
    <2> HIDE DEF purged, merged
    <2>1. \A S : /\ copySessionDataForIDs(temp, db, S) \in DbType
                 /\ ReconcileRevisions(copySessionDataForIDs(temp, db, S), db) \in DbType
        BY <1>1, CopyType
    <2>2. /\ temp.excl \cup db.excl \in SUBSET Sessions
          /\ (temp.insight \/ db.insight) \in BOOLEAN
        BY <1>1
    <2>3. /\ [temp EXCEPT !.excl = temp.excl \cup db.excl] \in DbType
          /\ [temp EXCEPT !.skipped = skip] \in DbType
        BY <1>1, <2>2, DbTypes
    <2>4. /\ [temp EXCEPT !.rows = purged] \in DbType
          /\ [temp EXCEPT !.rows = merged] \in DbType
        BY <1>1, <1>5, DbTypes
    <2>5. [temp EXCEPT !.insight = temp.insight \/ db.insight] \in DbType
        BY <1>1, <2>2, DbTypes
    <2> QED
        BY <1>1, <1>6, <2>1, <2>3, <2>4, <2>5, FirstDbs, Zenon
<1> QED
    BY <1>2, <1>4, <1>7, FaultType DEF StateType, NoTemp

\* The other steps of ResyncAll, and its end.
LEMMA ControlTypes ==
    ASSUME StateType, NoTemp,
           \/ Begin \/ Decide \/ CloseConnections \/ Rename \/ Reopen \/ Recover
           \/ Failure \/ Restart
    PROVE  StateType' /\ NoTemp'
<1>1. /\ temp \in DbType /\ db \in DbType /\ stats \in StatsType
      /\ skip \in SUBSET Sessions /\ db.skipped \in SUBSET Sessions
    BY DEF StateType, DbType
<1>2. UNCHANGED <<disk, deleted, edits>> /\ (Fault \/ UNCHANGED faults)
    BY Zenon DEF Begin, Decide, CloseConnections, Rename, Reopen, Recover,
       Failure, Fails, Restart, AbortTo, TempStep
<1>3. pc' \in Pcs /\ NoTemp'
    BY DEF Begin, Decide, CloseConnections, Rename, Reopen, Recover,
       Failure, Fails, Restart, AbortTo, TempStep, Pcs, NoTemp
<1>4. temp' \in DbType /\ (db' = db \/ db' = temp \/ db' = [db EXCEPT !.skipped = skip])
    BY <1>1, FirstDbs, Zenon DEF Begin, Decide, CloseConnections, Rename,
       Reopen, Recover, Failure, Fails, Restart, AbortTo, TempStep
<1>5. stats' \in StatsType
    <2>1. \/ stats' = stats \/ stats' = NoStats
          \/ \E n \in Nat : stats' = [NoStats EXCEPT !.oldFiles = n, !.saved = skip]
        <3>1. CASE Begin
            <4>1. Cardinality(Live(db) \cap FileBacked) \in Nat
                BY SomeSessions DEF FileBacked
            <4> QED
                BY <3>1, <4>1 DEF Begin
        <3> QED
            BY <3>1, Zenon DEF Decide, CloseConnections, Rename, Reopen, Recover,
               Failure, Fails, Restart, AbortTo, TempStep
    <2> QED
        BY <1>1, <2>1, StatsTypes
<1>6. /\ skip' \subseteq Sessions /\ lapsed' \subseteq Lapses
      /\ open' \in BOOLEAN /\ broken' \in BOOLEAN
    <2>1. stats.saved \in SUBSET Sessions /\ stats.lapses \in SUBSET Lapses
        BY <1>1 DEF StatsType
    <2> QED
        BY <1>1, <2>1 DEF StateType, Begin, Decide, CloseConnections, Rename,
           Reopen, Recover, Failure, Fails, Restart, AbortTo, TempStep
<1>7. db' \in DbType
    BY <1>1, <1>4, DbTypes, Zenon
<1> QED
    BY <1>2, <1>3, <1>4, <1>5, <1>6, <1>7, FaultType DEF StateType

LEMMA TypeStep == StateType /\ NoTemp /\ [Next]_vars => StateType' /\ NoTemp'
<1> SUFFICES ASSUME StateType, NoTemp, [Next]_vars PROVE StateType' /\ NoTemp'
    OBVIOUS
<1>1. CASE UserStep
    BY <1>1, UserTypes DEF NoTemp, UserStep, SoftDeleteSession, RestoreSession,
       DeleteSession, StarSession, ImportSession, RemoveFile, InsertInsight,
       EditsOnlyDb
<1>2. ASSUME NEW s \in Sessions, ParseFile(s) \/ WriteFails(s)
      PROVE  StateType' /\ NoTemp'
    BY <1>2, FileTypes DEF NoTemp, ParseFile, WriteFails
<1>3. CASE UNCHANGED vars
    BY <1>3 DEF vars, StateType, NoTemp
<1> QED
    BY <1>1, <1>2, <1>3, TempTypes, ControlTypes
       DEF Next, ResyncStep, TempSteps

LEMMA TypeAlways == Spec => [](StateType /\ NoTemp)
BY TypeInit, TypeStep, PTL DEF Spec

\* TypeOK of every reachable state: whatever fails and whenever the process
\* dies, the values are those of the code's types, and no temporary database
\* is left but while a rebuild fills it.
THEOREM TypeCorrect == Spec => []TypeOK
BY TypeAlways, PTL DEF StateType, NoTemp, TypeOK

-----------------------------------------------------------------------------
(* The inductive invariant: what each database and the local variables of     *)
(* ResyncAll hold at each of its steps.                                       *)

Building == Pcs \ {"idle", "reopen", "recover"}

\* The steps after the decision to swap; the connections are closed.
Swapping == {"reexcl", "purge", "insights", "orphans", "metadata", "fts", "rename"}

ConnInv == pc \in Swapping \cup {"reopen", "recover"} => ~open

\* No deleted session is in the archive, nor, once the deletions are copied a
\* second time and purged, in the database that replaces it.
DeletionInv ==
    /\ temp.excl \subseteq db.excl
    /\ "deletions" \notin lapsed =>
          /\ \A s \in deleted : s \notin Ids(db) /\ s \in db.excl
          /\ "deletions" \notin stats.lapses =>
                /\ pc \in Swapping \ {"reexcl"} => deleted \subseteq temp.excl
                /\ pc \in Swapping \ {"reexcl", "purge"} =>
                      \A s \in deleted : s \notin Ids(temp)

\* The skip cache in memory is what the database stores, or what the temporary
\* one stores, with the former set aside.
SkipInv ==
    /\ "skips" \notin lapsed =>
          /\ pc \in Pcs \ Building => skip = db.skipped
          /\ pc \in Building => stats.saved = db.skipped
    /\ pc \in {"decide", "close"} \cup Swapping
          /\ ~stats.aborted /\ "skips" \notin stats.lapses => temp.skipped = skip
    /\ pc \in {"close"} \cup Swapping => ~stats.aborted

\* What the temporary database has of the old one, step by step.
CopyInv ==
    /\ temp.insight => db.insight
    /\ pc \in {"orphans", "metadata", "fts", "rename"} => temp.insight = db.insight
    /\ pc \notin {"fts", "rename"} => \A s \in Sessions : ~temp.rows[s].star
    /\ pc \in {"metadata", "fts", "rename"} =>
          /\ Ids(db) \ (temp.excl \cup stats.parserExcluded) \subseteq Ids(temp)
          /\ \A s \in Ids(db) \cap Ids(temp) :
                (temp.rows[s].rev # db.rows[s].rev)
                   <=> (temp.rows[s].text # db.rows[s].text)
    /\ pc \in {"fts", "rename"} /\ "metadata" \notin stats.lapses =>
          \A s \in Ids(db) \cap Ids(temp) :
             /\ temp.rows[s].st = db.rows[s].st
             /\ temp.rows[s].star = db.rows[s].star

\* A file that can be parsed waits for it, could not be written, is in the
\* temporary database as the current parser reads it, or is excluded and out
\* of it.
Rebuilt(s) ==
    \/ s \in stats.todo \/ s \in stats.unwritten
    \/ s \in Ids(temp) /\ temp.rows[s].text = "new"
    \/ s \in temp.excl /\ s \notin Ids(temp)

FreshInv ==
    /\ pc \in {"opentemp", "excl", "trash", "discover"} => skip = {}
    /\ pc = "parse" => skip \cap stats.todo = {}
    /\ pc \in {"parse", "decide", "close"} \cup Swapping =>
          \A s \in Sessions : disk[s] = "ok" => Rebuilt(s)
    /\ pc = "decide" => stats.todo = {} \/ stats.aborted
    /\ pc \in {"close"} \cup Swapping => stats.todo = {}

\* What the operations of users may do, at any moment: nothing to a rebuild,
\* and to the database nothing once its connections are closed.
LEMMA UserEffect ==
    ASSUME StateType, UserStep
    PROVE  /\ UNCHANGED <<temp, open, pc, stats, skip, lapsed>>
           /\ \A s \in Sessions : disk'[s] = "ok" => disk[s] = "ok"
           /\ open \/ UNCHANGED <<db, deleted>>
           /\ db'.skipped = db.skipped /\ db.excl \subseteq db'.excl
           /\ db.insight => db'.insight
           /\ (\A s \in deleted : s \notin Ids(db) /\ s \in db.excl)
                 => \A s \in deleted' : s \notin Ids(db') /\ s \in db'.excl
<1>1. UNCHANGED <<temp, open, pc, stats, skip, lapsed>>
    BY DEF UserStep, SoftDeleteSession, RestoreSession, DeleteSession,
       StarSession, ImportSession, RemoveFile, InsertInsight, EditsOnlyDb
<1>2. db \in DbType /\ db.rows \in [Sessions -> RowType]
    BY DbTypes DEF StateType
<1> DEFINE Row(s, r) == [db EXCEPT !.rows[s] = r]
<1>3. ASSUME NEW s \in Sessions, NEW r
      PROVE  /\ Row(s, r).excl = db.excl /\ Row(s, r).skipped = db.skipped
             /\ Row(s, r).insight = db.insight
             /\ Row(s, r).rows[s] = r
             /\ \A t \in Sessions : t # s => Row(s, r).rows[t] = db.rows[t]
    BY <1>2 DEF DbType
<1>4. ASSUME NEW s \in Sessions, SoftDeleteSession(s) \/ RestoreSession(s)
                                 \/ StarSession(s) \/ ImportSession(s)
      PROVE  /\ open /\ disk' = disk /\ deleted' = deleted
             /\ (\E r : db' = Row(s, r))
             /\ s \in Ids(db) \/ s \notin db.excl
    BY <1>4, Zenon DEF SoftDeleteSession, RestoreSession, StarSession,
       ImportSession, Edit, EditsOnlyDb, Ids
<1>5. ASSUME NEW s \in Sessions, DeleteSession(s)
      PROVE  /\ open /\ disk' = disk /\ deleted' = deleted \cup {s}
             /\ db' = [Row(s, NoRow) EXCEPT !.excl = db.excl \cup {s}]
    BY <1>5, Zenon DEF DeleteSession, Edit, EditsOnlyDb
<1>6. ASSUME NEW s \in Sessions, RemoveFile(s)
      PROVE  /\ UNCHANGED <<db, deleted>>
             /\ \A t \in Sessions : disk'[t] = "ok" => disk[t] = "ok"
    BY <1>6 DEF RemoveFile, StateType
<1>7. ASSUME InsertInsight
      PROVE  /\ open /\ UNCHANGED <<disk, deleted>>
             /\ db'.rows = db.rows /\ db'.excl = db.excl /\ db'.skipped = db.skipped
             /\ db'.insight
    BY <1>2, <1>7 DEF InsertInsight, Edit, EditsOnlyDb, DbType
<1> HIDE DEF Row
<1> DEFINE Gone(d, D) == \A s \in D : s \notin Ids(d) /\ s \in d.excl
<1>8. ASSUME NEW s \in Sessions, SoftDeleteSession(s) \/ RestoreSession(s)
                                 \/ StarSession(s) \/ ImportSession(s)
      PROVE  /\ db'.skipped = db.skipped /\ db.excl \subseteq db'.excl
             /\ db.insight => db'.insight
             /\ Gone(db, deleted) => Gone(db', deleted')
    BY <1>3, <1>4, <1>8 DEF Ids
<1>9. ASSUME NEW s \in Sessions, DeleteSession(s)
      PROVE  /\ db'.skipped = db.skipped /\ db.excl \subseteq db'.excl
             /\ db.insight => db'.insight
             /\ Gone(db, deleted) => Gone(db', deleted')
    <2>1. /\ db'.rows = Row(s, NoRow).rows /\ db'.excl = db.excl \cup {s}
          /\ db'.skipped = Row(s, NoRow).skipped
          /\ db'.insight = Row(s, NoRow).insight
        <3>1. Row(s, NoRow) \in DbType
            BY <1>2, RowTypes DEF Row, DbType
        <3> QED
            BY <1>5, <1>9, <3>1 DEF DbType
    <2> QED
        BY <1>3, <1>5, <1>9, <2>1 DEF Ids, NoRow
<1>10. /\ db'.skipped = db.skipped /\ db.excl \subseteq db'.excl
       /\ db.insight => db'.insight
       /\ Gone(db, deleted) => Gone(db', deleted')
    BY <1>6, <1>7, <1>8, <1>9 DEF UserStep, Ids
<1>11. /\ open \/ UNCHANGED <<db, deleted>>
       /\ \A s \in Sessions : disk'[s] = "ok" => disk[s] = "ok"
    BY <1>4, <1>5, <1>6, <1>7 DEF UserStep
<1> QED
    BY <1>1, <1>10, <1>11

LEMMA ConnStep ==
    StateType /\ ConnInv /\ [Next]_vars => ConnInv'
<1> SUFFICES ASSUME StateType, ConnInv, [Next]_vars PROVE ConnInv'
    OBVIOUS
<1> USE DEF ConnInv, Swapping
<1>1. CASE UserStep
    BY <1>1, UserEffect
<1>2. CASE \/ Begin \/ Decide \/ CloseConnections \/ Rename \/ Reopen \/ Recover
           \/ Failure \/ Restart
    BY <1>2 DEF Begin, Decide, CloseConnections, Rename, Reopen, Recover,
       Failure, Fails, Restart, AbortTo, TempStep
<1>3. CASE TempSteps
    BY <1>3 DEF TempSteps, TempStep, OpenTemp, CopyExcludedSessionsFrom,
       CopyTrashedDataFrom, Discover, EndSync, PurgeExcludedSessions,
       CopyInsightsFrom, CopyOrphanedDataFrom, CopySessionMetadataFrom, RebuildFTS
<1>4. ASSUME NEW s \in Sessions, ParseFile(s) \/ WriteFails(s) PROVE ConnInv'
    BY <1>4 DEF ParseFile, WriteFails
<1>5. CASE UNCHANGED vars
    BY <1>5 DEF vars
<1> QED
    BY <1>1, <1>2, <1>3, <1>4, <1>5 DEF Next, ResyncStep, TempSteps

-----------------------------------------------------------------------------
(* What the copies leave in the temporary database, field by field.           *)

SameTables(d, e) == d.excl = e.excl /\ d.skipped = e.skipped /\ d.insight = e.insight

LEMMA CopyEffect ==
    ASSUME NEW d \in DbType, NEW o \in DbType, NEW S
    PROVE  LET c == copySessionDataForIDs(d, o, S) IN
           /\ c \in DbType /\ SameTables(c, d)
           /\ \A s \in Sessions :
                 /\ s \in S => /\ c.rows[s].st = o.rows[s].st
                              /\ c.rows[s].text = o.rows[s].text
                              /\ ~c.rows[s].star
                 /\ s \notin S => c.rows[s] = d.rows[s]
<1> DEFINE r == [s \in Sessions |-> IF s \in S THEN [o.rows[s] EXCEPT !.star = FALSE]
                                   ELSE d.rows[s]]
           c == copySessionDataForIDs(d, o, S)
<1>1. c = [d EXCEPT !.rows = r]
    BY DEF copySessionDataForIDs
<1>2. c.rows = r /\ SameTables(c, d)
    BY <1>1 DEF DbType, SameTables
<1>3. ASSUME NEW s \in Sessions
      PROVE  /\ [o.rows[s] EXCEPT !.star = FALSE].st = o.rows[s].st
             /\ [o.rows[s] EXCEPT !.star = FALSE].text = o.rows[s].text
             /\ [o.rows[s] EXCEPT !.star = FALSE].star = FALSE
    BY DEF DbType, RowType
<1>4. \A s \in Sessions : r[s] = IF s \in S THEN [o.rows[s] EXCEPT !.star = FALSE]
                                 ELSE d.rows[s]
    OBVIOUS
<1>5. c \in DbType
    BY CopyType
<1> HIDE DEF c, r
<1>6. \A s \in Sessions :
         /\ s \in S => /\ c.rows[s].st = o.rows[s].st
                      /\ c.rows[s].text = o.rows[s].text
                      /\ ~c.rows[s].star
         /\ s \notin S => c.rows[s] = d.rows[s]
    BY <1>2, <1>3, <1>4
<1> QED
    BY <1>2, <1>5, <1>6 DEF c

LEMMA ReconcileEffect ==
    ASSUME NEW d \in DbType, NEW o \in DbType
    PROVE  LET c == ReconcileRevisions(d, o) IN
           /\ c \in DbType /\ SameTables(c, d)
           /\ \A s \in Sessions :
                 /\ c.rows[s].st = d.rows[s].st /\ c.rows[s].text = d.rows[s].text
                 /\ c.rows[s].star = d.rows[s].star
           /\ \A s \in Ids(d) \cap Ids(o) :
                 (c.rows[s].rev # o.rows[s].rev) <=> (c.rows[s].text # o.rows[s].text)
<1> DEFINE v(s) == IF d.rows[s].text # o.rows[s].text
                   THEN o.rows[s].rev + 1 ELSE o.rows[s].rev
           r == [s \in Sessions |-> IF s \in Ids(d) \cap Ids(o)
                                   THEN [d.rows[s] EXCEPT !.rev = v(s)]
                                   ELSE d.rows[s]]
           c == ReconcileRevisions(d, o)
<1>1. c = [d EXCEPT !.rows = r]
    BY DEF ReconcileRevisions
<1>2. c.rows = r /\ SameTables(c, d)
    BY <1>1 DEF DbType, SameTables
<1>3. ASSUME NEW s \in Sessions
      PROVE  /\ o.rows[s].rev \in Nat
             /\ (v(s) # o.rows[s].rev) <=> (d.rows[s].text # o.rows[s].text)
    BY DEF DbType, RowType
<1>4. ASSUME NEW s \in Sessions, NEW n
      PROVE  /\ [d.rows[s] EXCEPT !.rev = n].st = d.rows[s].st
             /\ [d.rows[s] EXCEPT !.rev = n].text = d.rows[s].text
             /\ [d.rows[s] EXCEPT !.rev = n].star = d.rows[s].star
             /\ [d.rows[s] EXCEPT !.rev = n].rev = n
    BY DEF DbType, RowType
<1>5. \A s \in Sessions : r[s] = IF s \in Ids(d) \cap Ids(o)
                                 THEN [d.rows[s] EXCEPT !.rev = v(s)]
                                 ELSE d.rows[s]
    OBVIOUS
<1>6. c \in DbType
    BY CopyType
<1> HIDE DEF c, r, v
<1>7. ASSUME NEW s \in Sessions
      PROVE  /\ c.rows[s].st = d.rows[s].st /\ c.rows[s].text = d.rows[s].text
             /\ c.rows[s].star = d.rows[s].star
             /\ s \in Ids(d) \cap Ids(o) => c.rows[s].rev = v(s)
    <2>1. CASE s \in Ids(d) \cap Ids(o)
        <3>1. c.rows[s] = [d.rows[s] EXCEPT !.rev = v(s)]
            BY <1>2, <1>5, <2>1
        <3> QED
            BY <1>4, <3>1
    <2>2. CASE s \notin Ids(d) \cap Ids(o)
        BY <1>2, <1>5, <2>2
    <2> QED
        BY <2>1, <2>2
<1>8. \A s \in Ids(d) \cap Ids(o) :
         (c.rows[s].rev # o.rows[s].rev) <=> (c.rows[s].text # o.rows[s].text)
    BY <1>3, <1>7 DEF Ids
<1> QED
    BY <1>2, <1>6, <1>7, <1>8 DEF c

\* The orphans of the old database join the temporary one.
Orphans == Ids(db) \ (Ids(temp) \cup temp.excl \cup stats.parserExcluded)

LEMMA OrphanEffect ==
    ASSUME StateType, CopyOrphanedDataFrom
    PROVE  /\ SameTables(temp', temp)
           /\ \A s \in Sessions :
                 /\ s \in Orphans => /\ temp'.rows[s].st = db.rows[s].st
                                     /\ ~temp'.rows[s].star
                 /\ s \notin Orphans => /\ temp'.rows[s].st = temp.rows[s].st
                                        /\ temp'.rows[s].text = temp.rows[s].text
                                        /\ temp'.rows[s].star = temp.rows[s].star
           /\ \A s \in Ids(db) \cap Ids(temp') :
                 (temp'.rows[s].rev # db.rows[s].rev)
                    <=> (temp'.rows[s].text # db.rows[s].text)
<1> DEFINE c == copySessionDataForIDs(temp, db, Orphans)
<1>1. temp' = ReconcileRevisions(c, db)
    BY Zenon DEF CopyOrphanedDataFrom, Orphans
<1>2. temp \in DbType /\ db \in DbType
    BY DEF StateType
<1>3. /\ c \in DbType /\ SameTables(c, temp)
      /\ \A s \in Sessions :
            /\ s \in Orphans => /\ c.rows[s].st = db.rows[s].st
                                /\ c.rows[s].text = db.rows[s].text
                                /\ ~c.rows[s].star
            /\ s \notin Orphans => c.rows[s] = temp.rows[s]
    BY <1>2, CopyEffect
<1> HIDE DEF c
<1>4. /\ SameTables(temp', c)
      /\ \A s \in Sessions : /\ temp'.rows[s].st = c.rows[s].st
                              /\ temp'.rows[s].text = c.rows[s].text
                              /\ temp'.rows[s].star = c.rows[s].star
      /\ \A s \in Ids(c) \cap Ids(db) :
            (temp'.rows[s].rev # db.rows[s].rev)
               <=> (temp'.rows[s].text # db.rows[s].text)
    BY <1>1, <1>2, <1>3, ReconcileEffect
<1>5. Ids(temp') = Ids(c)
    BY <1>4 DEF Ids
<1> QED
    BY <1>3, <1>4, <1>5 DEF SameTables

LEMMA MetadataEffect ==
    ASSUME StateType, CopySessionMetadataFrom
    PROVE  /\ SameTables(temp', temp)
           /\ \/ UNCHANGED temp /\ "metadata" \in stats'.lapses
              \/ \A s \in Ids(temp) \cap Ids(db) :
                    /\ temp'.rows[s].st = db.rows[s].st
                    /\ temp'.rows[s].star = (temp.rows[s].star \/ db.rows[s].star)
           /\ Ids(temp') = Ids(temp)
           /\ \A s \in Sessions : /\ temp'.rows[s].text = temp.rows[s].text
                                   /\ temp'.rows[s].rev = temp.rows[s].rev
<1> DEFINE m(s) == [temp.rows[s] EXCEPT
                        !.st = db.rows[s].st,
                        !.star = temp.rows[s].star \/ db.rows[s].star]
           r == [s \in Sessions |-> IF s \in Ids(temp) \cap Ids(db) THEN m(s)
                                   ELSE temp.rows[s]]
<1>1. \/ temp' = [temp EXCEPT !.rows = r]
      \/ UNCHANGED temp /\ stats' = Lapse("metadata")
    BY Zenon DEF CopySessionMetadataFrom
<1>2. temp \in DbType /\ db \in DbType /\ stats \in StatsType
    BY DEF StateType
<1>3. ASSUME UNCHANGED temp, stats' = Lapse("metadata")
      PROVE  "metadata" \in stats'.lapses
    BY <1>2, <1>3 DEF Lapse, StatsType
<1>4. ASSUME NEW s \in Sessions
      PROVE  /\ m(s).st = db.rows[s].st
             /\ m(s).star = (temp.rows[s].star \/ db.rows[s].star)
             /\ m(s).text = temp.rows[s].text /\ m(s).rev = temp.rows[s].rev
    BY <1>2 DEF DbType, RowType
<1>5. CASE temp' = [temp EXCEPT !.rows = r]
    <2>1. temp'.rows = r /\ SameTables(temp', temp)
        BY <1>2, <1>5 DEF DbType, SameTables
    <2> HIDE DEF m
    <2>2. ASSUME NEW s \in Sessions
          PROVE  temp'.rows[s] = IF s \in Ids(temp) \cap Ids(db) THEN m(s)
                                 ELSE temp.rows[s]
        BY <2>1
    <2> HIDE DEF r
    <2>3. ASSUME NEW s \in Sessions
          PROVE  /\ s \in Ids(temp) \cap Ids(db) =>
                       /\ temp'.rows[s].st = db.rows[s].st
                       /\ temp'.rows[s].star = (temp.rows[s].star \/ db.rows[s].star)
                 /\ s \in Ids(temp') <=> s \in Ids(temp)
                 /\ temp'.rows[s].text = temp.rows[s].text
                 /\ temp'.rows[s].rev = temp.rows[s].rev
        <3>1. CASE s \in Ids(temp) \cap Ids(db)
            BY <1>4, <2>2, <3>1 DEF Ids
        <3>2. CASE s \notin Ids(temp) \cap Ids(db)
            BY <2>2, <3>2 DEF Ids
        <3> QED
            BY <3>1, <3>2
    <2>4. Ids(temp') = Ids(temp)
        BY <2>3 DEF Ids
    <2> QED
        BY <2>1, <2>3, <2>4 DEF Ids
<1> QED
    BY <1>1, <1>3, <1>5 DEF SameTables

LEMMA PurgeEffect ==
    ASSUME StateType, PurgeExcludedSessions
    PROVE  /\ SameTables(temp', temp)
           /\ \/ UNCHANGED temp /\ "deletions" \in stats'.lapses
              \/ \A s \in temp.excl : s \notin Ids(temp')
           /\ \A s \in Sessions : \/ temp'.rows[s] = temp.rows[s]
                                  \/ s \in temp.excl /\ temp'.rows[s] = NoRow
<1> DEFINE r == [s \in Sessions |-> IF s \in temp.excl THEN NoRow ELSE temp.rows[s]]
<1>1. \/ temp' = [temp EXCEPT !.rows = r]
      \/ UNCHANGED temp /\ stats' = Lapse("deletions")
    BY Zenon DEF PurgeExcludedSessions
<1>2. temp \in DbType /\ stats \in StatsType
    BY DEF StateType
<1>3. ASSUME UNCHANGED temp, stats' = Lapse("deletions")
      PROVE  "deletions" \in stats'.lapses
    BY <1>2, <1>3 DEF Lapse, StatsType
<1>4. CASE temp' = [temp EXCEPT !.rows = r]
    <2>1. temp'.rows = r /\ SameTables(temp', temp)
        BY <1>2, <1>4 DEF DbType, SameTables
    <2> QED
        BY <1>2, <2>1 DEF Ids, NoRow
<1> QED
    BY <1>1, <1>3, <1>4 DEF SameTables

LEMMA InsightEffect ==
    ASSUME StateType, CopyInsightsFrom
    PROVE  /\ temp'.rows = temp.rows /\ temp'.excl = temp.excl
           /\ temp'.skipped = temp.skipped
           /\ temp'.insight = (temp.insight \/ db.insight)
BY DEF StateType, CopyInsightsFrom, DbType

LEMMA ExclusionEffect ==
    ASSUME StateType, NEW from, NEW to, CopyExcludedSessionsFrom(from, to)
    PROVE  /\ temp'.rows = temp.rows /\ temp'.skipped = temp.skipped
           /\ temp'.insight = temp.insight
           /\ \/ temp'.excl = temp.excl \cup db.excl
              \/ temp'.excl = temp.excl
                 /\ (from = "reexcl" => "deletions" \in stats'.lapses)
<1>1. stats.lapses \in SUBSET Lapses
    BY DEF StateType, StatsType
<1>2. CASE temp' = [temp EXCEPT !.excl = temp.excl \cup db.excl]
    BY <1>2 DEF StateType, DbType
<1>3. CASE /\ UNCHANGED temp
           /\ stats' = IF from = "reexcl" THEN Lapse("deletions") ELSE stats
    BY <1>1, <1>3 DEF Lapse, StateType, StatsType
<1> QED
    BY <1>2, <1>3, Zenon DEF CopyExcludedSessionsFrom

\* The trash is copied before anything is parsed.
LEMMA TrashEffect ==
    ASSUME StateType, CopyTrashedDataFrom
    PROVE  /\ SameTables(temp', temp)
           /\ \A s \in Sessions : temp.rows[s].star \/ ~temp'.rows[s].star
<1>1. temp \in DbType /\ db \in DbType
    BY DEF StateType
<1> DEFINE S == Trashed(db) \ temp.excl
<1>2. temp' = copySessionDataForIDs(temp, db, S)
    BY Zenon DEF CopyTrashedDataFrom
<1> HIDE DEF S
<1> QED
    BY <1>1, <1>2, CopyEffect DEF DbType, RowType

\* What these steps leave of the statistics.
LEMMA StatsEffect ==
    ASSUME StateType, TempSteps
    PROVE  /\ stats.lapses \subseteq stats'.lapses
           /\ stats'.saved = stats.saved
           /\ stats'.parserExcluded = stats.parserExcluded
           /\ stats'.unwritten = stats.unwritten
           /\ Discover \/ stats'.todo = stats.todo
           /\ EndSync \/ stats'.aborted = stats.aborted
           /\ stats'.aborted = stats.aborted \/ stats'.aborted = TRUE
<1>1. \/ stats' = stats
      \/ \E what : stats' = [stats EXCEPT !.lapses = stats.lapses \cup {what}]
      \/ stats' = [stats EXCEPT !.aborted = TRUE] /\ EndSync
      \/ \E n : stats' = [stats EXCEPT !.trashed = n]
      \/ Discover /\ \E n : stats' = [stats EXCEPT !.total = n, !.todo = Files]
    BY Zenon DEF TempSteps, OpenTemp, CopyExcludedSessionsFrom,
       CopyTrashedDataFrom, Discover, EndSync, PurgeExcludedSessions,
       CopyInsightsFrom, CopyOrphanedDataFrom, CopySessionMetadataFrom,
       RebuildFTS, Lapse
<1>2. stats \in StatsType
    BY DEF StateType
<1> HIDE DEF TempSteps, Discover, EndSync
<1>3. ASSUME stats' = stats
      PROVE  /\ stats.lapses \subseteq stats'.lapses
             /\ stats'.saved = stats.saved /\ stats'.todo = stats.todo
             /\ stats'.parserExcluded = stats.parserExcluded
             /\ stats'.unwritten = stats.unwritten /\ stats'.aborted = stats.aborted
    BY <1>3
<1>4. ASSUME NEW what, stats' = [stats EXCEPT !.lapses = stats.lapses \cup {what}]
      PROVE  /\ stats.lapses \subseteq stats'.lapses
             /\ stats'.saved = stats.saved /\ stats'.todo = stats.todo
             /\ stats'.parserExcluded = stats.parserExcluded
             /\ stats'.unwritten = stats.unwritten /\ stats'.aborted = stats.aborted
    BY <1>2, <1>4 DEF StatsType
<1>5. ASSUME stats' = [stats EXCEPT !.aborted = TRUE]
      PROVE  /\ stats.lapses = stats'.lapses
             /\ stats'.saved = stats.saved /\ stats'.todo = stats.todo
             /\ stats'.parserExcluded = stats.parserExcluded
             /\ stats'.unwritten = stats.unwritten /\ stats'.aborted = TRUE
    BY <1>2, <1>5 DEF StatsType
<1>6. ASSUME NEW n, stats' = [stats EXCEPT !.trashed = n]
      PROVE  /\ stats.lapses = stats'.lapses
             /\ stats'.saved = stats.saved /\ stats'.todo = stats.todo
             /\ stats'.parserExcluded = stats.parserExcluded
             /\ stats'.unwritten = stats.unwritten /\ stats'.aborted = stats.aborted
    BY <1>2, <1>6 DEF StatsType
<1>7. ASSUME NEW n, stats' = [stats EXCEPT !.total = n, !.todo = Files]
      PROVE  /\ stats.lapses = stats'.lapses /\ stats'.saved = stats.saved
             /\ stats'.parserExcluded = stats.parserExcluded
             /\ stats'.unwritten = stats.unwritten /\ stats'.aborted = stats.aborted
    BY <1>2, <1>7 DEF StatsType
<1> QED
    BY <1>1, <1>3, <1>4, <1>5, <1>6, <1>7, Zenon

LEMMA FileEffect ==
    ASSUME StateType, NEW s \in Sessions, ParseFile(s) \/ WriteFails(s)
    PROVE  /\ pc = "parse" /\ s \in stats.todo
           /\ UNCHANGED <<disk, db, open, pc, deleted, lapsed>>
           /\ SameTables(temp', temp)
           /\ \A t \in Sessions : t # s => temp'.rows[t] = temp.rows[t]
           /\ temp.rows[s].star \/ ~temp'.rows[s].star
           /\ stats'.lapses = stats.lapses /\ stats'.saved = stats.saved
           /\ stats'.aborted = stats.aborted
           /\ stats'.todo = stats.todo \ {s}
           /\ stats.unwritten \subseteq stats'.unwritten
           /\ skip' \subseteq skip \cup {s}
           /\ disk[s] = "ok" /\ s \notin skip =>
                 \/ s \in stats'.unwritten
                 \/ s \in Ids(temp') /\ temp'.rows[s].text = "new"
<1> DEFINE x == stats
           new == [st |-> "live", text |-> "new", rev |-> 1, star |-> FALSE]
           Done(e) == /\ e.lapses = x.lapses /\ e.saved = x.saved
                      /\ e.aborted = x.aborted /\ e.todo = x.todo \ {s}
                      /\ x.unwritten \subseteq e.unwritten
<1>1. /\ pc = "parse" /\ s \in stats.todo
      /\ UNCHANGED <<disk, db, open, pc, deleted, lapsed>>
      /\ skip' \subseteq skip \cup {s}
    BY DEF ParseFile, WriteFails, WriteSessionBatch, FileFails, FileFiltered
<1>2. \/ /\ disk[s] # "ok" \/ s \in skip
         /\ \/ temp' = temp \/ temp' = [temp EXCEPT !.rows[s] = NoRow]
         /\ \/ stats' = [x EXCEPT !.todo = x.todo \ {s}]
            \/ stats' = [x EXCEPT !.todo = x.todo \ {s}, !.failed = x.failed + 1]
            \/ stats' = [x EXCEPT !.todo = x.todo \ {s}, !.filesOK = x.filesOK + 1,
                                !.filteredFiles = x.filteredFiles + 1,
                                !.parserExcluded = x.parserExcluded \cup {s}]
      \/ /\ temp' = temp
         /\ \/ stats' = [x EXCEPT !.todo = x.todo \ {s}, !.filesOK = x.filesOK + 1,
                                !.unwritten = x.unwritten \cup {s}]
            \/ stats' = [x EXCEPT !.todo = x.todo \ {s}, !.filesOK = x.filesOK + 1,
                                !.failed = x.failed + 1,
                                !.unwritten = x.unwritten \cup {s}]
      \/ /\ temp' = [temp EXCEPT !.rows[s] = new]
         /\ stats' = [x EXCEPT !.todo = x.todo \ {s}, !.filesOK = x.filesOK + 1,
                                !.synced = x.synced + 1]
    <2>1. CASE ParseFile(s) /\ s \notin skip /\ disk[s] = "ok"
        BY <2>1, Zenon DEF ParseFile, WriteSessionBatch
    <2>2. CASE ParseFile(s) /\ s \in skip
        BY <2>2, Zenon DEF ParseFile
    <2>3. CASE ParseFile(s) /\ s \notin skip /\ disk[s] = "filtered"
        BY <2>3, Zenon DEF ParseFile, FileFiltered
    <2>4. CASE ParseFile(s) /\ s \notin skip /\ disk[s] \notin {"ok", "filtered"}
        BY <2>4, Zenon DEF ParseFile, FileFails
    <2>5. CASE WriteFails(s)
        BY <2>5, Zenon DEF WriteFails
    <2> QED
        BY <2>1, <2>2, <2>3, <2>4, <2>5
<1>3. x \in StatsType /\ temp \in DbType
    BY DEF StateType
<1>4. ASSUME NEW r, temp' = temp \/ temp' = [temp EXCEPT !.rows[s] = r]
      PROVE  /\ SameTables(temp', temp)
             /\ \A t \in Sessions : t # s => temp'.rows[t] = temp.rows[t]
             /\ temp' = temp \/ temp'.rows[s] = r
    BY <1>3, <1>4 DEF DbType, SameTables
<1> HIDE DEF x
<1>5. \/ stats' = [x EXCEPT !.todo = x.todo \ {s}]
      \/ stats' = [x EXCEPT !.todo = x.todo \ {s}, !.failed = x.failed + 1]
      \/ stats' = [x EXCEPT !.todo = x.todo \ {s}, !.filesOK = x.filesOK + 1,
                            !.filteredFiles = x.filteredFiles + 1,
                            !.parserExcluded = x.parserExcluded \cup {s}]
      \/ stats' = [x EXCEPT !.todo = x.todo \ {s}, !.filesOK = x.filesOK + 1,
                            !.synced = x.synced + 1]
      => Done(stats')
    BY <1>3 DEF StatsType
<1>6. \/ stats' = [x EXCEPT !.todo = x.todo \ {s}, !.filesOK = x.filesOK + 1,
                            !.unwritten = x.unwritten \cup {s}]
      \/ stats' = [x EXCEPT !.todo = x.todo \ {s}, !.filesOK = x.filesOK + 1,
                            !.failed = x.failed + 1,
                            !.unwritten = x.unwritten \cup {s}]
      => Done(stats') /\ s \in stats'.unwritten
    BY <1>3 DEF StatsType
<1>7. new.text = "new" /\ new.st # "none" /\ ~new.star /\ ~NoRow.star
    BY DEF NoRow
<1> HIDE DEF new
<1>8. Done(stats')
    BY <1>2, <1>5, <1>6, Zenon
<1>9. \/ temp' = temp
      \/ temp' = [temp EXCEPT !.rows[s] = NoRow]
      \/ temp' = [temp EXCEPT !.rows[s] = new]
    BY <1>2, Zenon
<1>10. /\ SameTables(temp', temp)
       /\ \A t \in Sessions : t # s => temp'.rows[t] = temp.rows[t]
       /\ temp.rows[s].star \/ ~temp'.rows[s].star
    BY <1>4, <1>7, <1>9
<1>11. ASSUME disk[s] = "ok", s \notin skip
       PROVE  \/ s \in stats'.unwritten
              \/ s \in Ids(temp') /\ temp'.rows[s].text = "new"
    <2>1. CASE temp' = [temp EXCEPT !.rows[s] = new]
        <3>1. temp'.rows[s] = new
            BY <1>3, <2>1 DEF DbType
        <3> QED
            BY <1>7, <3>1 DEF Ids
    <2> QED
        BY <1>2, <1>6, <1>11, <2>1, Zenon
<1> QED
    BY <1>1, <1>8, <1>10, <1>11 DEF x

\* The steps that give up or start over leave an empty temporary database.
LEMMA NoDbFields ==
    /\ NoDb.excl = {} /\ NoDb.skipped = {} /\ NoDb.insight = FALSE
    /\ NoDb.rows = [s \in Sessions |-> NoRow] /\ Ids(NoDb) = {}
    /\ EmptyDb.excl = {} /\ EmptyDb.skipped = {} /\ EmptyDb.insight = FALSE
    /\ EmptyDb.rows = [s \in Sessions |-> NoRow]
    /\ \A s \in Sessions : ~NoDb.rows[s].star /\ ~EmptyDb.rows[s].star
<1>1. /\ NoDb.excl = EmptyDb.excl /\ NoDb.skipped = EmptyDb.skipped
      /\ NoDb.insight = EmptyDb.insight /\ NoDb.rows = EmptyDb.rows
    BY FirstDbs DEF NoDb, DbType
<1>2. /\ EmptyDb.excl = {} /\ EmptyDb.skipped = {} /\ EmptyDb.insight = FALSE
      /\ EmptyDb.rows = [s \in Sessions |-> NoRow]
    BY DEF EmptyDb
<1>3. Ids(NoDb) = {}
    BY <1>1, <1>2 DEF Ids, NoRow
<1>4. ~NoRow.star
    BY DEF NoRow
<1>5. \A s \in Sessions : EmptyDb.rows[s] = NoRow
    BY <1>2
<1>6. \A s \in Sessions : ~NoDb.rows[s].star /\ ~EmptyDb.rows[s].star
    BY <1>1, <1>4, <1>5
<1> QED
    BY <1>1, <1>2, <1>3, <1>6

LEMMA DeletionStep ==
    StateType /\ ConnInv /\ DeletionInv /\ [Next]_vars => DeletionInv'
<1> SUFFICES ASSUME StateType, ConnInv, DeletionInv, [Next]_vars
             PROVE  DeletionInv'
    OBVIOUS
<1> USE DEF DeletionInv, Swapping
<1>1. CASE UserStep
    BY <1>1, UserEffect DEF ConnInv
<1>2. ASSUME NEW s \in Sessions, ParseFile(s) \/ WriteFails(s) PROVE DeletionInv'
    BY <1>2, FileEffect DEF SameTables
<1>3. CASE UNCHANGED vars
    BY <1>3 DEF vars, Ids
<1>4. CASE CopyExcludedSessionsFrom("excl", "trash")
    <2>1. /\ pc = "excl" /\ pc' = "trash" /\ UNCHANGED <<db, deleted, lapsed>>
        BY <1>4 DEF CopyExcludedSessionsFrom, TempStep
    <2> QED
        BY <1>4, <2>1, ExclusionEffect
<1>5. CASE CopyExcludedSessionsFrom("reexcl", "purge")
    <2>1. /\ pc' = "purge" /\ UNCHANGED <<db, deleted, lapsed>>
        BY <1>5 DEF CopyExcludedSessionsFrom, TempStep
    <2> QED
        BY <1>5, <2>1, ExclusionEffect
<1>6. CASE PurgeExcludedSessions
    <2>1. /\ pc = "purge" /\ pc' = "insights" /\ UNCHANGED <<db, deleted, lapsed>>
          /\ stats.lapses \subseteq stats'.lapses
        BY <1>6, StatsEffect DEF PurgeExcludedSessions, TempStep, TempSteps
    <2> QED
        BY <1>6, <2>1, PurgeEffect DEF SameTables
<1>7. CASE CopyOrphanedDataFrom
    <2>1. /\ pc = "orphans" /\ pc' = "metadata" /\ UNCHANGED <<db, deleted, lapsed, stats>>
        BY <1>7 DEF CopyOrphanedDataFrom, TempStep
    <2>2. \A s \in Sessions : s \notin Orphans => (s \in Ids(temp') <=> s \in Ids(temp))
        BY <1>7, OrphanEffect DEF Ids
    <2>3. temp'.excl = temp.excl
        BY <1>7, OrphanEffect DEF SameTables
    <2> QED
        BY <2>1, <2>2, <2>3 DEF Orphans, StateType
<1>8. CASE CopySessionMetadataFrom
    <2>1. /\ pc = "metadata" /\ pc' = "fts" /\ UNCHANGED <<db, deleted, lapsed>>
          /\ stats.lapses \subseteq stats'.lapses
        BY <1>8, StatsEffect DEF CopySessionMetadataFrom, TempStep, TempSteps
    <2> QED
        BY <1>8, <2>1, MetadataEffect DEF SameTables
<1>9. CASE CopyInsightsFrom
    <2>1. /\ pc = "insights" /\ pc' = "orphans"
          /\ UNCHANGED <<db, deleted, lapsed, stats>>
        BY <1>9 DEF CopyInsightsFrom, TempStep
    <2> QED
        BY <1>9, <2>1, InsightEffect DEF Ids
<1>10. CASE OpenTemp \/ CopyTrashedDataFrom \/ Discover \/ EndSync
    <2>1. /\ pc' \in {"excl", "discover", "parse", "trash", "decide"}
          /\ UNCHANGED <<db, deleted, lapsed>>
        BY <1>10 DEF OpenTemp, CopyTrashedDataFrom, Discover, EndSync, TempStep
    <2>2. temp'.excl \subseteq temp.excl
        BY <1>10, TrashEffect, NoDbFields DEF OpenTemp, Discover, EndSync,
           SameTables, StateType, DbType
    <2> QED
        BY <2>1, <2>2
<1>11. CASE RebuildFTS \/ CloseConnections
    BY <1>11 DEF RebuildFTS, CloseConnections, TempStep
<1>12. CASE Begin \/ Recover \/ Failure \/ Restart \/ Decide
    <2>1. /\ pc' \notin Swapping /\ UNCHANGED <<db, deleted>>
          /\ temp' = temp \/ temp' = NoDb
          /\ lapsed' = lapsed \/ lapsed' = lapsed \ {"skips"}
        BY <1>12, Zenon DEF Begin, Recover, Failure, Fails, Restart, Decide,
           AbortTo, TempStep
    <2> QED
        BY <2>1, NoDbFields
<1>13. CASE Rename
    BY <1>13, NoDbFields DEF Rename
<1>14. CASE Reopen
    <2>1. /\ pc' = "idle" /\ UNCHANGED <<temp, deleted>>
          /\ lapsed' = lapsed \/ lapsed' = lapsed \ {"skips"}
        BY <1>14 DEF Reopen
    <2>2. db'.rows = db.rows /\ db'.excl = db.excl
        BY <1>14 DEF Reopen, StateType, DbType
    <2> QED
        BY <2>1, <2>2 DEF Ids
<1> QED
    BY <1>1, <1>2, <1>3, <1>4, <1>5, <1>6, <1>7, <1>8, <1>9, <1>10, <1>11,
       <1>12, <1>13, <1>14 DEF Next, ResyncStep

\* The steps on the temporary database, other than EndSync, leave its record
\* of the skip cache alone, or come before it counts.
LEMMA SkipKept ==
    ASSUME StateType, TempSteps, ~EndSync
    PROVE  temp'.skipped = temp.skipped \/ pc' \in {"excl", "trash", "discover", "parse"}
<1>1. CASE CopyExcludedSessionsFrom("excl", "trash") \/ OpenTemp
           \/ CopyTrashedDataFrom \/ Discover
    BY <1>1 DEF CopyExcludedSessionsFrom, OpenTemp, CopyTrashedDataFrom,
       Discover, TempStep
<1>2. CASE CopyExcludedSessionsFrom("reexcl", "purge")
    BY <1>2, ExclusionEffect
<1>3. CASE RebuildFTS
    BY <1>3 DEF RebuildFTS
<1> QED
    BY <1>1, <1>2, <1>3, PurgeEffect, InsightEffect, OrphanEffect,
       MetadataEffect DEF TempSteps, SameTables

LEMMA SkipStep == StateType /\ SkipInv /\ [Next]_vars => SkipInv'
<1> SUFFICES ASSUME StateType, SkipInv, [Next]_vars PROVE SkipInv'
    OBVIOUS
<1> USE DEF SkipInv, Swapping, Building, Pcs
<1>1. CASE UserStep
    BY <1>1, UserEffect
<1>2. ASSUME NEW s \in Sessions, ParseFile(s) \/ WriteFails(s) PROVE SkipInv'
    BY <1>2, FileEffect DEF SameTables
<1>3. CASE UNCHANGED vars
    BY <1>3 DEF vars
<1>4. CASE TempSteps /\ ~EndSync
    <2>1. /\ UNCHANGED <<db, skip, lapsed>> /\ pc \in Building /\ pc' \in Building
          /\ pc' # "decide"
          /\ pc' \in {"close"} \cup Swapping => pc \in {"close"} \cup Swapping
        BY <1>4 DEF TempSteps, TempStep, OpenTemp, CopyExcludedSessionsFrom,
           CopyTrashedDataFrom, Discover, PurgeExcludedSessions,
           CopyInsightsFrom, CopyOrphanedDataFrom, CopySessionMetadataFrom,
           RebuildFTS
    <2>2. /\ stats'.saved = stats.saved /\ stats'.aborted = stats.aborted
          /\ stats.lapses \subseteq stats'.lapses
        BY <1>4, StatsEffect
    <2> QED
        BY <1>4, <2>1, <2>2, SkipKept
<1>5. CASE EndSync
    <2>1. /\ UNCHANGED <<db, skip, lapsed>> /\ pc = "parse" /\ pc' = "decide"
        BY <1>5 DEF EndSync, TempStep
    <2>2. stats'.saved = stats.saved
        BY <1>5, StatsEffect DEF TempSteps
    <2>3. temp'.skipped = skip \/ "skips" \in stats'.lapses \/ stats'.aborted
        BY <1>5 DEF EndSync, Lapse, StateType, StatsType, DbType
    <2> QED
        BY <2>1, <2>2, <2>3
<1>6. CASE Begin
    <2>1. stats'.saved = skip
        BY <1>6 DEF Begin, NoStats
    <2> QED
        BY <1>6, <2>1 DEF Begin
<1>7. CASE Decide
    BY <1>7 DEF Decide, AbortSwap, AbortTo, TempStep
<1>8. CASE CloseConnections
    BY <1>8 DEF CloseConnections
<1>9. CASE Rename
    BY <1>9 DEF Rename
<1>10. CASE Reopen
    <2>1. db'.skipped = skip \/ UNCHANGED <<db, lapsed>>
        BY <1>10 DEF Reopen, StateType, DbType
    <2> QED
        BY <1>10, <2>1 DEF Reopen
<1>11. CASE Recover \/ Restart
    BY <1>11 DEF Recover, Restart
<1>12. CASE Failure
    BY <1>12 DEF Failure, Fails, AbortTo
<1> QED
    BY <1>1, <1>2, <1>3, <1>4, <1>5, <1>6, <1>7, <1>8, <1>9, <1>10, <1>11,
       <1>12 DEF Next, ResyncStep, TempSteps

\* The copies up to the orphans write no star, and no insight the old database
\* does not have.
LEMMA EarlyCopies ==
    ASSUME StateType, TempSteps, ~CopyOrphanedDataFrom, ~CopySessionMetadataFrom,
           ~RebuildFTS
    PROVE  /\ (temp'.insight => temp.insight \/ db.insight)
           /\ \A s \in Sessions : temp.rows[s].star \/ ~temp'.rows[s].star
<1>1. CASE CopyExcludedSessionsFrom("excl", "trash")
           \/ CopyExcludedSessionsFrom("reexcl", "purge")
    BY <1>1, ExclusionEffect
<1>2. CASE OpenTemp
    BY <1>2, NoDbFields DEF OpenTemp
<1>3. CASE Discover \/ EndSync
    BY <1>3 DEF Discover, EndSync, StateType, DbType
<1>4. CASE PurgeExcludedSessions
    BY <1>4, PurgeEffect, NoDbFields DEF SameTables, NoRow
<1> QED
    BY <1>1, <1>2, <1>3, <1>4, TrashEffect, InsightEffect DEF TempSteps, SameTables

LEMMA CopyStep ==
    StateType /\ ConnInv /\ CopyInv /\ [Next]_vars => CopyInv'
<1> SUFFICES ASSUME StateType, ConnInv, CopyInv, [Next]_vars PROVE CopyInv'
    OBVIOUS
<1> USE DEF CopyInv, Swapping
<1>1. CASE UserStep
    BY <1>1, UserEffect DEF ConnInv
<1>2. ASSUME NEW s \in Sessions, ParseFile(s) \/ WriteFails(s) PROVE CopyInv'
    BY <1>2, FileEffect DEF SameTables
<1>3. CASE UNCHANGED vars
    BY <1>3 DEF vars, Ids
<1>4. CASE /\ TempSteps /\ ~CopyOrphanedDataFrom /\ ~CopySessionMetadataFrom
           /\ ~RebuildFTS
    <2>1. /\ pc \notin {"orphans", "metadata", "fts", "rename"}
          /\ pc' \notin {"metadata", "fts", "rename"} /\ UNCHANGED db
          /\ pc' = "orphans" => CopyInsightsFrom
        BY <1>4 DEF TempSteps, TempStep, OpenTemp, CopyExcludedSessionsFrom,
           CopyTrashedDataFrom, Discover, EndSync, PurgeExcludedSessions,
           CopyInsightsFrom
    <2>2. pc' = "orphans" => temp'.insight = db.insight
        BY <2>1, InsightEffect DEF StateType, DbType
    <2> QED
        BY <1>4, <2>1, <2>2, EarlyCopies
<1>5. CASE CopyOrphanedDataFrom
    <2>1. /\ pc = "orphans" /\ pc' = "metadata" /\ UNCHANGED <<db, stats>>
        BY <1>5 DEF CopyOrphanedDataFrom, TempStep
    <2>2. Ids(db) \ (temp'.excl \cup stats.parserExcluded) \subseteq Ids(temp')
        BY <1>5, OrphanEffect DEF Orphans, SameTables, Ids
    <2> QED
        BY <1>5, <2>1, <2>2, OrphanEffect DEF SameTables
<1>6. CASE CopySessionMetadataFrom
    <2>1. /\ pc = "metadata" /\ pc' = "fts" /\ UNCHANGED db
          /\ stats'.parserExcluded = stats.parserExcluded
        BY <1>6, StatsEffect DEF CopySessionMetadataFrom, TempStep, TempSteps
    <2>2. \A s \in Sessions : (temp.rows[s].star \/ db.rows[s].star) = db.rows[s].star
        BY <2>1 DEF StateType, DbType, RowType
    <2> QED
        BY <1>6, <2>1, <2>2, MetadataEffect DEF SameTables, Ids
<1>7. CASE RebuildFTS
    BY <1>7 DEF RebuildFTS, TempStep
<1>8. CASE CloseConnections
    BY <1>8 DEF CloseConnections
<1>9. CASE \/ Begin \/ Recover \/ Failure \/ Restart \/ Decide \/ Rename
    <2>1. /\ pc' \notin {"orphans", "metadata", "fts", "rename"}
          /\ pc \notin {"fts", "rename"} \/ temp' = NoDb
          /\ temp' = NoDb \/ UNCHANGED <<temp, db>>
        BY <1>9 DEF Begin, Recover, Failure, Fails, Restart, Decide, Rename,
           AbortTo, TempStep
    <2> QED
        BY <2>1, NoDbFields
<1>10. CASE Reopen
    <2>1. pc = "reopen" /\ pc' = "idle" /\ UNCHANGED temp /\ db'.insight = db.insight
        BY <1>10 DEF Reopen, StateType, DbType
    <2> QED
        BY <2>1
<1> QED
    BY <1>1, <1>2, <1>3, <1>4, <1>5, <1>6, <1>7, <1>8, <1>9, <1>10
       DEF Next, ResyncStep, TempSteps

\* A step that leaves the temporary rows of a rebuilt session be, and forgets
\* nothing, leaves it rebuilt.
LEMMA StaysRebuilt ==
    ASSUME NEW s \in Sessions, Rebuilt(s),
           stats'.todo = stats.todo, stats'.unwritten = stats.unwritten,
           temp.excl \subseteq temp'.excl,
           s \in Ids(temp') <=> s \in Ids(temp),
           temp'.rows[s].text = temp.rows[s].text
    PROVE  Rebuilt(s)'
BY DEF Rebuilt

LEMMA FreshStep == StateType /\ FreshInv /\ [Next]_vars => FreshInv'
<1> SUFFICES ASSUME StateType, FreshInv, [Next]_vars PROVE FreshInv'
    OBVIOUS
<1> USE DEF FreshInv, Swapping
<1>1. CASE UserStep
    BY <1>1, UserEffect DEF Rebuilt
<1>2. ASSUME NEW s \in Sessions, ParseFile(s) \/ WriteFails(s) PROVE FreshInv'
    <2>1. ASSUME NEW t \in Sessions, disk[t] = "ok" PROVE Rebuilt(t)'
        <3>1. CASE t = s
            BY <1>2, <2>1, <3>1, FileEffect DEF Rebuilt
        <3>2. CASE t # s
            <4>1. temp'.rows[t] = temp.rows[t] /\ temp'.excl = temp.excl
                BY <1>2, <3>2, FileEffect DEF SameTables
            <4> QED
                BY <1>2, <2>1, <3>2, <4>1, FileEffect DEF Rebuilt, Ids
        <3> QED
            BY <3>1, <3>2
    <2>2. skip' \cap stats'.todo = {}
        BY <1>2, FileEffect
    <2> QED
        BY <1>2, <2>1, <2>2, FileEffect
<1>3. CASE UNCHANGED vars
    BY <1>3 DEF vars, Rebuilt, Ids
<1>4. CASE OpenTemp \/ CopyExcludedSessionsFrom("excl", "trash") \/ CopyTrashedDataFrom
    BY <1>4 DEF OpenTemp, CopyExcludedSessionsFrom, CopyTrashedDataFrom, TempStep
<1>5. CASE Discover
    <2>1. /\ pc = "discover" /\ pc' = "parse" /\ UNCHANGED <<disk, skip>>
          /\ stats'.todo = Files
        BY <1>5 DEF Discover, TempStep, StateType, StatsType
    <2> QED
        BY <2>1 DEF Files, Rebuilt
<1>6. CASE EndSync
    <2>1. /\ pc = "parse" /\ pc' = "decide" /\ UNCHANGED <<disk, skip>>
          /\ stats'.todo = stats.todo /\ stats'.unwritten = stats.unwritten
          /\ stats.todo = {} \/ stats'.aborted
          /\ temp'.rows = temp.rows /\ temp'.excl = temp.excl
        BY <1>6, StatsEffect DEF EndSync, TempStep, TempSteps, StateType,
           StatsType, DbType, Discover
    <2> QED
        BY <2>1 DEF Rebuilt, Ids
<1>7. CASE CopyExcludedSessionsFrom("reexcl", "purge")
    <2>1. pc = "reexcl" /\ pc' = "purge" /\ UNCHANGED <<disk, skip>>
        BY <1>7 DEF CopyExcludedSessionsFrom, TempStep
    <2>2. stats'.todo = stats.todo /\ stats'.unwritten = stats.unwritten
        BY <1>7, <2>1, StatsEffect DEF TempSteps, Discover, TempStep
    <2> QED
        BY <1>7, <2>1, <2>2, ExclusionEffect DEF Rebuilt, Ids
<1>8. CASE PurgeExcludedSessions
    <2>1. pc = "purge" /\ pc' = "insights" /\ UNCHANGED <<disk, skip>>
        BY <1>8 DEF PurgeExcludedSessions, TempStep
    <2>2. stats'.todo = stats.todo /\ stats'.unwritten = stats.unwritten
        BY <1>8, <2>1, StatsEffect DEF TempSteps, Discover, TempStep
    <2> QED
        BY <1>8, <2>1, <2>2, PurgeEffect DEF Rebuilt, Ids, NoRow, SameTables
<1>9. CASE CopyInsightsFrom
    <2>1. /\ pc = "insights" /\ pc' = "orphans" /\ UNCHANGED <<disk, skip, stats>>
        BY <1>9 DEF CopyInsightsFrom, TempStep
    <2> QED
        BY <1>9, <2>1, InsightEffect DEF Rebuilt, Ids
<1>10. CASE CopyOrphanedDataFrom
    <2>1. /\ pc = "orphans" /\ pc' = "metadata" /\ UNCHANGED <<disk, skip, stats>>
        BY <1>10 DEF CopyOrphanedDataFrom, TempStep
    <2>2. ASSUME NEW s \in Sessions, disk[s] = "ok" PROVE Rebuilt(s)'
        <3>1. Rebuilt(s) /\ stats.todo = {}
            BY <2>1, <2>2
        <3>2. CASE s \in Orphans
            BY <2>1, <3>1, <3>2 DEF Rebuilt, Orphans
        <3>3. CASE s \notin Orphans
            BY <1>10, <2>1, <3>1, <3>3, OrphanEffect, StaysRebuilt
               DEF SameTables, Ids
        <3> QED
            BY <3>2, <3>3
    <2> QED
        BY <2>1, <2>2
<1>11. CASE CopySessionMetadataFrom
    <2>1. pc = "metadata" /\ pc' = "fts" /\ UNCHANGED <<disk, skip>>
        BY <1>11 DEF CopySessionMetadataFrom, TempStep
    <2>2. stats'.todo = stats.todo /\ stats'.unwritten = stats.unwritten
        BY <1>11, <2>1, StatsEffect DEF TempSteps, Discover, TempStep
    <2> QED
        BY <1>11, <2>1, <2>2, MetadataEffect DEF Rebuilt, SameTables
<1>12. CASE RebuildFTS \/ CloseConnections
    BY <1>12 DEF RebuildFTS, CloseConnections, TempStep, Rebuilt, Ids
<1>13. CASE Begin
    BY <1>13 DEF Begin
<1>14. CASE Recover \/ Failure \/ Restart \/ Rename \/ Reopen
    <2>1. pc' \in {"idle", "reopen", "recover"}
        BY <1>14 DEF Recover, Failure, Fails, Restart, Rename, Reopen, AbortTo
    <2> QED
        BY <2>1
<1>15. CASE Decide
    BY <1>15 DEF Decide, AbortSwap, AbortTo, TempStep, Rebuilt, Ids
<1> QED
    BY <1>1, <1>2, <1>3, <1>4, <1>5, <1>6, <1>7, <1>8, <1>9, <1>10, <1>11,
       <1>12, <1>13, <1>14, <1>15 DEF Next, ResyncStep

-----------------------------------------------------------------------------
(* The properties. *)

Inv == ConnInv /\ DeletionInv /\ SkipInv /\ CopyInv /\ FreshInv

LEMMA InvAlways == Spec => [](StateType /\ Inv)
<1>1. ASSUME Init PROVE Inv
    <2>1. /\ pc = "idle" /\ temp = NoDb /\ deleted = {} /\ skip = db.skipped
        BY <1>1 DEF Init
    <2> QED
        BY <2>1, NoDbFields DEF Inv, ConnInv, DeletionInv, SkipInv, CopyInv,
           FreshInv, Swapping, Building
<1>2. StateType /\ Inv /\ [Next]_vars => Inv'
    BY ConnStep, DeletionStep, SkipStep, CopyStep, FreshStep DEF Inv
<1> QED
    BY <1>1, <1>2, TypeAlways, PTL DEF Spec

\* DeletedStaysGone of every reachable state: a session deleted for good before,
\* during or after a rebuild is in no archive that a rebuild leaves, unless the
\* copy of the deletions or the purge failed and the swap went on.
THEOREM DeletionsSurvive == Spec => []DeletedStaysGone
<1>1. Inv => DeletedStaysGone
    BY DEF Inv, DeletionInv, DeletedStaysGone
<1> QED
    BY <1>1, InvAlways, PTL

\* SkipCacheMatches of every reachable state: however a rebuild ends, given up
\* at any step, killed or swapped in, the skip cache is the stored one.
THEOREM SkipCacheFollows == Spec => []SkipCacheMatches
<1>1. Inv => SkipCacheMatches
    BY DEF Inv, SkipInv, SkipCacheMatches, Building, Pcs
<1> QED
    BY <1>1, InvAlways, PTL

\* The only step that swaps renames the temporary database.
LEMMA SwapIsRename ==
    StateType /\ [Next]_vars /\ Swap =>
        db' = temp /\ pc = "rename" /\ UNCHANGED <<disk, stats>>
<1> SUFFICES ASSUME StateType, [Next]_vars, Swap PROVE Rename
    BY DEF Rename, Swap
<1> USE DEF Swap
<1>1. pc' # pc
    OBVIOUS
<1>2. ~UserStep
    BY <1>1, UserEffect
<1>3. \A s \in Sessions : ~ParseFile(s) /\ ~WriteFails(s)
    BY <1>1, FileEffect
<1>4. ~TempSteps
    BY DEF TempSteps, TempStep, OpenTemp, CopyExcludedSessionsFrom,
       CopyTrashedDataFrom, Discover, EndSync, PurgeExcludedSessions,
       CopyInsightsFrom, CopyOrphanedDataFrom, CopySessionMetadataFrom, RebuildFTS
<1>5. ~Begin /\ ~Decide /\ ~CloseConnections /\ ~Reopen /\ ~Recover
    BY DEF Begin, Decide, CloseConnections, Reopen, Recover, AbortTo, TempStep
<1>6. ~Failure /\ ~Restart
    BY DEF Failure, Fails, Restart, AbortTo
<1>7. ~UNCHANGED vars
    BY <1>1 DEF vars
<1> QED
    BY <1>2, <1>3, <1>4, <1>5, <1>6, <1>7 DEF Next, ResyncStep, TempSteps

\* SwapKeepsArchive of every step: a swap keeps every session that was not
\* deleted for good and that the parser does not exclude on purpose.
THEOREM ArchiveKept == Spec => SwapKeepsArchive
<1>1. ASSUME StateType, Inv, [Next]_vars, Swap
      PROVE  Ids(db) \ (db.excl \cup stats.parserExcluded) \subseteq Ids(db')
    BY <1>1, SwapIsRename DEF Inv, CopyInv, DeletionInv
<1>2. ASSUME StateType, Inv, [Next]_vars
      PROVE  [Swap => Ids(db) \ (db.excl \cup stats.parserExcluded)
                         \subseteq Ids(db')]_vars
    BY <1>1, <1>2
<1> QED
    BY <1>2, InvAlways, PTL DEF SwapKeepsArchive, Spec

\* SwapKeepsUserState of every step: what users did to the old database until
\* its connections were closed is in the new one.
THEOREM UserStateKept == Spec => SwapKeepsUserState
<1> DEFINE Kept == /\ db'.insight = db.insight
                   /\ "metadata" \notin stats.lapses =>
                        \A s \in Ids(db) \cap Ids(db') :
                            /\ db'.rows[s].st = db.rows[s].st
                            /\ db'.rows[s].star = db.rows[s].star
<1>1. ASSUME StateType, Inv, [Next]_vars, Swap PROVE Kept
    BY <1>1, SwapIsRename DEF Inv, CopyInv
<1>2. ASSUME StateType, Inv, [Next]_vars PROVE [Swap => Kept]_vars
    BY <1>1, <1>2
<1> QED
    BY <1>2, InvAlways, PTL DEF SwapKeepsUserState, Spec

\* RevisionMarksChange of every step: no client misses a new transcript, and
\* none reloads an old one.
THEOREM RevisionTells == Spec => RevisionMarksChange
<1> DEFINE Marks == \A s \in Ids(db) \cap Ids(db') :
                       (db'.rows[s].rev # db.rows[s].rev)
                          <=> (db'.rows[s].text # db.rows[s].text)
<1>1. ASSUME StateType, Inv, [Next]_vars, Swap PROVE Marks
    BY <1>1, SwapIsRename DEF Inv, CopyInv
<1>2. ASSUME StateType, Inv, [Next]_vars PROVE [Swap => Marks]_vars
    BY <1>1, <1>2
<1> QED
    BY <1>2, InvAlways, PTL DEF RevisionMarksChange, Spec

\* RebuildIsFresh of every step: whatever the order in which the files are
\* parsed, a swap leaves no transcript of an older parser that the current one
\* could have replaced.
THEOREM RebuildComplete == Spec => RebuildIsFresh
<1> DEFINE Fresh == \A s \in Ids(db') : \/ db'.rows[s].text = "new"
                                        \/ disk[s] # "ok"
                                        \/ s \in stats.unwritten
<1>1. ASSUME StateType, Inv, [Next]_vars, Swap PROVE Fresh
    BY <1>1, SwapIsRename DEF Inv, FreshInv, Rebuilt, Swapping, Ids
<1>2. ASSUME StateType, Inv, [Next]_vars PROVE [Swap => Fresh]_vars
    BY <1>1, <1>2
<1> QED
    BY <1>2, InvAlways, PTL DEF RebuildIsFresh, Spec
=============================================================================

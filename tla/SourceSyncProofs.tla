-------------------------- MODULE SourceSyncProofs --------------------------
(***************************************************************************)
(* Theorems about SourceSync, for every number of lines, versions and      *)
(* faults, every kind of line and every environment.                       *)
(***************************************************************************)
EXTENDS SourceSync, FiniteSetTheorems, WellFoundedInduction, TLAPS

USE SourceSyncAssumption

-----------------------------------------------------------------------------
(* The operators the actions are built from. *)

\* A set of lines is finite, so the number of messages in it is a number.
LEMMA CountType ==
    ASSUME NEW S \in SUBSET Lines
    PROVE  Cardinality(Messages(S)) \in Nat
<1>1. IsFiniteSet(Lines)
  BY FS_Interval DEF Lines
<1>2. Messages(S) \subseteq Lines
  BY DEF Messages
<1> QED
  BY <1>1, <1>2, FS_Subset, FS_CardinalityType

\* The copies a write leaves are again a count for every line.
LEMMA CopiesType ==
    /\ NoCopies \in [Lines -> Nat]
    /\ \A S : Copies(S) \in [Lines -> Nat]
    /\ \A f \in [Lines -> Nat] : \A S : Plus(f, S) \in [Lines -> Nat]
BY DEF NoCopies, Copies, Plus

LEMMA NoRowType == NoRow \in RowType
BY CopiesType DEF NoRow, RowType, HashType

LEMMA NoJobType == NoJob \in JobType
BY DEF NoJob, JobType, Pcs, Modes, StatType, HashType

LEMMA StatTyped == ASSUME TypeOK PROVE /\ Size \in Nat
                                       /\ Stat \in StatType
                                       /\ \A n \in Nat : Hash(n) \in HashType
<1>1. file \in FileType
  BY DEF TypeOK
<1>2. Size \in Nat
  BY <1>1 DEF FileType, Size
<1> QED
  BY <1>1, <1>2 DEF FileType, Stat, StatType, Hash, HashType

-----------------------------------------------------------------------------
(* Type correctness. *)

LEMMA TypeInit == Init => TypeOK
<1> SUFFICES ASSUME Init PROVE TypeOK
  OBVIOUS
<1>1. file \in FileType /\ Top <= MaxLine
  <2>1. file \in FileType
    BY DEF Init, FileType
  <2>2. file.base = 0 /\ file.len = 1 /\ file.part = FALSE
    BY DEF Init
  <2> QED
    BY <2>1, <2>2 DEF Top
<1>2. row \in RowType /\ row.ver <= curVer
  BY NoRowType DEF Init, NoRow
<1>3. job \in JobType
  BY NoJobType DEF Init
<1>4. curVer \in 1 .. MaxVer /\ faults \in 0 .. MaxFaults
  BY DEF Init
<1>5. excluded \in BOOLEAN /\ skipMem \in Nat /\ skipDb \in Nat
  BY DEF Init
<1> QED
  BY <1>1, <1>2, <1>3, <1>4, <1>5 DEF TypeOK

LEMMA TypeStep == TypeOK /\ [Next]_vars => TypeOK'
<1> SUFFICES ASSUME TypeOK, [Next]_vars PROVE TypeOK'
  OBVIOUS
<1> USE DEF TypeOK
<1>1. CASE Append
  <2>1. file' \in FileType
    <3>1. file.len + 1 \in Nat /\ file.mtime + 1 \in Nat
      BY DEF FileType
    <3> QED
      BY <1>1, <3>1, Zenon DEF Append, FileType
  <2>2. file'.base = file.base /\ file'.len = file.len + 1 /\ file'.part = FALSE
    BY <1>1 DEF Append, FileType
  <2>3. Top' <= MaxLine
    BY <1>1, <2>2 DEF Append, FileType, Top
  <2> QED
    BY <1>1, <2>1, <2>3 DEF Append
<1>2. CASE AppendPartial
  <2>1. file' \in FileType
    <3>1. file.mtime + 1 \in Nat
      BY DEF FileType
    <3> QED
      BY <1>2, <3>1, Zenon DEF AppendPartial, FileType
  <2>2. file'.base = file.base /\ file'.len = file.len
    BY <1>2 DEF AppendPartial, FileType
  <2>3. Top' <= MaxLine
    BY <1>2, <2>1, <2>2 DEF AppendPartial, FileType, Top
  <2> QED
    BY <1>2, <2>1, <2>3 DEF AppendPartial
<1>3. CASE RewriteSameStat
  BY <1>3 DEF RewriteSameStat, FileType, Top
<1>4. ASSUME NEW n \in 1 .. MaxLine, Replace(n) PROVE TypeOK'
  <2>1. /\ n \in Nat /\ file.agent \in Agents /\ Top \in Nat
        /\ file.env \subseteq EnvKinds
        /\ file.mtime + 1 \in Nat /\ file.ino + 1 \in Nat
    BY DEF FileType, Top
  <2>2. file' = [agent |-> file.agent, env |-> file.env, base |-> Top, len |-> n,
                 part |-> FALSE, mtime |-> file.mtime + 1,
                 ino |-> file.ino + 1]
    BY <1>4 DEF Replace, FileType
  <2>3. file' \in FileType
    BY <2>1, <2>2 DEF FileType
  <2>4. Top' = Top + n /\ Top + n <= MaxLine
    BY <1>4, <2>1, <2>2 DEF Replace, Top
  <2> QED
    BY <1>4, <2>3, <2>4 DEF Replace
<1>5. CASE SoftDeleteSession
  BY <1>5 DEF SoftDeleteSession, RowType, Top
<1>6. CASE RestoreSession
  BY <1>6 DEF RestoreSession, RowType, Top
<1>7. CASE DeleteSession
  BY <1>7, NoRowType DEF DeleteSession, NoRow, Top
<1>8. ASSUME NEW v \in 1 .. MaxVer, Restart(v) PROVE TypeOK'
  BY <1>8 DEF Restart, RowType, Top
<1>9. ASSUME NEW v \in 1 .. MaxVer, Crash(v) PROVE TypeOK'
  BY <1>9, NoJobType DEF Crash, Fault, RowType, Top
<1>10. ASSUME NEW m \in Modes, NEW r \in Reparses, Start(m, r) PROVE TypeOK'
  <2>1. ASSUME NEW pc \in Pcs, NEW f \in BOOLEAN, StartAs(m, pc, f)
        PROVE  job' \in JobType
    BY <2>1, StatTyped DEF StartAs, NoJob, JobType, RowType, HashType
  <2>2. MustReplace(r) \in BOOLEAN /\ (file.agent = "claude") \in BOOLEAN
    BY DEF MustReplace
  <2>3. job' \in JobType
    BY <1>10, <2>1, <2>2 DEF Start, Pcs
  <2> QED
    BY <1>10, <2>3 DEF Start, Top
<1>11. CASE ReadTail
  <2>1. LinesFrom(job.size) \subseteq Lines /\ 2 * file.len \in Nat
    BY DEF LinesFrom, FileType
  <2>2. row.hash \in HashType /\ job.stat.mtime \in Nat
    BY DEF RowType, JobType, StatType
  <2>3. Hash(2 * file.len) \in HashType
    BY <2>1, StatTyped
  <2>4. job' \in JobType
    BY <1>11, <2>1, <2>2, <2>3 DEF ReadTail, JobType, Pcs
  <2> QED
    BY <1>11, <2>4 DEF ReadTail, Top
<1>12. CASE ReadTailError
  BY <1>12 DEF ReadTailError, Fault, JobType, Pcs, Top
<1>13. CASE FullStat
  <2>1. job' \in JobType
    BY <1>13, StatTyped DEF FullStat, JobType, Pcs, FileType
  <2> QED
    BY <1>13, <2>1 DEF FullStat, Top
<1>14. CASE FullRead
  <2>1. LinesFrom(0) \subseteq Lines /\ Hash(Size) \in HashType
    BY StatTyped DEF LinesFrom
  <2>2. job' \in JobType
    BY <1>14, <2>1 DEF FullRead, JobType, Pcs
  <2> QED
    BY <1>14, <2>2 DEF FullRead, Top
<1>15. CASE FullReadError
  BY <1>15 DEF FullReadError, Fault, JobType, StatType, Pcs, Top
<1>16. CASE Collect
  BY <1>16 DEF Collect, JobType, Pcs, Top
<1>17. CASE UpsertSession
  <2>1. job' \in JobType
    BY <1>17 DEF UpsertSession, JobType, Pcs
  <2>2. row' \in RowType /\ row'.ver = row.ver
    <3>1. CASE UNCHANGED row
      BY <3>1
    <3>2. CASE row' = [row EXCEPT !.st = "live", !.size = job.size,
                          !.mtime = job.mtime, !.ino = job.stat.ino,
                          !.hash = job.hash]
      <4>1. /\ job.size \in Nat /\ job.mtime \in Nat
            /\ job.stat.ino \in Nat /\ job.hash \in HashType
        BY DEF JobType, StatType
      <4> QED
        BY <3>2, <4>1 DEF RowType
    <3> QED
      BY <1>17, <3>1, <3>2 DEF UpsertSession
  <2>3. skipMem' \in Nat
    BY <1>17 DEF UpsertSession, JobType
  <2> QED
    BY <1>17, <2>1, <2>2, <2>3 DEF UpsertSession, Top
<1>18. CASE WriteMessages
  <2>1. job' \in JobType
    BY <1>18 DEF WriteMessages, JobType, Pcs
  <2>2. /\ job.ids \in SUBSET Lines
        /\ Appended \in SUBSET Lines
    BY DEF JobType, Appended, Content
  <2>3. /\ Cardinality(Messages(job.ids)) \in Nat
        /\ Cardinality(Messages(Appended)) \in Nat
    BY <2>2, CountType
  <2>4. /\ Copies(Content(job.ids)) \in [Lines -> Nat]
        /\ Plus(row.copies, Appended) \in [Lines -> Nat]
    BY CopiesType DEF RowType
  <2>5. row' \in RowType /\ row'.ver = row.ver
    <3>1. CASE UNCHANGED row
      BY <3>1
    <3>2. CASE row' = [row EXCEPT !.copies = Copies(Content(job.ids)),
                          !.count = Cardinality(Messages(job.ids)),
                          !.pver = curVer]
      <4>1. curVer \in Nat
        OBVIOUS
      <4> QED
        BY <2>3, <2>4, <3>2, <4>1 DEF RowType
    <3>3. CASE row' = [row EXCEPT !.copies = Plus(@, Appended),
                          !.count = @ + Cardinality(Messages(Appended)),
                          !.pver = IF row.count = 0 THEN curVer ELSE @]
      <4>1. /\ row.count + Cardinality(Messages(Appended)) \in Nat
            /\ (IF row.count = 0 THEN curVer ELSE row.pver) \in Nat
        BY <2>3 DEF RowType
      <4> QED
        BY <2>4, <3>3, <4>1 DEF RowType
    <3> QED
      BY <1>18, <3>1, <3>2, <3>3 DEF WriteMessages
  <2> QED
    BY <1>18, <2>1, <2>5 DEF WriteMessages, Top
<1>19. CASE SetSessionDataVersion
  <2>1. job' \in JobType
    BY <1>19 DEF SetSessionDataVersion, JobType, Pcs
  <2>2. row' \in RowType /\ row'.ver <= curVer
    BY <1>19 DEF SetSessionDataVersion, RowType
  <2> QED
    BY <1>19, <2>1, <2>2 DEF SetSessionDataVersion, Top
<1>20. CASE IncrementalMessages
  <2>1. job' \in JobType
    BY <1>20 DEF IncrementalMessages, JobType, Pcs
  <2>2. /\ Cardinality(Messages(job.ids)) \in Nat
        /\ Plus(row.copies, Messages(job.ids)) \in [Lines -> Nat]
    BY CountType, CopiesType DEF JobType, RowType
  <2>3. row' \in RowType /\ row'.ver = row.ver
    <3>1. CASE UNCHANGED row
      BY <3>1
    <3>2. CASE row' = [row EXCEPT !.copies = Plus(@, Messages(job.ids)),
                          !.count = @ + Cardinality(Messages(job.ids))]
      <4>1. row.count + Cardinality(Messages(job.ids)) \in Nat
        BY <2>2 DEF RowType
      <4> QED
        BY <2>2, <3>2, <4>1 DEF RowType
    <3> QED
      BY <1>20, <3>1, <3>2 DEF IncrementalMessages
  <2> QED
    BY <1>20, <2>1, <2>3 DEF IncrementalMessages, Top
<1>21. CASE UpdateSessionIncremental
  <2>1. job' \in JobType
    BY <1>21 DEF UpdateSessionIncremental, JobType, Pcs
  <2>2. row' \in RowType /\ row'.ver = row.ver
    BY <1>21 DEF UpdateSessionIncremental, JobType, RowType
  <2> QED
    BY <1>21, <2>1, <2>2 DEF UpdateSessionIncremental, Top
<1>22. CASE WriteError
  BY <1>22 DEF WriteError, Fault, JobType, Pcs, Top
<1>23. CASE Finish
  BY <1>23, NoJobType DEF Finish, Top
<1>24. CASE UNCHANGED vars
  BY <1>24 DEF vars, Top
<1> QED
  BY <1>1, <1>2, <1>3, <1>4, <1>5, <1>6, <1>7, <1>8, <1>9, <1>10, <1>11,
     <1>12, <1>13, <1>14, <1>15, <1>16, <1>17, <1>18, <1>19, <1>20, <1>21,
     <1>22, <1>23, <1>24 DEF Next, EngineStep, Failure, World

\* Whatever the interleaving of files, users, syncs and failures, the state
\* keeps its type and no row's data version is ahead of the running binary.
THEOREM TypeCorrect == Spec => []TypeOK
BY TypeInit, TypeStep, PTL DEF Spec

-----------------------------------------------------------------------------
(* Deletion is final. *)

\* DeleteSession removes the row and excludes the id together, and only
\* UpsertSession creates a row, after looking the id up: no interleaving of a
\* running sync, a crash or a restart brings a deleted session back.
THEOREM DeletionIsFinal == Spec => []ExcludedStaysGone
<1>1. Init => ExcludedStaysGone
  BY DEF Init, NoRow, ExcludedStaysGone
<1>2. TypeOK /\ ExcludedStaysGone /\ [Next]_vars => ExcludedStaysGone'
  <2> SUFFICES ASSUME TypeOK, ExcludedStaysGone, [Next]_vars
               PROVE  ExcludedStaysGone'
    OBVIOUS
  <2> USE DEF ExcludedStaysGone
  <2>1. CASE UNCHANGED <<row, excluded>>
    BY <2>1
  <2>2. CASE SoftDeleteSession \/ RestoreSession
    BY <2>2 DEF SoftDeleteSession, RestoreSession
  <2>3. CASE DeleteSession
    BY <2>3 DEF DeleteSession, NoRow
  <2>4. CASE UpsertSession
    BY <2>4 DEF UpsertSession
  <2>5. CASE WriteMessages
    BY <2>5 DEF WriteMessages, TypeOK, RowType
  <2>6. CASE SetSessionDataVersion
    BY <2>6 DEF SetSessionDataVersion, TypeOK, RowType
  <2>7. CASE IncrementalMessages \/ UpdateSessionIncremental
    BY <2>7 DEF IncrementalMessages, UpdateSessionIncremental
  <2>8. CASE World /\ ~(SoftDeleteSession \/ RestoreSession \/ DeleteSession)
    BY <2>8, <2>1 DEF World, Append, AppendPartial, RewriteSameStat, Replace,
                      Restart
  <2>9. CASE Failure
    BY <2>9, <2>1 DEF Failure, ReadTailError, FullReadError, WriteError, Crash
  <2>10. CASE \/ \E m \in Modes, r \in Reparses : Start(m, r)
              \/ ReadTail \/ FullStat \/ FullRead \/ Collect \/ Finish
              \/ UNCHANGED vars
    BY <2>10, <2>1 DEF Start, ReadTail, FullStat, FullRead, Collect, Finish,
                       vars
  <2> QED
    BY <2>2, <2>3, <2>4, <2>5, <2>6, <2>7, <2>8, <2>9, <2>10
       DEF Next, EngineStep
<1> QED
  BY <1>1, <1>2, TypeCorrect, PTL DEF Spec

-----------------------------------------------------------------------------
(* The data version of a Claude session is honest. *)

FullPcs == {"tail", "fullstat", "fullread", "collectfull", "upsert", "msgs"}
TailPcs == {"tail", "collectinc", "incmsgs", "incrow"}

\* VersionHonest is not inductive.  What it rests on: an absent row is the
\* empty one; a Claude parse that reaches the write replaces the messages;
\* when the version is about to be set the messages are the current parser's;
\* and an append goes only to a row that already has messages.
VersionInv ==
    /\ TypeOK
    /\ row.st = "none" => row = NoRow
    /\ job.pc \in FullPcs => job.force
    /\ job.pc = "setver" =>
          row.st = "none" \/ row.count = 0 \/ row.pver >= curVer
    /\ job.pc \in TailPcs => row.st = "none" \/ row.count > 0
    /\ VersionHonest

LEMMA VersionInit == Init => VersionInv
<1> SUFFICES ASSUME Init PROVE VersionInv
  OBVIOUS
<1>1. row = NoRow /\ job = NoJob
  BY DEF Init
<1> QED
  BY <1>1, TypeInit
     DEF VersionInv, VersionHonest, NoRow, NoJob, FullPcs, TailPcs

LEMMA VersionStep ==
    ASSUME Agents = {"claude"}, VersionInv, [Next]_vars
    PROVE  VersionInv'
<1> USE DEF VersionInv, VersionHonest
<1>0. TypeOK'
  BY TypeStep
<1>t. /\ row \in RowType /\ row' \in RowType
      /\ job \in JobType /\ job' \in JobType
      /\ curVer \in Nat \ {0} /\ curVer' \in Nat \ {0} /\ row.ver <= curVer
      /\ file.agent = "claude"
  BY <1>0 DEF TypeOK, FileType
<1>1. CASE UNCHANGED <<row, curVer, job>>
  BY <1>0, <1>1
<1>2. CASE Append \/ AppendPartial \/ RewriteSameStat
              \/ \E n \in 1 .. MaxLine : Replace(n)
  BY <1>1, <1>2 DEF Append, AppendPartial, RewriteSameStat, Replace
<1>3. CASE SoftDeleteSession
  BY <1>0, <1>t, <1>3 DEF SoftDeleteSession, RowType
<1>4. CASE RestoreSession
  BY <1>0, <1>t, <1>4 DEF RestoreSession, RowType
<1>5. CASE DeleteSession
  BY <1>0, <1>5 DEF DeleteSession, NoRow
<1>6. ASSUME NEW v \in 1 .. MaxVer, Restart(v) PROVE VersionInv'
  BY <1>0, <1>t, <1>6 DEF Restart, RowType, FullPcs, TailPcs
<1>7. ASSUME NEW v \in 1 .. MaxVer, Crash(v) PROVE VersionInv'
  BY <1>0, <1>t, <1>7 DEF Crash, NoJob, RowType, FullPcs, TailPcs
<1>8. ASSUME NEW m \in Modes, NEW r \in Reparses, Start(m, r)
      PROVE  VersionInv'
  <2>1. UNCHANGED <<row, curVer>>
    BY <1>8 DEF Start
  <2>2. CASE job'.pc = "finish"
    BY <1>0, <2>1, <2>2 DEF FullPcs, TailPcs
  <2>3. CASE CanAppend(r) /\ StartAs(m, "tail", file.agent = "claude")
    <3>1. row.count > 0
      BY <2>3 DEF CanAppend
    <3>2. job'.pc = "tail" /\ job'.force
      BY <1>t, <2>3 DEF StartAs, NoJob
    <3> QED
      BY <1>0, <2>1, <3>1, <3>2
  <2>4. CASE StartAs(m, "fullstat", MustReplace(r))
    <3>1. job'.pc = "fullstat" /\ job'.force
      BY <1>t, <2>4 DEF StartAs, NoJob, MustReplace
    <3> QED
      BY <1>0, <2>1, <3>1 DEF TailPcs
  <2>5. CASE StartAs(m, "finish", FALSE)
    BY <2>2, <2>5 DEF StartAs, NoJob
  <2> QED
    BY <1>8, <2>3, <2>4, <2>5 DEF Start
<1>9. CASE ReadTail
  <2>1. UNCHANGED <<row, curVer>> /\ job.pc = "tail"
    BY <1>9 DEF ReadTail
  <2>2. job'.pc \in {"collectinc", "finish"}
            \/ (job'.pc = "fullstat" /\ job'.force)
    BY <1>9, <1>t DEF ReadTail, JobType
  <2> QED
    BY <1>0, <2>1, <2>2 DEF FullPcs, TailPcs
<1>10. CASE ReadTailError \/ FullStat \/ FullRead
  <2>1. UNCHANGED <<row, curVer>> /\ job.pc \in FullPcs
    BY <1>10 DEF ReadTailError, FullStat, FullRead, FullPcs
  <2>2. job'.pc \in {"fullstat", "fullread", "collectfull"}
        /\ job'.force = job.force
    BY <1>10, <1>t DEF ReadTailError, FullStat, FullRead, JobType
  <2> QED
    BY <1>0, <2>1, <2>2 DEF FullPcs, TailPcs
<1>11. CASE Collect
  <2>1. UNCHANGED <<row, curVer>>
    BY <1>11 DEF Collect
  <2>2. /\ job'.force = job.force
        /\ \/ job.pc = "collectfull" /\ job'.pc = "upsert"
           \/ job.pc = "collectinc" /\ job'.pc = "incmsgs"
    BY <1>11, <1>t DEF Collect, JobType
  <2> QED
    BY <1>0, <2>1, <2>2 DEF FullPcs, TailPcs
<1>12. CASE FullReadError \/ WriteError \/ Finish
  <2>1. UNCHANGED <<row, curVer>>
    BY <1>12 DEF FullReadError, WriteError, Finish
  <2>2. job'.pc \in {"finish", "idle"}
    BY <1>12, <1>t DEF FullReadError, WriteError, Finish, JobType, NoJob
  <2> QED
    BY <1>0, <2>1, <2>2 DEF FullPcs, TailPcs
<1>13. CASE UpsertSession
  <2>1. curVer' = curVer /\ job.pc = "upsert" /\ job.force
    BY <1>13 DEF UpsertSession, FullPcs
  <2>2. \/ row' = row /\ job'.pc = "finish"
        \/ /\ row'.st = "live" /\ row'.ver = row.ver
           /\ row'.pver = row.pver /\ row'.count = row.count
           /\ job'.pc = "msgs" /\ job'.force
    BY <1>13, <1>t, <2>1 DEF UpsertSession, RowType, JobType
  <2>3. row.st = "none" => row.ver = 0
    BY DEF NoRow
  <2> QED
    BY <1>0, <1>t, <2>1, <2>2, <2>3 DEF FullPcs, TailPcs, RowType
<1>14. CASE WriteMessages
  <2>1. curVer' = curVer /\ job.pc = "msgs" /\ ReplaceMessages
    BY <1>14 DEF WriteMessages, FullPcs, ReplaceMessages
  <2>2. \/ row.st = "none" /\ row' = row /\ job'.pc \in {"setver", "finish"}
        \/ /\ row.st # "none" /\ row'.st = row.st
           /\ row'.pver = curVer /\ job'.pc = "setver"
    BY <1>14, <1>t, <2>1 DEF WriteMessages, RowType, JobType
  <2> QED
    BY <1>0, <1>t, <2>1, <2>2 DEF FullPcs, TailPcs, RowType
<1>15. CASE SetSessionDataVersion
  <2>1. /\ curVer' = curVer /\ job.pc = "setver" /\ job'.pc = "finish"
        /\ row'.st = row.st /\ row'.count = row.count
        /\ row'.pver = row.pver
        /\ row.st = "none" => row' = row
    BY <1>15, <1>t DEF SetSessionDataVersion, RowType, JobType
  <2> QED
    BY <1>0, <1>t, <2>1 DEF FullPcs, TailPcs, RowType
<1>16. CASE IncrementalMessages
  <2>1. /\ curVer' = curVer /\ job.pc = "incmsgs"
        /\ job'.pc \in {"incrow", "finish"}
    BY <1>16, <1>t DEF IncrementalMessages, JobType
  <2>2. \/ row' = row
        \/ /\ row.st # "none" /\ row'.st = row.st
           /\ row'.ver = row.ver /\ row'.pver = row.pver
           /\ row'.count = row.count + Cardinality(Messages(job.ids))
    BY <1>16, <1>t DEF IncrementalMessages, RowType
  <2>3. Cardinality(Messages(job.ids)) \in Nat
    BY <1>t, CountType DEF JobType
  <2> QED
    BY <1>0, <1>t, <2>1, <2>2, <2>3 DEF FullPcs, TailPcs, RowType
<1>17. CASE UpdateSessionIncremental
  <2>1. curVer' = curVer /\ job.pc = "incrow" /\ job'.pc = "finish"
    BY <1>17, <1>t DEF UpdateSessionIncremental, JobType
  <2>2. \/ row' = row
        \/ /\ row.st # "none" /\ row'.st = row.st
           /\ row'.ver = row.ver /\ row'.pver = row.pver
           /\ row'.count = row.count
    BY <1>17, <1>t DEF UpdateSessionIncremental, RowType
  <2> QED
    BY <1>0, <1>t, <2>1, <2>2 DEF FullPcs, TailPcs, RowType
<1>18. CASE UNCHANGED vars
  BY <1>1, <1>18 DEF vars
<1> QED
  BY <1>2, <1>3, <1>4, <1>5, <1>6, <1>7, <1>8, <1>9, <1>10, <1>11, <1>12,
     <1>13, <1>14, <1>15, <1>16, <1>17, <1>18
     DEF Next, EngineStep, Failure, World

\* However many crashes, failed writes and upgrades fall between the row, its
\* messages and its data version (set last), a Claude session marked with the
\* current version holds no message of an older parser.
THEOREM VersionsAreHonest ==
    ASSUME Agents = {"claude"}
    PROVE  Spec => []VersionHonest
<1>1. VersionInv /\ [Next]_vars => VersionInv'
  BY VersionStep
<1>2. VersionInv => VersionHonest
  BY DEF VersionInv
<1> QED
  BY VersionInit, <1>1, <1>2, PTL DEF Spec


-----------------------------------------------------------------------------
(* A calm transcript is stored faithfully. *)

\* Where a parse need not replace the messages, reading the file must not fail
\* and users must not trash the session: a Codex parse that follows would only
\* add what it counts as new.
Mild ==
    \A a \in Agents \ {"claude"} : \A env \in Envs[a] :
        env \cap Hazardous = {} => env \cap {"io", "trash"} = {}

\* The complete lines of the file in its first n bytes, and n ends a line.
Known(n) == { i \in Lines : file.base < i /\ 2 * (i - file.base) <= n }
Whole(n) == \E k \in 1 .. file.len : n = 2 * k

\* The row holds the messages of the lines S, each once.
Holds(S) ==
    \A i \in Lines : row.copies[i] = IF i \in Content(S) THEN 1 ELSE 0

Settled == job.pc \notin {"msgs", "incrow"}
ReadPcs == {"collectfull", "upsert", "msgs"}
TailRead == {"collectinc", "incmsgs", "incrow"}

\* The file never ends in half a line, and the environment is as assumed.
FileCalm ==
    /\ file.len > 0 /\ ~file.part
    /\ file.env \in Envs[file.agent]
    /\ file.agent # "claude" => row.st # "trashed"

\* No line is stored twice, and none that has not been written.
OnceEach ==
    /\ row.st = "none" => row = NoRow
    /\ \A i \in Lines : /\ row.copies[i] <= 1
                        /\ row.copies[i] # 0 => i <= file.base + file.len

\* A row is of the file as it is, of the file before it was appended to, or of
\* another file; but while a sync writes it, it holds what its offset says.
RowCalm ==
    row.st # "none" =>
        /\ row.ino <= file.ino /\ row.mtime <= file.mtime /\ row.size > 0
        /\ job.pc \notin {"msgs", "setver"} => row.ver > 0
        /\ Settled =>
              /\ row.ino = file.ino => Whole(row.size) /\ Holds(Known(row.size))
              /\ row.mtime = file.mtime => Holds(LinesFrom(0))
              /\ row.count = 0 => row.copies = NoCopies

\* A sync knows the file it has looked at.
StatCalm ==
    job.pc # "idle" =>
        /\ job.stat.mtime <= file.mtime /\ job.stat.ino <= file.ino
        /\ job.stat.mtime = file.mtime => job.stat.ino = file.ino

\* A tail is read for a row with messages, of the file the sync looked at.
TailRow ==
    job.pc \in {"tail"} \cup TailRead /\ row.st # "none" =>
        row.ino = job.stat.ino /\ row.count > 0

\* It starts where the stored messages end, or is of another file.
TailStart ==
    job.pc = "tail" =>
        /\ row.st # "none" => job.size = row.size
        /\ file.agent = "claude" => job.force
        /\ job.stat.ino # file.ino =>
              \A i \in Lines : row.copies[i] # 0 => i <= file.base

\* Its lines are new ones, those between the stored offset and the next.
TailIds ==
    job.pc \in {"collectinc", "incmsgs"} =>
        /\ \A i \in job.ids : row.copies[i] = 0 /\ Kind[i] # "link"
        /\ row.st # "none" /\ row.ino = file.ino =>
              /\ job.ids = Known(job.size) \ Known(row.size)
              /\ row.size <= job.size

TailStamp ==
    job.pc \in TailRead =>
        /\ job.mtime = job.stat.mtime /\ job.size > 0
        /\ job.stat.ino = file.ino => Whole(job.size)
        /\ job.mtime = file.mtime => job.size = 2 * file.len
        /\ \A i \in job.ids : i <= file.base + file.len

TailStored ==
    job.pc = "incrow" /\ row.st # "none" /\ row.ino = file.ino =>
        Holds(Known(job.size))

\* A full parse replaces the messages, or there are none.
FullForce ==
    job.pc \in {"fullstat", "fullread"} \cup ReadPcs =>
        \/ job.force \/ row.st = "none"
        \/ row.count = 0 /\ row.copies = NoCopies
        \/ 0 < row.ver /\ row.ver < curVer

FullStamp ==
    job.pc \in {"fullread"} \cup ReadPcs =>
        job.size > 0 /\ job.mtime <= file.mtime

\* What it is about to read, and what it has read, is what its offset and its
\* stamp say.
FullNext ==
    job.pc = "fullread" =>
        (job.stat.ino = file.ino \/ job.mtime = file.mtime =>
              job.size = 2 * file.len /\ job.mtime = file.mtime)

FullIds ==
    job.pc \in ReadPcs =>
        /\ job.mtime = file.mtime => job.ids = LinesFrom(0)
        /\ job.stat.ino = file.ino =>
              job.ids = Known(job.size) /\ Whole(job.size)
        /\ \A i \in job.ids : i <= file.base + file.len

FullRow ==
    job.pc = "msgs" /\ row.st # "none" =>
        /\ row.size = job.size /\ row.mtime = job.mtime
        /\ row.ino = job.stat.ino

TailCalm == TailRow /\ TailStart /\ TailIds /\ TailStamp /\ TailStored
FullCalm == FullForce /\ FullStamp /\ FullNext /\ FullIds /\ FullRow

CalmInv ==
    /\ FileCalm /\ OnceEach /\ RowCalm /\ StatCalm /\ TailCalm /\ FullCalm

\* A set of natural numbers that is not empty has a least one.
LEMMA Least ==
    ASSUME NEW T \in SUBSET Nat, T # {}
    PROVE  \E m \in T : \A j \in T : m <= j
<1> DEFINE R == { ss \in Nat \X Nat : ss[1] < ss[2] }
<1>1. IsWellFoundedOn(R, Nat)
  BY NatLessThanWellFounded DEF OpToRel
<1> HIDE DEF R
<1>2. PICK m \in T : \A j \in T : <<j, m>> \notin R
  BY <1>1, WFMin
<1>3. \A j \in T : ~(j < m)
  BY <1>2 DEF R
<1> QED
  BY <1>3

\* Every line that is stored is, or updates, a message at or before it: an
\* update with nothing before it is a message of its own.
LEMMA MessageBefore ==
    ASSUME NEW S \in SUBSET Lines, NEW i \in Content(S)
    PROVE  \E j \in Messages(S) : j <= i
<1> DEFINE T == { j \in Content(S) : j <= i }
<1>1. T \in SUBSET Nat /\ i \in T
  <2>1. Lines \subseteq Nat
    BY DEF Lines
  <2>2. i \in Lines /\ Content(S) \subseteq Lines
    BY DEF Content
  <2>3. i \in Nat /\ i <= i
    BY <2>1, <2>2
  <2>4. \A j \in T : j \in Nat
    BY <2>1, <2>2
  <2> QED
    BY <2>3, <2>4
<1>2. PICK m \in T : \A j \in T : m <= j
  BY <1>1, Least
<1>3. \A j \in S : j < m => Kind[j] = "meta"
  <2> SUFFICES ASSUME NEW j \in S, j < m, Kind[j] # "meta" PROVE FALSE
    OBVIOUS
  <2>1. j \in Nat /\ m \in Nat /\ i \in Nat
    BY <1>1 DEF Lines
  <2>2. j \in T
    BY <2>1 DEF Content
  <2> QED
    BY <1>2, <2>1, <2>2
<1>4. m \in S /\ Kind[m] \in {"user", "asst", "link"} /\ m <= i
  <2>1. m \in S /\ Kind[m] # "meta" /\ m <= i
    BY DEF Content
  <2>2. Kind[m] \in Kinds
    BY <2>1
  <2> QED
    BY <2>1, <2>2 DEF Kinds
<1> QED
  BY <1>3, <1>4 DEF Messages

LEMMA NoMessageNoContent ==
    ASSUME NEW S \in SUBSET Lines, Cardinality(Messages(S)) = 0
    PROVE  Content(S) = {}
<1>1. IsFiniteSet(Messages(S))
  <2>1. IsFiniteSet(Lines)
    BY FS_Interval DEF Lines
  <2>2. Messages(S) \subseteq Lines
    BY DEF Messages
  <2> QED
    BY <2>1, <2>2, FS_Subset
<1>2. Messages(S) = {}
  BY <1>1, FS_EmptySet
<1> QED
  BY <1>2, MessageBefore

\* A parse that appends to a row without messages stores everything.
LEMMA AppendedAll ==
    ASSUME TypeOK, row.count = 0
    PROVE  Appended = Content(job.ids)
<1>1. job.ids \in SUBSET Lines
  BY DEF TypeOK, JobType
<1>2. ASSUME NEW i \in Content(job.ids) PROVE Ordinal(job.ids, i) > 0
  <2> DEFINE T == { j \in Messages(job.ids) : j <= i }
  <2>1. IsFiniteSet(T)
    <3>1. T \subseteq Lines
      BY <1>1 DEF Messages
    <3>2. IsFiniteSet(Lines)
      BY FS_Interval DEF Lines
    <3> QED
      BY <3>1, <3>2, FS_Subset
  <2>2. T # {}
    BY <1>1, MessageBefore
  <2>3. Cardinality(T) \in Nat /\ Cardinality(T) # 0
    BY <2>1, <2>2, FS_EmptySet, FS_CardinalityType
  <2> QED
    BY <2>3 DEF Ordinal
<1> QED
  BY <1>2 DEF Appended


LEMMA CalmTypes ==
    ASSUME TypeOK
    PROVE  /\ file.base \in Nat /\ file.len \in Nat /\ file.mtime \in Nat
           /\ file.ino \in Nat /\ file.agent \in Agents
           /\ row.st \in {"none", "live", "trashed"}
           /\ row.size \in Nat /\ row.mtime \in Nat /\ row.ino \in Nat
           /\ row.ver \in Nat /\ row.count \in Nat
           /\ row.copies \in [Lines -> Nat]
           /\ job.stat.size \in Nat /\ job.stat.mtime \in Nat
           /\ job.stat.ino \in Nat /\ job.size \in Nat /\ job.mtime \in Nat
           /\ job.ids \in SUBSET Lines
           /\ curVer \in Nat /\ curVer # 0 /\ Lines \subseteq Nat
<1>1. file \in FileType /\ row \in RowType /\ job \in JobType
      /\ curVer \in 1 .. MaxVer
  BY DEF TypeOK
<1>2. Lines \subseteq Nat
  BY DEF Lines
<1> QED
  BY <1>1, <1>2 DEF FileType, RowType, JobType, StatType

\* The lines of a file that does not end in half a line.
LEMMA LineSets ==
    ASSUME TypeOK, FileCalm
    PROVE  /\ LinesFrom(0) = Known(2 * file.len)
           /\ Size = 2 * file.len /\ Whole(Size)
           /\ \A n : Whole(n) =>
                 /\ n \in Nat /\ n > 0 /\ n <= 2 * file.len
                 /\ LinesFrom(n) = Known(2 * file.len) \ Known(n)
           /\ \A n : LinesFrom(n) \subseteq Lines /\ Known(n) \subseteq Lines
           /\ \A n : \A i \in LinesFrom(n) : /\ i <= file.base + file.len
                                             /\ file.base < i
<1>n. file.base \in Nat /\ file.len \in Nat /\ file.len > 0 /\ Lines \subseteq Nat
  BY CalmTypes DEF FileCalm
<1>1. LinesFrom(0) = Known(2 * file.len)
  <2>1. \A i \in Lines :
           (file.base < i /\ i <= file.base + file.len
               /\ 2 * (i - file.base - 1) >= 0)
              <=> (file.base < i /\ 2 * (i - file.base) <= 2 * file.len)
    BY <1>n
  <2> QED
    BY <2>1 DEF LinesFrom, Known
<1>2. Size = 2 * file.len
  BY <1>n DEF Size, FileCalm
<1>3. Whole(Size)
  <2>1. file.len \in 1 .. file.len
    BY <1>n
  <2> QED
    BY <1>2, <2>1 DEF Whole
<1>4. ASSUME NEW n, Whole(n)
      PROVE  /\ n \in Nat /\ n > 0 /\ n <= 2 * file.len
             /\ LinesFrom(n) = Known(2 * file.len) \ Known(n)
  <2>1. PICK k \in 1 .. file.len : n = 2 * k
    BY <1>4 DEF Whole
  <2>2. k \in Nat /\ k > 0 /\ k <= file.len
    BY <1>n, <2>1
  <2>3. \A i \in Lines :
           (file.base < i /\ i <= file.base + file.len
               /\ 2 * (i - file.base - 1) >= n)
              <=> /\ file.base < i /\ 2 * (i - file.base) <= 2 * file.len
                  /\ ~(file.base < i /\ 2 * (i - file.base) <= n)
    BY <1>n, <2>1, <2>2
  <2>4. LinesFrom(n) = Known(2 * file.len) \ Known(n)
    BY <2>3 DEF LinesFrom, Known
  <2>5. n \in Nat /\ n > 0 /\ n <= 2 * file.len
    BY <1>n, <2>1, <2>2
  <2> QED
    BY <2>4, <2>5
<1>5. \A n : LinesFrom(n) \subseteq Lines /\ Known(n) \subseteq Lines
  BY DEF LinesFrom, Known
<1>6. \A n : \A i \in LinesFrom(n) : /\ i <= file.base + file.len
                                     /\ file.base < i
  BY DEF LinesFrom
<1> QED
  BY <1>1, <1>2, <1>3, <1>4, <1>5, <1>6

LEMMA CalmInit == Init => CalmInv
<1> SUFFICES ASSUME Init PROVE CalmInv
  OBVIOUS
<1>1. row = NoRow /\ row.st = "none" /\ \A i \in Lines : row.copies[i] = 0
  BY DEF Init, NoRow, NoCopies
<1>2. job = NoJob /\ job.pc = "idle"
  BY DEF Init, NoJob
<1>3. file.len = 1 /\ ~file.part /\ file.env \in Envs[file.agent]
      /\ file.base = 0
  BY DEF Init
<1>4. FileCalm /\ OnceEach /\ RowCalm /\ StatCalm
  BY <1>1, <1>2, <1>3 DEF FileCalm, OnceEach, RowCalm, StatCalm
<1>5. TailCalm /\ FullCalm
  BY <1>1, <1>2 DEF TailCalm, TailRow, TailStart, TailIds, TailStamp, TailStored,
                    FullCalm, FullForce, FullStamp, FullNext, FullIds, FullRow,
                    TailRead, ReadPcs
<1> QED
  BY <1>4, <1>5 DEF CalmInv

\* The file is appended to.
LEMMA AppendCalm ==
    ASSUME TypeOK, Calm, CalmInv, Append
    PROVE  CalmInv'
<1>u. /\ UNCHANGED <<row, job, curVer>> /\ job.pc # "fullread"
      /\ file'.base = file.base /\ file'.len = file.len + 1 /\ ~file'.part
      /\ file'.mtime = file.mtime + 1 /\ file'.ino = file.ino
      /\ file'.agent = file.agent /\ file'.env = file.env
  BY DEF Append, Undisturbed, May, Calm, Hazardous, TypeOK, FileType
<1>n. /\ file.base \in Nat /\ file.len \in Nat /\ file.mtime \in Nat
      /\ file.ino \in Nat /\ row.mtime \in Nat /\ job.mtime \in Nat
      /\ job.stat.mtime \in Nat /\ Lines \subseteq Nat
      /\ job.ids \in SUBSET Lines
  BY CalmTypes
<1>w. /\ \A n : Known(n)' = Known(n)
      /\ \A n : Whole(n) => Whole(n)'
      /\ \A S : Holds(S)' <=> Holds(S)
      /\ (Settled' <=> Settled)
  BY <1>u, <1>n DEF Known, Whole, Holds, Settled, Content
<1>1. FileCalm'
  BY <1>u, <1>n DEF CalmInv, FileCalm
<1>2. OnceEach'
  BY <1>u, <1>n DEF CalmInv, OnceEach
<1>3. RowCalm'
  BY <1>u, <1>n, <1>w DEF CalmInv, RowCalm
<1>4. StatCalm'
  BY <1>u, <1>n DEF CalmInv, StatCalm
<1>m. /\ job.pc \in TailRead => job.mtime # file'.mtime
      /\ job.pc \in {"fullread"} \cup ReadPcs =>
            job.mtime # file'.mtime /\ job.mtime <= file'.mtime
  <2>1. job.pc # "idle" => job.stat.mtime # file'.mtime
    BY <1>u, <1>n DEF CalmInv, StatCalm
  <2>2. job.pc \in TailRead => job.pc # "idle" /\ job.mtime = job.stat.mtime
    BY DEF CalmInv, TailCalm, TailStamp, StatCalm, TailRead
  <2>3. job.pc \in {"fullread"} \cup ReadPcs => job.mtime <= file.mtime
    BY DEF CalmInv, FullCalm, FullStamp
  <2> QED
    BY <1>u, <1>n, <2>1, <2>2, <2>3
<1>i. (\A i \in job.ids : i <= file.base + file.len)
         => \A i \in job.ids : i <= file'.base + file'.len
  <2>1. \A i \in Nat : i <= file.base + file.len => i <= file'.base + file'.len
    BY <1>u, <1>n
  <2>2. \A i \in job.ids : i \in Nat
    BY <1>n
  <2> QED
    BY <2>1, <2>2
<1>c. TailCalm /\ FullCalm /\ StatCalm
  BY DEF CalmInv
<1>5. TailCalm'
  <2>1. TailRow' /\ TailStart'
    BY <1>u, <1>c DEF TailCalm, TailRow, TailStart, TailRead
  <2>2. TailIds'
    BY <1>u, <1>w, <1>c DEF TailCalm, TailIds
  <2>3. TailStamp'
    BY <1>u, <1>w, <1>m, <1>i, <1>c DEF TailCalm, TailStamp, TailRead
  <2>4. TailStored'
    BY <1>u, <1>w, <1>c DEF TailCalm, TailStored
  <2> QED
    BY <2>1, <2>2, <2>3, <2>4 DEF TailCalm
<1>6. FullCalm'
  <2>1. FullForce'
    BY <1>u, <1>c DEF FullCalm, FullForce, ReadPcs
  <2>2. FullStamp'
    BY <1>u, <1>m, <1>c DEF FullCalm, FullStamp, ReadPcs
  <2>3. FullNext'
    BY <1>u DEF FullNext
  <2>4. FullIds'
    BY <1>u, <1>w, <1>m, <1>i, <1>c DEF FullCalm, FullIds, ReadPcs
  <2>5. FullRow'
    BY <1>u, <1>c DEF FullCalm, FullRow
  <2> QED
    BY <2>1, <2>2, <2>3, <2>4, <2>5 DEF FullCalm
<1> QED
  BY <1>1, <1>2, <1>3, <1>4, <1>5, <1>6 DEF CalmInv

\* The file is replaced: nothing that is stored or read is of it.
LEMMA ReplaceCalm ==
    ASSUME TypeOK, Calm, CalmInv, NEW n \in 1 .. MaxLine, Replace(n)
    PROVE  CalmInv'
<1>n. /\ file.base \in Nat /\ file.len \in Nat /\ file.mtime \in Nat
      /\ file.ino \in Nat /\ row.mtime \in Nat /\ job.mtime \in Nat
      /\ row.ino \in Nat /\ job.stat.ino \in Nat
      /\ job.stat.mtime \in Nat /\ Lines \subseteq Nat
      /\ job.ids \in SUBSET Lines /\ n \in Nat /\ n > 0
  BY CalmTypes
<1>u. /\ UNCHANGED <<row, job, curVer>>
      /\ file'.base = file.base + file.len /\ file'.len = n /\ ~file'.part
      /\ file'.mtime = file.mtime + 1 /\ file'.ino = file.ino + 1
      /\ file'.agent = file.agent /\ file'.env = file.env
  BY <1>n DEF Replace, TypeOK, FileType, Top, CalmInv, FileCalm
<1>w. Settled' <=> Settled
  BY <1>u DEF Settled
<1>1. FileCalm'
  BY <1>u, <1>n DEF CalmInv, FileCalm
<1>2. OnceEach'
  BY <1>u, <1>n DEF CalmInv, OnceEach
<1>3. RowCalm'
  BY <1>u, <1>n, <1>w DEF CalmInv, RowCalm
<1>4. StatCalm'
  BY <1>u, <1>n DEF CalmInv, StatCalm
<1>m. /\ job.pc \in TailRead => job.mtime # file'.mtime
      /\ job.pc \in {"fullread"} \cup ReadPcs =>
            job.mtime # file'.mtime /\ job.mtime <= file'.mtime
      /\ job.pc # "idle" => job.stat.ino # file'.ino
      /\ row.st # "none" => row.ino # file'.ino
  <2>1. job.pc # "idle" => /\ job.stat.mtime # file'.mtime
                           /\ job.stat.ino # file'.ino
    BY <1>u, <1>n DEF CalmInv, StatCalm
  <2>2. job.pc \in TailRead => job.pc # "idle" /\ job.mtime = job.stat.mtime
    BY DEF CalmInv, TailCalm, TailStamp, StatCalm, TailRead
  <2>3. job.pc \in {"fullread"} \cup ReadPcs => job.mtime <= file.mtime
    BY DEF CalmInv, FullCalm, FullStamp
  <2>4. row.st # "none" => row.ino # file'.ino
    BY <1>u, <1>n DEF CalmInv, RowCalm
  <2> QED
    BY <1>u, <1>n, <2>1, <2>2, <2>3, <2>4
<1>i. (\A i \in job.ids : i <= file.base + file.len)
         => \A i \in job.ids : i <= file'.base + file'.len
  <2>1. \A i \in Nat : i <= file.base + file.len => i <= file'.base + file'.len
    BY <1>u, <1>n
  <2>2. \A i \in job.ids : i \in Nat
    BY <1>n
  <2> QED
    BY <2>1, <2>2
<1>p. /\ job.pc \in {"fullread"} \cup ReadPcs => job.pc # "idle"
      /\ job.pc \in {"tail", "collectinc", "incmsgs"} \cup TailRead
            => job.pc # "idle"
      /\ \A i \in Lines : row.copies[i] # 0 => i <= file'.base
  BY <1>u DEF TailRead, ReadPcs, CalmInv, OnceEach
<1>c. TailCalm /\ FullCalm /\ StatCalm
  BY DEF CalmInv
<1>5. TailCalm'
  <2>1. TailRow'
    BY <1>u, <1>c DEF TailCalm, TailRow, TailRead
  <2>2. TailStart'
    BY <1>u, <1>p, <1>c DEF TailCalm, TailStart
  <2>3. TailIds'
    BY <1>u, <1>m, <1>c DEF TailCalm, TailIds
  <2>4. TailStamp'
    BY <1>u, <1>m, <1>i, <1>p, <1>c DEF TailCalm, TailStamp, TailRead
  <2>5. TailStored'
    BY <1>u, <1>m, <1>c DEF TailCalm, TailStored
  <2> QED
    BY <2>1, <2>2, <2>3, <2>4, <2>5 DEF TailCalm
<1>6. FullCalm'
  <2>1. FullForce'
    BY <1>u, <1>c DEF FullCalm, FullForce, ReadPcs
  <2>2. FullStamp'
    BY <1>u, <1>m, <1>c DEF FullCalm, FullStamp, ReadPcs
  <2>3. FullNext'
    BY <1>u, <1>m, <1>p DEF FullNext
  <2>4. FullIds'
    BY <1>u, <1>m, <1>p, <1>i, <1>c DEF FullCalm, FullIds, ReadPcs
  <2>5. FullRow'
    BY <1>u, <1>c DEF FullCalm, FullRow
  <2> QED
    BY <2>1, <2>2, <2>3, <2>4, <2>5 DEF FullCalm
<1> QED
  BY <1>1, <1>2, <1>3, <1>4, <1>5, <1>6 DEF CalmInv

\* Users trash, restore and delete.
LEMMA UsersCalm ==
    ASSUME TypeOK, Calm, Mild, CalmInv,
           SoftDeleteSession \/ RestoreSession \/ DeleteSession
    PROVE  CalmInv'
<1>u. UNCHANGED <<file, job, curVer>>
  BY DEF SoftDeleteSession, RestoreSession, DeleteSession
<1>1. CASE SoftDeleteSession \/ RestoreSession
  <2>1. /\ row.st # "none" /\ row'.st # "none"
        /\ row'.size = row.size /\ row'.mtime = row.mtime
        /\ row'.ino = row.ino /\ row'.ver = row.ver
        /\ row'.copies = row.copies /\ row'.count = row.count
        /\ (row'.st = "trashed" => May("trash"))
    BY <1>1 DEF SoftDeleteSession, RestoreSession, TypeOK, RowType
  <2>2. /\ \A n : Known(n)' = Known(n) /\ (Whole(n)' <=> Whole(n))
        /\ \A S : Holds(S)' <=> Holds(S)
        /\ LinesFrom(0)' = LinesFrom(0) /\ (Settled' <=> Settled)
    BY <1>u, <2>1 DEF Known, Whole, Holds, LinesFrom, Settled, Content
  <2>3. FileCalm'
    <3>1. May("trash") => file.agent = "claude"
      BY CalmTypes DEF Mild, Calm, CalmInv, FileCalm, May
    <3> QED
      BY <1>u, <2>1, <3>1 DEF CalmInv, FileCalm
  <2>4. OnceEach' /\ RowCalm' /\ StatCalm'
    BY <1>u, <2>1, <2>2 DEF CalmInv, OnceEach, RowCalm, StatCalm
  <2>5. TailCalm' /\ FullCalm'
    BY <1>u, <2>1, <2>2 DEF CalmInv, TailCalm, FullCalm, TailRow, TailStart,
           TailIds, TailStamp, TailStored, FullForce, FullStamp, FullNext,
           FullIds, FullRow
  <2> QED
    BY <2>3, <2>4, <2>5 DEF CalmInv
<1>2. CASE DeleteSession
  <2>1. /\ row' = NoRow /\ row'.st = "none"
        /\ \A i \in Lines : row'.copies[i] = 0
    BY <1>2 DEF DeleteSession, NoRow, NoCopies
  <2>2. LinesFrom(0)' = LinesFrom(0) /\ \A n : /\ Known(n)' = Known(n)
                                               /\ (Whole(n)' <=> Whole(n))
    BY <1>u DEF LinesFrom, Known, Whole
  <2>3. \A i \in job.ids : i \in Lines
    BY CalmTypes
  <2>4. FileCalm' /\ OnceEach' /\ RowCalm' /\ StatCalm'
    BY <1>u, <2>1 DEF CalmInv, FileCalm, OnceEach, RowCalm, StatCalm
  <2>5. TailCalm'
    BY <1>u, <2>1, <2>2, <2>3 DEF CalmInv, TailCalm, TailRow, TailStart, TailIds,
           TailStamp, TailStored, TailRead
  <2>6. FullCalm'
    BY <1>u, <2>1, <2>2 DEF CalmInv, FullCalm, FullForce, FullStamp, FullNext,
           FullIds, FullRow, ReadPcs
  <2> QED
    BY <2>4, <2>5, <2>6 DEF CalmInv
<1> QED
  BY <1>1, <1>2


LEMMA SameFile ==
    ASSUME UNCHANGED file
    PROVE  /\ \A n : /\ Known(n)' = Known(n) /\ (Whole(n)' <=> Whole(n))
                     /\ LinesFrom(n)' = LinesFrom(n)
           /\ row'.copies = row.copies => \A S : Holds(S)' <=> Holds(S)
  BY DEF Known, Whole, LinesFrom, Holds, Content

\* A step that only changes what the sync knows, before it writes.
LEMMA JobOnly ==
    ASSUME TypeOK, CalmInv, UNCHANGED <<file, row, curVer>>,
           job.pc \notin {"msgs", "setver", "incrow"},
           job'.pc # "idle" =>
               \/ job.pc # "idle" /\ job'.stat = job.stat
               \/ job'.stat = Stat
    PROVE  FileCalm' /\ OnceEach' /\ RowCalm' /\ StatCalm'
<1>1. FileCalm' /\ OnceEach'
  BY DEF CalmInv, FileCalm, OnceEach
<1>2. RowCalm'
  BY SameFile DEF CalmInv, RowCalm, Settled
<1>3. StatCalm'
  <2>1. CASE job'.stat = Stat
    BY <2>1, CalmTypes DEF StatCalm, Stat
  <2>2. CASE job'.stat = job.stat /\ job.pc # "idle"
    BY <2>2 DEF CalmInv, StatCalm
  <2>3. CASE job'.pc = "idle"
    BY <2>3 DEF StatCalm
  <2> QED
    BY <2>1, <2>2, <2>3
<1> QED
  BY <1>1, <1>2, <1>3

\* A sync that has ended, or is about to, promises nothing.
LEMMA Ended ==
    ASSUME job'.pc \in {"finish", "idle", "setver"}
    PROVE  TailCalm' /\ FullCalm'
  BY DEF TailCalm, TailRow, TailStart, TailIds, TailStamp, TailStored,
         FullCalm, FullForce, FullStamp, FullNext, FullIds, FullRow,
         TailRead, ReadPcs

\* The sync decides.
LEMMA StartCalm ==
    ASSUME TypeOK, CalmInv, NEW m \in Modes, NEW r \in Reparses, Start(m, r)
    PROVE  CalmInv'
<1>u. UNCHANGED <<file, row, curVer>> /\ job.pc = "idle"
  BY DEF Start
<1>s. ASSUME NEW pc, NEW force, StartAs(m, pc, force)
      PROVE  /\ job'.pc = pc /\ job'.force = force /\ job'.stat = Stat
             /\ job'.size = row.size
  BY <1>s DEF StartAs, NoJob
<1>a. job'.stat = Stat
  BY <1>s DEF Start
<1>b. FileCalm' /\ OnceEach' /\ RowCalm' /\ StatCalm'
  BY <1>u, <1>a, JobOnly
<1>1. CASE StartAs(m, "finish", FALSE)
  <2>1. job'.pc = "finish"
    BY <1>1, <1>s
  <2> QED
    BY <1>b, <2>1, Ended DEF CalmInv
<1>2. CASE CanAppend(r) /\ StartAs(m, "tail", file.agent = "claude")
  <2>1. /\ job'.pc = "tail" /\ job'.stat = Stat /\ job'.size = row.size
        /\ job'.force = (file.agent = "claude")
    BY <1>2, <1>s
  <2>2. row.ino = file.ino /\ row.count > 0 /\ Stat.ino = file.ino
    BY <1>2, CalmTypes DEF CanAppend, NotAnAppend, Stat
  <2>3. TailRow' /\ TailStart'
    BY <1>u, <2>1, <2>2 DEF TailRow, TailStart
  <2>4. TailIds' /\ TailStamp' /\ TailStored'
    BY <2>1 DEF TailIds, TailStamp, TailStored, TailRead
  <2>5. FullCalm'
    BY <2>1 DEF FullCalm, FullForce, FullStamp, FullNext, FullIds, FullRow,
                ReadPcs
  <2> QED
    BY <1>b, <2>3, <2>4, <2>5 DEF CalmInv, TailCalm
<1>3. CASE ~CanAppend(r) /\ StartAs(m, "fullstat", MustReplace(r))
  <2>1. job'.pc = "fullstat" /\ job'.force = MustReplace(r)
    BY <1>3, <1>s
  <2>2. \/ MustReplace(r) \/ row.st = "none"
        \/ row.count = 0 /\ row.copies = NoCopies
        \/ 0 < row.ver /\ row.ver < curVer
    <3> SUFFICES ASSUME ~MustReplace(r), row.st # "none",
                        ~(0 < row.ver /\ row.ver < curVer)
                 PROVE  row.count = 0 /\ row.copies = NoCopies
      OBVIOUS
    <3>1. file.agent # "claude" /\ ~(KnownOffset(r) /\ NotAnAppend)
      BY DEF MustReplace
    <3>2. ~r
      BY <3>1 DEF Reparses
    <3>3. row.st = "live"
      BY <3>1, CalmTypes DEF CalmInv, FileCalm
    <3>4. row.size > 0 /\ row.ver > 0
          /\ (row.count = 0 => row.copies = NoCopies)
      BY <1>u DEF CalmInv, RowCalm, Settled
    <3>5. row.ver >= curVer
      BY <3>4, CalmTypes
    <3>6. KnownOffset(r)
      BY <3>2, <3>3, <3>4, <3>5 DEF KnownOffset
    <3>7. row.count = 0
      BY <1>3, <3>1, <3>6, CalmTypes DEF CanAppend
    <3> QED
      BY <3>4, <3>7
  <2>3. FullForce'
    BY <1>u, <2>1, <2>2 DEF FullForce
  <2>4. FullStamp' /\ FullNext' /\ FullIds' /\ FullRow'
    BY <2>1 DEF FullStamp, FullNext, FullIds, FullRow, ReadPcs
  <2>5. TailCalm'
    BY <2>1 DEF TailCalm, TailRow, TailStart, TailIds, TailStamp, TailStored,
                TailRead
  <2> QED
    BY <1>b, <2>3, <2>4, <2>5 DEF CalmInv, FullCalm
<1> QED
  BY <1>1, <1>2, <1>3 DEF Start

\* The tail is read.
LEMMA ReadTailCalm ==
    ASSUME TypeOK, CalmInv, ReadTail
    PROVE  CalmInv'
<1>u. UNCHANGED <<file, row, curVer>> /\ job.pc = "tail"
  BY DEF ReadTail
<1>j. job \in JobType
  BY DEF TypeOK
<1>a. job'.stat = job.stat
  BY <1>j DEF ReadTail, JobType
<1>b. FileCalm' /\ OnceEach' /\ RowCalm' /\ StatCalm'
  BY <1>u, <1>a, JobOnly
<1>c. FileCalm /\ OnceEach /\ RowCalm /\ StatCalm /\ TailCalm
  BY DEF CalmInv
<1> DEFINE S == LinesFrom(job.size)
<1>1. CASE /\ ~TailNeedsFullParse(S) /\ job'.pc = "collectinc"
           /\ job'.ids = S /\ job'.size = 2 * file.len
           /\ job'.mtime = job.stat.mtime
  <2>1. TailRow'
    BY <1>u, <1>a, <1>c, <1>1 DEF TailCalm, TailRow
  <2>2. TailStart' /\ TailStored'
    BY <1>1 DEF TailStart, TailStored
  <2>3. ASSUME row.st # "none", row.ino = file.ino
        PROVE  /\ S = Known(2 * file.len) \ Known(row.size)
               /\ row.size <= 2 * file.len /\ Holds(Known(row.size))
    <3>1. job.size = row.size
      BY <1>u, <1>c, <2>3 DEF TailCalm, TailStart
    <3>2. Whole(row.size) /\ Holds(Known(row.size))
      BY <1>u, <1>c, <2>3 DEF RowCalm, Settled
    <3> QED
      BY <1>c, <3>1, <3>2, LineSets
  <2>4. ASSUME NEW i \in S PROVE row.copies[i] = 0 /\ Kind[i] # "link"
    <3>1. Kind[i] # "link"
      BY <1>1 DEF TailNeedsFullParse
    <3>2. i \in Lines /\ file.base < i
      BY <1>c, LineSets
    <3>n. i \in Nat /\ file.base \in Nat
      BY <3>2, CalmTypes
    <3>3. CASE row.st = "none"
      BY <1>c, <3>1, <3>2, <3>3 DEF OnceEach, NoRow, NoCopies
    <3>4. CASE row.st # "none" /\ row.ino = file.ino
      <4>1. i \notin Known(row.size) /\ Holds(Known(row.size))
        BY <2>3, <3>4
      <4>2. i \notin Content(Known(row.size))
        BY <4>1 DEF Content
      <4> QED
        BY <3>1, <3>2, <4>1, <4>2 DEF Holds
    <3>5. CASE row.st # "none" /\ row.ino # file.ino
      <4>1. job.stat.ino # file.ino
        BY <1>u, <1>c, <3>5 DEF TailCalm, TailRow
      <4>2. row.copies[i] # 0 => i <= file.base
        BY <1>u, <1>c, <3>2, <4>1 DEF TailCalm, TailStart
      <4> QED
        BY <3>1, <3>2, <3>n, <4>2
    <3> QED
      BY <3>3, <3>4, <3>5
  <2>5. TailIds'
    <3>1. \A n : Known(n)' = Known(n)
      BY <1>u, SameFile
    <3> QED
      BY <1>u, <1>1, <2>3, <2>4, <3>1 DEF TailIds
  <2>6. TailStamp'
    <3>1. \A n : Whole(n)' <=> Whole(n)
      BY <1>u, SameFile
    <3>2. Whole(2 * file.len) /\ 2 * file.len > 0
      BY <1>c, LineSets
    <3>3. \A i \in S : i <= file.base + file.len
      BY <1>c, LineSets
    <3> QED
      BY <1>u, <1>a, <1>1, <3>1, <3>2, <3>3 DEF TailStamp
  <2>7. FullCalm'
    BY <1>1 DEF FullCalm, FullForce, FullStamp, FullNext, FullIds, FullRow,
                ReadPcs
  <2> QED
    BY <1>b, <2>1, <2>2, <2>5, <2>6, <2>7 DEF CalmInv, TailCalm
<1>2. CASE job'.pc = "fullstat" /\ job'.force
  <2>1. FullCalm'
    BY <1>2 DEF FullCalm, FullForce, FullStamp, FullNext, FullIds, FullRow,
                ReadPcs
  <2>2. TailCalm'
    BY <1>2 DEF TailCalm, TailRow, TailStart, TailIds, TailStamp, TailStored,
                TailRead
  <2> QED
    BY <1>b, <2>1, <2>2 DEF CalmInv
<1>3. CASE job'.pc = "finish"
  BY <1>b, <1>3, Ended DEF CalmInv
<1> QED
  <2>1. \/ /\ ~TailNeedsFullParse(S) /\ job'.pc = "collectinc"
           /\ job'.ids = S /\ job'.size = 2 * file.len
           /\ job'.mtime = job.stat.mtime
        \/ job'.pc = "fullstat" /\ job'.force
        \/ job'.pc = "finish"
    BY <1>j DEF ReadTail, JobType
  <2> QED
    BY <1>1, <1>2, <1>3, <2>1


\* Reading fails, the whole file is read, and the collector hands on.
LEMMA ReadCalm ==
    ASSUME TypeOK, Calm, Mild, CalmInv,
           ReadTailError \/ FullStat \/ FullRead \/ FullReadError
               \/ Collect \/ Finish
    PROVE  CalmInv'
<1>u. /\ UNCHANGED <<file, row, curVer>>
      /\ job.pc \in {"tail", "fullstat", "fullread", "collectfull",
                     "collectinc", "finish"}
  BY DEF ReadTailError, FullStat, FullRead, FullReadError, Collect, Finish
<1>j. job \in JobType
  BY DEF TypeOK
<1>a. job'.stat = job.stat \/ job'.pc = "idle"
  <2>1. CASE Finish
    BY <2>1 DEF Finish, NoJob
  <2>2. CASE ReadTailError \/ FullStat \/ FullRead \/ FullReadError \/ Collect
    BY <1>j, <2>2 DEF ReadTailError, FullStat, FullRead, FullReadError,
                      Collect, JobType
  <2> QED
    BY <2>1, <2>2
<1>b. FileCalm' /\ OnceEach' /\ RowCalm' /\ StatCalm'
  BY <1>u, <1>a, JobOnly
<1>c. FileCalm /\ OnceEach /\ RowCalm /\ StatCalm /\ TailCalm /\ FullCalm
  BY DEF CalmInv
<1>w. \A n : /\ Known(n)' = Known(n) /\ (Whole(n)' <=> Whole(n))
             /\ LinesFrom(n)' = LinesFrom(n)
  BY <1>u, SameFile
<1>n. /\ file.mtime \in Nat /\ file.len \in Nat /\ file.len > 0
      /\ 2 * file.len > 0 /\ file.mtime <= file.mtime
  BY <1>c, CalmTypes DEF FileCalm
<1>1. CASE ReadTailError
  <2>1. job.pc = "tail" /\ job'.pc = "fullstat" /\ job'.force = job.force
    BY <1>1, <1>j DEF ReadTailError, JobType
  <2>2. file.agent = "claude"
    BY <1>1, <1>c, CalmTypes DEF ReadTailError, Fault, May, Mild, Calm, FileCalm
  <2>3. job.force
    BY <1>c, <2>1, <2>2 DEF TailCalm, TailStart
  <2>4. FullCalm'
    BY <2>1, <2>3 DEF FullCalm, FullForce, FullStamp, FullNext, FullIds,
                      FullRow, ReadPcs
  <2>5. TailCalm'
    BY <2>1 DEF TailCalm, TailRow, TailStart, TailIds, TailStamp, TailStored,
                TailRead
  <2> QED
    BY <1>b, <2>4, <2>5 DEF CalmInv
<1>2. CASE FullStat
  <2>1. /\ job.pc = "fullstat" /\ job'.pc = "fullread"
        /\ job'.force = job.force /\ job'.size = 2 * file.len
        /\ job'.mtime = file.mtime
    BY <1>2, <1>c, <1>j, LineSets DEF FullStat, JobType
  <2>2. FullForce'
    BY <1>u, <1>c, <2>1 DEF FullCalm, FullForce
  <2>3. FullStamp' /\ FullNext'
    BY <1>u, <1>n, <2>1 DEF FullStamp, FullNext
  <2>4. FullIds' /\ FullRow'
    BY <2>1 DEF FullIds, FullRow, ReadPcs
  <2>5. TailCalm'
    BY <2>1 DEF TailCalm, TailRow, TailStart, TailIds, TailStamp, TailStored,
                TailRead
  <2> QED
    BY <1>b, <2>2, <2>3, <2>4, <2>5 DEF CalmInv, FullCalm
<1>3. CASE FullRead
  <2>1. /\ job.pc = "fullread" /\ job'.pc = "collectfull"
        /\ job'.force = job.force /\ job'.size = job.size
        /\ job'.mtime = job.mtime /\ job'.stat = job.stat
        /\ job'.ids = LinesFrom(0)
    BY <1>3, <1>j DEF FullRead, JobType
  <2>2. FullForce' /\ FullStamp'
    BY <1>u, <1>c, <2>1 DEF FullCalm, FullForce, FullStamp, ReadPcs
  <2>3. FullIds'
    <3>1. LinesFrom(0) = Known(2 * file.len) /\ Whole(2 * file.len)
          /\ \A i \in LinesFrom(0) : i <= file.base + file.len
      BY <1>c, LineSets
    <3>2. job.stat.ino = file.ino => job.size = 2 * file.len
      BY <1>c, <2>1 DEF FullCalm, FullNext
    <3> QED
      BY <1>u, <1>w, <2>1, <3>1, <3>2 DEF FullIds
  <2>4. FullNext' /\ FullRow'
    BY <2>1 DEF FullNext, FullRow
  <2>5. TailCalm'
    BY <2>1 DEF TailCalm, TailRow, TailStart, TailIds, TailStamp, TailStored,
                TailRead
  <2> QED
    BY <1>b, <2>2, <2>3, <2>4, <2>5 DEF CalmInv, FullCalm
<1>4. CASE FullReadError \/ Finish
  <2>1. job'.pc \in {"finish", "idle"}
    BY <1>4, <1>j DEF FullReadError, Finish, JobType, NoJob
  <2> QED
    BY <1>b, <2>1, Ended DEF CalmInv
<1>5. CASE Collect
  <2>1. /\ \/ job.pc = "collectfull" /\ job'.pc = "upsert"
           \/ job.pc = "collectinc" /\ job'.pc = "incmsgs"
        /\ job'.force = job.force /\ job'.size = job.size
        /\ job'.mtime = job.mtime /\ job'.stat = job.stat
        /\ job'.ids = job.ids
    BY <1>5, <1>j DEF Collect, JobType
  <2>2. FullForce' /\ FullStamp'
    BY <1>u, <1>c, <2>1 DEF FullCalm, FullForce, FullStamp, ReadPcs
  <2>3. FullIds'
    BY <1>u, <1>c, <1>w, <2>1 DEF FullCalm, FullIds, ReadPcs
  <2>4. FullNext' /\ FullRow' /\ TailStart' /\ TailStored'
    BY <2>1 DEF FullNext, FullRow, TailStart, TailStored
  <2>5. TailRow'
    BY <1>u, <1>c, <2>1 DEF TailCalm, TailRow, TailRead
  <2>6. TailIds'
    BY <1>u, <1>c, <1>w, <2>1 DEF TailCalm, TailIds
  <2>7. TailStamp'
    BY <1>u, <1>c, <1>w, <2>1 DEF TailCalm, TailStamp, TailRead
  <2> QED
    BY <1>b, <2>2, <2>3, <2>4, <2>5, <2>6, <2>7 DEF CalmInv, FullCalm, TailCalm
<1> QED
  BY <1>1, <1>2, <1>3, <1>4, <1>5

\* The row of a full parse.
LEMMA UpsertCalm ==
    ASSUME TypeOK, CalmInv, UpsertSession
    PROVE  CalmInv'
<1>u. UNCHANGED <<file, curVer>> /\ job.pc = "upsert"
  BY DEF UpsertSession
<1>t. job \in JobType /\ row \in RowType
  BY DEF TypeOK
<1>c. FileCalm /\ OnceEach /\ RowCalm /\ StatCalm /\ TailCalm /\ FullCalm
  BY DEF CalmInv
<1>1. CASE UNCHANGED row /\ job' = [job EXCEPT !.pc = "finish"]
  <2>1. job'.pc = "finish" /\ job'.stat = job.stat
    BY <1>1, <1>t DEF JobType
  <2>2. FileCalm' /\ OnceEach' /\ RowCalm' /\ StatCalm'
    BY <1>u, <1>1, <2>1, JobOnly
  <2> QED
    BY <2>1, <2>2, Ended DEF CalmInv
<1>2. CASE /\ row' = [row EXCEPT !.st = "live", !.size = job.size,
                        !.mtime = job.mtime, !.ino = job.stat.ino,
                        !.hash = job.hash]
           /\ job' = [job EXCEPT !.pc = "msgs"]
  <2>1. /\ job'.pc = "msgs" /\ job'.force = job.force /\ job'.size = job.size
        /\ job'.mtime = job.mtime /\ job'.stat = job.stat
        /\ job'.ids = job.ids
    BY <1>2, <1>t DEF JobType
  <2>2. /\ row'.st = "live" /\ row'.size = job.size /\ row'.mtime = job.mtime
        /\ row'.ino = job.stat.ino /\ row'.ver = row.ver
        /\ row'.copies = row.copies /\ row'.count = row.count
    BY <1>2, <1>t DEF RowType
  <2>3. FileCalm' /\ OnceEach' /\ StatCalm'
    BY <1>u, <1>c, <2>1, <2>2 DEF FileCalm, OnceEach, StatCalm
  <2>4. RowCalm'
    <3>1. job.stat.ino <= file.ino /\ job.mtime <= file.mtime /\ job.size > 0
      BY <1>u, <1>c DEF StatCalm, FullCalm, FullStamp, ReadPcs
    <3> QED
      BY <1>u, <2>1, <2>2, <3>1 DEF RowCalm, Settled
  <2>5. FullForce'
    <3>1. row.st = "none" => row.count = 0 /\ row.copies = NoCopies
      BY <1>c DEF OnceEach, NoRow
    <3> QED
      BY <1>u, <1>c, <2>1, <2>2, <3>1 DEF FullCalm, FullForce, ReadPcs
  <2>6. FullStamp' /\ FullNext' /\ FullRow'
    BY <1>u, <1>c, <2>1, <2>2 DEF FullCalm, FullStamp, FullNext, FullRow, ReadPcs
  <2>7. FullIds'
    <3>1. \A n : /\ Known(n)' = Known(n) /\ (Whole(n)' <=> Whole(n))
                 /\ LinesFrom(n)' = LinesFrom(n)
      BY <1>u, SameFile
    <3> QED
      BY <1>u, <1>c, <2>1, <3>1 DEF FullCalm, FullIds, ReadPcs
  <2>8. TailCalm'
    BY <2>1 DEF TailCalm, TailRow, TailStart, TailIds, TailStamp, TailStored,
                TailRead
  <2> QED
    BY <2>3, <2>4, <2>5, <2>6, <2>7, <2>8 DEF CalmInv, FullCalm
<1> QED
  BY <1>1, <1>2 DEF UpsertSession

\* The messages of a full parse.
LEMMA WriteCalm ==
    ASSUME TypeOK, CalmInv, WriteMessages
    PROVE  CalmInv'
<1>u. UNCHANGED <<file, curVer>> /\ job.pc = "msgs"
  BY DEF WriteMessages
<1>t. job \in JobType /\ row \in RowType /\ job.ids \in SUBSET Lines
  BY DEF TypeOK, JobType
<1>c. FileCalm /\ OnceEach /\ RowCalm /\ StatCalm /\ TailCalm /\ FullCalm
  BY DEF CalmInv
<1>w. \A n : /\ Known(n)' = Known(n) /\ (Whole(n)' <=> Whole(n))
             /\ LinesFrom(n)' = LinesFrom(n)
  BY <1>u, SameFile
<1>a. job'.pc \in {"setver", "finish"} /\ job'.stat = job.stat
      /\ (row.st # "none" => job'.pc = "setver")
  BY <1>t DEF WriteMessages, JobType
<1>b. FileCalm' /\ StatCalm' /\ TailCalm' /\ FullCalm'
  <2>1. row'.st = row.st
    BY <1>t DEF WriteMessages, RowType
  <2>2. FileCalm' /\ StatCalm'
    BY <1>u, <1>c, <1>a, <2>1 DEF FileCalm, StatCalm
  <2> QED
    BY <1>a, <2>2, Ended
<1>1. CASE row.st = "none"
  <2>1. row' = row
    BY <1>1 DEF WriteMessages
  <2>2. OnceEach' /\ RowCalm'
    BY <1>u, <1>c, <1>1, <2>1 DEF OnceEach, RowCalm
  <2> QED
    BY <1>b, <2>2 DEF CalmInv
<1>2. CASE row.st # "none"
  <2> DEFINE C == Content(job.ids)
  <2>1. /\ row'.st = row.st /\ row'.size = row.size
        /\ row'.mtime = row.mtime /\ row'.ino = row.ino
    BY <1>t DEF WriteMessages, RowType
  <2>2. /\ row'.copies = Copies(C) /\ (row'.count = 0 => C = {})
    <3>1. CASE ReplaceMessages
      <4>1. /\ row'.copies = Copies(C)
            /\ row'.count = Cardinality(Messages(job.ids))
        BY <1>2, <1>t, <3>1 DEF WriteMessages, RowType
      <4> QED
        BY <1>t, <4>1, NoMessageNoContent
    <3>2. CASE ~ReplaceMessages
      <4>1. row.count = 0 /\ row.copies = NoCopies
        BY <1>u, <1>c, <1>2, <3>2
           DEF FullCalm, FullForce, ReadPcs, ReplaceMessages, Stale
      <4>2. Appended = C
        BY <4>1, AppendedAll
      <4>3. /\ row'.copies = Plus(NoCopies, C)
            /\ row'.count = 0 + Cardinality(Messages(C))
        BY <1>2, <1>t, <3>2, <4>1, <4>2 DEF WriteMessages, RowType
      <4>4. Plus(NoCopies, C) = Copies(C)
        BY DEF Plus, NoCopies, Copies
      <4>5. C \in SUBSET Lines /\ Content(C) = C
        BY <1>t DEF Content
      <4>6. Cardinality(Messages(C)) \in Nat
        BY <4>5, CountType
      <4> QED
        BY <4>3, <4>4, <4>5, <4>6, NoMessageNoContent
    <3> QED
      BY <3>1, <3>2
  <2>3. \A i \in Lines : row'.copies[i] = IF i \in C THEN 1 ELSE 0
    BY <2>2 DEF Copies
  <2>4. \A i \in job.ids : i <= file.base + file.len
    BY <1>u, <1>c DEF FullCalm, FullIds, ReadPcs
  <2>5. OnceEach'
    <3>1. \A i \in C : i \in job.ids
      BY DEF Content
    <3>2. \A i \in Lines : row'.copies[i] <= 1
      BY <2>3
    <3>3. \A i \in Lines : row'.copies[i] # 0 => i \in job.ids
      BY <2>3, <3>1
    <3> QED
      BY <1>u, <1>2, <2>1, <2>4, <3>2, <3>3 DEF OnceEach
  <2>6. \A S : S = job.ids => Holds(S)'
    BY <2>3 DEF Holds, Content
  <2>7. /\ row.size = job.size /\ row.mtime = job.mtime
        /\ row.ino = job.stat.ino
    BY <1>u, <1>c, <1>2 DEF FullCalm, FullRow
  <2>8. row'.ino = file'.ino => Whole(row.size)' /\ Holds(Known(row.size))'
    <3>1. row'.ino = file'.ino =>
             job.ids = Known(job.size) /\ Whole(job.size)
      BY <1>u, <1>c, <2>1, <2>7 DEF FullCalm, FullIds, ReadPcs
    <3>2. row'.size = job.size
      BY <2>1, <2>7
    <3>3. Known(row.size)' = Known(job.size)
          /\ (Whole(row.size)' <=> Whole(job.size))
      BY <1>w, <3>2
    <3> QED
      BY <2>6, <3>1, <3>3
  <2>9. row'.mtime = file'.mtime => Holds(LinesFrom(0))'
    <3>1. row'.mtime = file'.mtime => job.ids = LinesFrom(0)
      BY <1>u, <1>c, <2>1, <2>7 DEF FullCalm, FullIds, ReadPcs
    <3> QED
      BY <1>w, <2>6, <3>1
  <2>10. row'.count = 0 => row'.copies = NoCopies
    BY <2>2 DEF Copies, NoCopies
  <2>11. RowCalm'
    <3>1. row.ino <= file.ino /\ row.mtime <= file.mtime /\ row.size > 0
      BY <1>c, <1>2 DEF RowCalm
    <3> QED
      BY <1>u, <1>a, <1>2, <2>1, <2>8, <2>9, <2>10, <3>1 DEF RowCalm
  <2> QED
    BY <1>b, <2>5, <2>11 DEF CalmInv
<1> QED
  BY <1>1, <1>2


\* The data version, set last.
LEMMA VersionCalm ==
    ASSUME TypeOK, CalmInv, SetSessionDataVersion
    PROVE  CalmInv'
<1>u. UNCHANGED <<file, curVer>> /\ job.pc = "setver"
  BY DEF SetSessionDataVersion
<1>t. job \in JobType /\ row \in RowType
  BY DEF TypeOK
<1>c. FileCalm /\ OnceEach /\ RowCalm /\ StatCalm
  BY DEF CalmInv
<1>1. job'.pc = "finish" /\ job'.stat = job.stat
  BY <1>t DEF SetSessionDataVersion, JobType
<1>2. /\ row'.st = row.st /\ row'.size = row.size /\ row'.mtime = row.mtime
      /\ row'.ino = row.ino /\ row'.copies = row.copies
      /\ row'.count = row.count
      /\ row.st # "none" => row'.ver = curVer
      /\ row.st = "none" => row' = row
  <2>1. row.st = "none" => row' = row
    BY <1>t DEF SetSessionDataVersion, RowType
  <2> QED
    BY <1>t, <2>1 DEF SetSessionDataVersion, RowType
<1>3. FileCalm' /\ OnceEach' /\ StatCalm'
  BY <1>u, <1>c, <1>1, <1>2 DEF FileCalm, OnceEach, StatCalm
<1>4. RowCalm'
  <2>1. /\ \A n : Known(n)' = Known(n) /\ (Whole(n)' <=> Whole(n))
        /\ LinesFrom(0)' = LinesFrom(0)
        /\ \A S : Holds(S)' <=> Holds(S)
    BY <1>u, <1>2, SameFile
  <2>2. curVer > 0
    BY CalmTypes
  <2> QED
    BY <1>u, <1>c, <1>1, <1>2, <2>1, <2>2 DEF RowCalm, Settled
<1> QED
  BY <1>1, <1>3, <1>4, Ended DEF CalmInv

\* The messages of a tail.
LEMMA TailMessagesCalm ==
    ASSUME TypeOK, CalmInv, IncrementalMessages
    PROVE  CalmInv'
<1>u. UNCHANGED <<file, curVer>> /\ job.pc = "incmsgs"
  BY DEF IncrementalMessages
<1>t. job \in JobType /\ row \in RowType /\ job.ids \in SUBSET Lines
  BY DEF TypeOK, JobType
<1>c. FileCalm /\ OnceEach /\ RowCalm /\ StatCalm /\ TailCalm
  BY DEF CalmInv
<1>w. \A n : Known(n)' = Known(n) /\ (Whole(n)' <=> Whole(n))
  BY <1>u, SameFile
<1>1. CASE row' = row /\ job'.pc = "finish"
  <2>1. job'.stat = job.stat
    BY <1>t DEF IncrementalMessages, JobType
  <2>2. FileCalm' /\ OnceEach' /\ RowCalm' /\ StatCalm'
    BY <1>u, <1>1, <2>1, JobOnly
  <2> QED
    BY <1>1, <2>2, Ended DEF CalmInv
<1>2. CASE job' = [job EXCEPT !.pc = "incrow"]
  <2>1. /\ job'.pc = "incrow" /\ job'.size = job.size
        /\ job'.mtime = job.mtime /\ job'.stat = job.stat
        /\ job'.ids = job.ids
    BY <1>2, <1>t DEF JobType
  <2>2. FullCalm' /\ TailStart' /\ TailIds'
    BY <2>1 DEF FullCalm, FullForce, FullStamp, FullNext, FullIds, FullRow,
                ReadPcs, TailStart, TailIds
  <2>3. TailStamp' /\ StatCalm'
    BY <1>u, <1>c, <1>w, <2>1 DEF TailCalm, TailStamp, TailRead, StatCalm
  <2>4. CASE row.st = "none"
    <3>1. row' = row
      BY <1>t, <1>2, <2>1, <2>4 DEF IncrementalMessages
    <3>2. FileCalm' /\ OnceEach' /\ RowCalm'
      BY <1>u, <1>c, <2>4, <3>1 DEF FileCalm, OnceEach, RowCalm
    <3>3. TailRow' /\ TailStored'
      BY <2>4, <3>1 DEF TailRow, TailStored
    <3> QED
      BY <2>2, <2>3, <3>2, <3>3 DEF CalmInv, TailCalm
  <2>5. CASE row.st # "none"
    <3> DEFINE K == Cardinality(Messages(job.ids))
    <3>1. /\ row'.st = row.st /\ row'.size = row.size
          /\ row'.mtime = row.mtime /\ row'.ino = row.ino
          /\ row'.ver = row.ver
          /\ row'.copies = Plus(row.copies, Messages(job.ids))
          /\ row'.count = row.count + K
      BY <1>t, <1>2, <2>1, <2>5 DEF IncrementalMessages, RowType
    <3>2. /\ K \in Nat /\ row.count \in Nat /\ row.copies \in [Lines -> Nat]
      BY <1>t, CountType DEF RowType
    <3>3. \A i \in job.ids : row.copies[i] = 0 /\ Kind[i] # "link"
      BY <1>u, <1>c DEF TailCalm, TailIds
    <3>4. Messages(job.ids) = Content(job.ids)
      <4>1. \A i \in job.ids : Kind[i] \in Kinds
        BY <1>t, SourceSyncAssumption
      <4> QED
        BY <3>3, <4>1 DEF Messages, Content, Kinds
    <3>5. \A i \in Lines : row'.copies[i] =
             IF i \in Content(job.ids) THEN 1 ELSE row.copies[i]
      <4>1. \A i \in Content(job.ids) : row.copies[i] = 0
        BY <3>3 DEF Content
      <4> QED
        BY <3>1, <3>4, <4>1 DEF Plus
    <3>6. \A i \in job.ids : i <= file.base + file.len
      BY <1>u, <1>c DEF TailCalm, TailStamp, TailRead
    <3>7. OnceEach'
      <4>1. \A i \in Content(job.ids) : i \in job.ids
        BY DEF Content
      <4>2. \A i \in Lines : row'.copies[i] <= 1
        BY <1>c, <3>5 DEF OnceEach
      <4>3. \A i \in Lines : row'.copies[i] # 0 => i <= file.base + file.len
        BY <1>c, <3>5, <3>6, <4>1 DEF OnceEach
      <4> QED
        BY <1>u, <2>5, <3>1, <4>2, <4>3 DEF OnceEach
    <3>8. FileCalm'
      BY <1>u, <1>c, <3>1 DEF FileCalm
    <3>9. RowCalm'
      <4>1. /\ row.ino <= file.ino /\ row.mtime <= file.mtime /\ row.size > 0
            /\ row.ver > 0
        BY <1>u, <1>c, <2>5 DEF RowCalm
      <4>2. row'.ver > 0 /\ row'.size > 0
        BY <3>1, <4>1
      <4> QED
        BY <1>u, <2>1, <2>5, <3>1, <4>1, <4>2 DEF RowCalm, Settled
    <3>10. TailRow'
      <4>1. row.ino = job.stat.ino /\ row.count > 0
        BY <1>u, <1>c, <2>5 DEF TailCalm, TailRow, TailRead
      <4>2. row'.count > 0
        BY <3>1, <3>2, <4>1
      <4> QED
        BY <2>1, <3>1, <4>1, <4>2 DEF TailRow
    <3>11. TailStored'
      <4> SUFFICES ASSUME row.ino = file.ino PROVE Holds(Known(job.size))'
        BY <1>u, <2>1, <3>1 DEF TailStored
      <4>1. /\ job.ids = Known(job.size) \ Known(row.size)
            /\ row.size <= job.size
        BY <1>u, <1>c, <2>5 DEF TailCalm, TailIds
      <4>2. Holds(Known(row.size))
        BY <1>u, <1>c, <2>5 DEF RowCalm, Settled
      <4>3. Known(row.size) \subseteq Known(job.size)
        <5>1. /\ row.size \in Nat /\ job.size \in Nat /\ file.base \in Nat
              /\ Lines \subseteq Nat
          BY CalmTypes
        <5>2. \A i \in Nat : 2 * (i - file.base) <= row.size
                                => 2 * (i - file.base) <= job.size
          <6>1. \A x \in Int : x <= row.size => x <= job.size
            BY <4>1, <5>1
          <6>2. \A i \in Nat : 2 * (i - file.base) \in Int
            BY <5>1
          <6> QED
            BY <6>1, <6>2
        <5> QED
          BY <5>1, <5>2 DEF Known
      <4>4. \A i \in Lines : i \in Content(Known(job.size)) <=>
               i \in Content(job.ids) \/ i \in Content(Known(row.size))
        BY <4>1, <4>3 DEF Content
      <4>5. \A i \in Lines : row'.copies[i] =
               IF i \in Content(Known(job.size)) THEN 1 ELSE 0
        BY <3>5, <4>2, <4>4 DEF Holds
      <4>6. Known(job.size)' = Known(job.size)
        BY <1>w, <2>1
      <4> QED
        BY <4>5, <4>6 DEF Holds, Content
    <3> QED
      BY <2>2, <2>3, <3>7, <3>8, <3>9, <3>10, <3>11 DEF CalmInv, TailCalm
  <2> QED
    BY <2>4, <2>5
<1> QED
  <2>1. \/ row' = row /\ job'.pc = "finish"
        \/ job' = [job EXCEPT !.pc = "incrow"]
    BY <1>t DEF IncrementalMessages, JobType
  <2> QED
    BY <1>1, <1>2, <2>1

\* The offset of a tail.
LEMMA TailRowCalm ==
    ASSUME TypeOK, CalmInv, UpdateSessionIncremental
    PROVE  CalmInv'
<1>u. UNCHANGED <<file, curVer>> /\ job.pc = "incrow"
  BY DEF UpdateSessionIncremental
<1>t. job \in JobType /\ row \in RowType
  BY DEF TypeOK
<1>c. FileCalm /\ OnceEach /\ RowCalm /\ StatCalm /\ TailCalm
  BY DEF CalmInv
<1>1. job'.pc = "finish" /\ job'.stat = job.stat
  BY <1>t DEF UpdateSessionIncremental, JobType
<1>2. CASE row.st = "none"
  <2>1. row' = row
    BY <1>2 DEF UpdateSessionIncremental
  <2>2. FileCalm' /\ OnceEach' /\ RowCalm' /\ StatCalm'
    BY <1>u, <1>c, <1>1, <1>2, <2>1 DEF FileCalm, OnceEach, RowCalm, StatCalm
  <2> QED
    BY <1>1, <2>2, Ended DEF CalmInv
<1>3. CASE row.st # "none"
  <2>1. /\ row'.st = row.st /\ row'.size = job.size /\ row'.mtime = job.mtime
        /\ row'.ino = row.ino /\ row'.ver = row.ver
        /\ row'.copies = row.copies /\ row'.count = row.count
    BY <1>3, <1>t DEF UpdateSessionIncremental, RowType
  <2>2. FileCalm' /\ OnceEach' /\ StatCalm'
    BY <1>u, <1>c, <1>1, <1>3, <2>1 DEF FileCalm, OnceEach, StatCalm
  <2>w. /\ \A n : Known(n)' = Known(n) /\ (Whole(n)' <=> Whole(n))
        /\ LinesFrom(0)' = LinesFrom(0)
        /\ \A S : Holds(S)' <=> Holds(S)
    BY <1>u, <2>1, SameFile
  <2>3. /\ row.ino = job.stat.ino /\ row.count > 0
        /\ job.mtime = job.stat.mtime /\ job.size > 0
        /\ job.stat.ino = file.ino => Whole(job.size)
        /\ job.mtime = file.mtime => job.size = 2 * file.len
        /\ row.ino = file.ino => Holds(Known(job.size))
    BY <1>u, <1>c, <1>3 DEF TailCalm, TailRow, TailStamp, TailStored, TailRead
  <2>4. /\ job.stat.mtime <= file.mtime
        /\ job.stat.mtime = file.mtime => job.stat.ino = file.ino
        /\ row.ino <= file.ino /\ row.ver > 0
    BY <1>u, <1>c, <1>3 DEF StatCalm, RowCalm
  <2>5. row'.ino = file'.ino => Whole(row.size)' /\ Holds(Known(row.size))'
    <3>1. Known(row.size)' = Known(job.size)
          /\ (Whole(row.size)' <=> Whole(job.size))
      BY <2>1, <2>w
    <3> QED
      BY <1>u, <2>1, <2>w, <2>3, <3>1
  <2>6. row'.mtime = file'.mtime => Holds(LinesFrom(0))'
    <3>1. LinesFrom(0) = Known(2 * file.len)
      BY <1>c, LineSets
    <3>2. row'.mtime = file'.mtime => Holds(Known(2 * file.len))
      BY <1>u, <2>1, <2>3, <2>4
    <3> QED
      BY <2>w, <3>1, <3>2
  <2>7. row'.count # 0
    BY <2>1, <2>3
  <2>8. RowCalm'
    BY <1>u, <2>1, <2>3, <2>4, <2>5, <2>6, <2>7 DEF RowCalm
  <2> QED
    BY <1>1, <2>2, <2>8, Ended DEF CalmInv
<1> QED
  BY <1>2, <1>3

\* A restart, with the same binary or a newer one, between two syncs.
LEMMA RestartCalm ==
    ASSUME TypeOK, CalmInv, NEW v \in 1 .. MaxVer, Restart(v)
    PROVE  CalmInv'
<1>u. UNCHANGED <<file, row, job>> /\ job.pc = "idle"
  BY DEF Restart
<1>1. FileCalm' /\ OnceEach' /\ StatCalm'
  BY <1>u DEF CalmInv, FileCalm, OnceEach, StatCalm
<1>2. RowCalm'
  BY <1>u, SameFile DEF CalmInv, RowCalm, Settled
<1> QED
  BY <1>u, <1>1, <1>2, Ended DEF CalmInv

\* Where nothing is read or written by half, nothing else can happen.
LEMMA CalmSteps ==
    ASSUME Calm, AppendPartial \/ RewriteSameStat \/ WriteError
                     \/ \E v \in 1 .. MaxVer : Crash(v)
    PROVE  FALSE
  BY DEF Calm, Hazardous, AppendPartial, RewriteSameStat, WriteError, Crash,
         Fault, May

LEMMA CalmStep ==
    ASSUME Mild, TypeOK, [Next]_vars, Calm => CalmInv
    PROVE  (Calm => CalmInv)'
<1>1. Calm' <=> Calm
  <2>1. file'.env = file.env
    <3>1. file' = file \/ Append \/ AppendPartial \/ RewriteSameStat
             \/ \E n \in 1 .. MaxLine : Replace(n)
      BY DEF Next, vars, Start, EngineStep, Failure, World, ReadTail, FullStat,
             FullRead, Collect, UpsertSession, WriteMessages,
             SetSessionDataVersion, IncrementalMessages,
             UpdateSessionIncremental, Finish, ReadTailError, FullReadError,
             WriteError, Crash, SoftDeleteSession, RestoreSession,
             DeleteSession, Restart
    <3> QED
      BY <3>1 DEF TypeOK, FileType, Append, AppendPartial, RewriteSameStat,
                  Replace
  <2> QED
    BY <2>1 DEF Calm
<1> SUFFICES ASSUME Calm, CalmInv PROVE CalmInv'
  BY <1>1
<1>2. CASE \E m \in Modes, r \in Reparses : Start(m, r)
  BY <1>2, StartCalm
<1>3. CASE ReadTail
  BY <1>3, ReadTailCalm
<1>4. CASE ReadTailError \/ FullStat \/ FullRead \/ FullReadError \/ Collect
             \/ Finish
  BY <1>4, ReadCalm
<1>5. CASE UpsertSession
  BY <1>5, UpsertCalm
<1>6. CASE WriteMessages
  BY <1>6, WriteCalm
<1>7. CASE SetSessionDataVersion
  BY <1>7, VersionCalm
<1>8. CASE IncrementalMessages
  BY <1>8, TailMessagesCalm
<1>9. CASE UpdateSessionIncremental
  BY <1>9, TailRowCalm
<1>10. CASE Append
  BY <1>10, AppendCalm
<1>11. CASE \E n \in 1 .. MaxLine : Replace(n)
  BY <1>11, ReplaceCalm
<1>12. CASE SoftDeleteSession \/ RestoreSession \/ DeleteSession
  BY <1>12, UsersCalm
<1>13. CASE \E v \in 1 .. MaxVer : Restart(v)
  BY <1>13, RestartCalm
<1>14. CASE AppendPartial \/ RewriteSameStat \/ WriteError
              \/ \E v \in 1 .. MaxVer : Crash(v)
  BY <1>14, CalmSteps
<1>15. CASE UNCHANGED vars
  <2>1. UNCHANGED <<file, row, job, curVer>>
    BY <1>15 DEF vars
  <2>2. /\ \A n : Known(n)' = Known(n) /\ (Whole(n)' <=> Whole(n))
        /\ LinesFrom(0)' = LinesFrom(0)
        /\ \A S : Holds(S)' <=> Holds(S)
        /\ (Settled' <=> Settled)
    BY <2>1, SameFile DEF Settled
  <2>3. FileCalm' /\ OnceEach' /\ RowCalm' /\ StatCalm'
    BY <2>1, <2>2 DEF CalmInv, FileCalm, OnceEach, RowCalm, StatCalm
  <2>4. TailCalm' /\ FullCalm'
    BY <2>1, <2>2 DEF CalmInv, TailCalm, FullCalm, TailRow, TailStart, TailIds,
           TailStamp, TailStored, FullForce, FullStamp, FullNext, FullIds,
           FullRow
  <2> QED
    BY <2>3, <2>4 DEF CalmInv
<1> QED
  BY <1>2, <1>3, <1>4, <1>5, <1>6, <1>7, <1>8, <1>9, <1>10, <1>11, <1>12,
     <1>13, <1>14, <1>15 DEF Next, EngineStep, Failure, World

LEMMA CalmAlways == Mild => (Spec => [](TypeOK /\ (Calm => CalmInv)))
<1> SUFFICES ASSUME Mild PROVE Spec => [](TypeOK /\ (Calm => CalmInv))
  OBVIOUS
<1> DEFINE Inv == TypeOK /\ (Calm => CalmInv)
<1>1. Init => Inv
  BY TypeInit, CalmInit
<1>2. Inv /\ [Next]_vars => Inv'
  BY TypeStep, CalmStep
<1> QED
  BY <1>1, <1>2, PTL DEF Spec

\* However the file grows and is replaced, syncs and restarts fall between and
\* a tail has to be given up for a full parse (shouldSkip, tryIncrementalJSONL,
\* processFile): a session that the next sync would skip as unchanged holds the
\* messages of its file, each once.
THEOREM CalmFilesAreFaithful ==
    ASSUME Mild
    PROVE  Spec => []CalmIsFaithful
<1>1. TypeOK /\ (Calm => CalmInv) => CalmIsFaithful
  <2> SUFFICES ASSUME TypeOK, CalmInv, row.st = "live", StatMatches,
                      job.pc = "idle"
               PROVE  row.copies = Parsed
    BY DEF CalmIsFaithful, FreshIsFaithful
  <2>1. row.mtime = file.mtime /\ row.st # "none"
    BY DEF StatMatches
  <2>2. Holds(LinesFrom(0))
    BY <2>1 DEF CalmInv, RowCalm, Settled
  <2>3. row.copies \in [Lines -> Nat]
    BY CalmTypes
  <2>4. row.copies =
           [i \in Lines |-> IF i \in Content(LinesFrom(0)) THEN 1 ELSE 0]
    BY <2>2, <2>3 DEF Holds
  <2> QED
    BY <2>4 DEF Parsed, Copies
<1> QED
  BY <1>1, CalmAlways, PTL

\* The stored offset, which the next sync reads on from
\* (UpdateSessionIncremental), never runs ahead of the stored messages.
THEOREM CalmFilesLoseNothing ==
    ASSUME Mild
    PROVE  Spec => []CalmLosesNothing
<1>1. TypeOK /\ (Calm => CalmInv) => CalmLosesNothing
  <2> SUFFICES ASSUME TypeOK, CalmInv, row.st = "live", row.ino = file.ino,
                      job.pc = "idle", NEW i \in Content(LinesFrom(0)),
                      2 * (i - file.base) <= row.size
               PROVE  row.copies[i] > 0
    BY DEF CalmLosesNothing, NothingLost
  <2>1. Holds(Known(row.size))
    BY DEF CalmInv, RowCalm, Settled
  <2>2. i \in Lines /\ file.base < i /\ Kind[i] # "meta"
    BY DEF Content, LinesFrom
  <2>3. i \in Content(Known(row.size))
    BY <2>2 DEF Content, Known
  <2>4. row.copies[i] = 1
    BY <2>1, <2>2, <2>3 DEF Holds
  <2> QED
    BY <2>4
<1> QED
  BY <1>1, CalmAlways, PTL

\* No line is stored twice, although a tail is appended to what is stored and
\* a full parse may follow it in the same sync (writeMessages only inserts past
\* the stored ordinals, ReplaceSessionContent replaces).
THEOREM CalmFilesStoreOnce ==
    ASSUME Mild
    PROVE  Spec => []NothingTwice
<1>1. TypeOK /\ (Calm => CalmInv) => NothingTwice
  BY DEF NothingTwice, CalmInv, OnceEach
<1> QED
  BY <1>1, CalmAlways, PTL
=============================================================================

----------------------------- MODULE SourceSync -----------------------------
(***************************************************************************)
(* One append-only JSONL transcript and the session row the sync engine    *)
(* keeps for it (internal/sync/engine.go, internal/db/sessions.go).        *)
(*                                                                         *)
(* The coding agent appends to the file, or replaces it, at any time.  The *)
(* engine (one sync at a time: syncMu) stats it, decides between skipping, *)
(* reading the appended tail and a full parse, and stores the result in    *)
(* several separate database writes.  Users trash, restore and delete the  *)
(* session, and the process restarts, between any two of those steps.      *)
(*                                                                         *)
(* Every line ever written has a number of its own; the file holds the     *)
(* lines base+1 .. base+len, each two bytes long, and half of the next one *)
(* when part is TRUE.  A rewritten file holds fresh numbers.  What the     *)
(* parser makes of a line is Kind[line]:                                   *)
(*   "user", "asst"  a message of its own                                  *)
(*   "link"          an update of the message before it (a chunk of the    *)
(*                   same response, a subagent link, a rename)             *)
(*   "meta"          nothing (progress events, metadata)                   *)
(***************************************************************************)
EXTENDS Naturals, FiniteSets

CONSTANTS
    Agents,     \* the parsers considered, a subset of {"claude", "codex"}
    MaxLine,    \* bound: lines ever written
    MaxVer,     \* bound: parser data versions
    MaxFaults,  \* bound: failures and crashes
    Kind,       \* what the parser makes of each line
    Envs        \* what may happen to a file of each agent: the possible sets

EnvKinds ==
    { "partial",   \* a sync may see half a line at the end of the file
      "grow",      \* the file may grow between the parser's stat and its read
      "replace",   \* the file may be replaced by another one
      "samestat",  \* it may be rewritten in place with the same size and mtime
      "crash",     \* the process may die in the middle of a sync
      "dbfail",    \* a database write may fail
      "io",        \* reading the file may fail
      "trash" }    \* users may trash and restore the session

Lines == 1 .. MaxLine
Kinds == {"user", "asst", "link", "meta"}

ASSUME SourceSyncAssumption ==
    /\ Agents \subseteq {"claude", "codex"}
    /\ MaxLine \in Nat \ {0}
    /\ MaxVer \in Nat \ {0}
    /\ MaxFaults \in Nat
    /\ Kind \in [Lines -> Kinds]
    /\ Envs \in [Agents -> SUBSET SUBSET EnvKinds]

VARIABLES
    file,      \* the transcript: agent, base, len, part, mtime, ino, and env,
               \* what may happen to it and its session
    row,       \* the session row and its messages
    excluded,  \* the session is in excluded_sessions
    skipMem,   \* mtime in Engine.skipCache, 0 when absent
    skipDb,    \* mtime in skipped_files, 0 when absent
    curVer,    \* db.CurrentDataVersion of the running binary
    job,       \* the sync in progress
    faults     \* failures so far

vars == <<file, row, excluded, skipMem, skipDb, curVer, job, faults>>

-----------------------------------------------------------------------------
(* The file. *)

Size == 2 * file.len + (IF file.part THEN 1 ELSE 0)
Top == file.base + file.len + (IF file.part THEN 1 ELSE 0)
Stat == [size |-> Size, mtime |-> file.mtime, ino |-> file.ino]

\* The content of the first n bytes: what ComputeFileHashPrefix fingerprints.
Hash(n) == [base |-> file.base, bytes |-> n]

\* Complete lines from a byte offset on.  From the middle of a line the rest
\* of that line is no valid JSON and is passed over.
LinesFrom(off) ==
    { i \in Lines : file.base < i /\ i <= file.base + file.len
                        /\ 2 * (i - file.base - 1) >= off }

(* What is stored. *)

Content(S) == { i \in S : Kind[i] # "meta" }

\* An update with no message before it is a message of its own.
Messages(S) ==
    { i \in S : \/ Kind[i] \in {"user", "asst"}
               \/ /\ Kind[i] = "link"
                  /\ \A j \in S : j < i => Kind[j] = "meta" }

\* The ordinal, from 1, of the message that line i is or updates.
Ordinal(S, i) == Cardinality({ j \in Messages(S) : j <= i })

NoCopies == [i \in Lines |-> 0]
Copies(S) == [i \in Lines |-> IF i \in S THEN 1 ELSE 0]
Plus(f, S) == [i \in Lines |-> IF i \in S THEN f[i] + 1 ELSE f[i]]

NoRow == [st |-> "none", size |-> 0, mtime |-> 0, ino |-> 0,
          hash |-> [base |-> 0, bytes |-> 0], ver |-> 0, pver |-> 0,
          copies |-> NoCopies, count |-> 0]

NoJob == [pc |-> "idle", mode |-> "stat", force |-> FALSE,
          stat |-> [size |-> 0, mtime |-> 0, ino |-> 0],
          size |-> 0, mtime |-> 0, hash |-> [base |-> 0, bytes |-> 0],
          ids |-> {}]

Modes == {"all", "stat", "single"}
Pcs == {"idle", "tail", "fullstat", "fullread", "collectfull", "collectinc",
        "upsert", "msgs", "setver", "incmsgs", "incrow", "finish"}

HashType == [base : Nat, bytes : Nat]
StatType == [size : Nat, mtime : Nat, ino : Nat]
FileType == [agent : Agents, env : SUBSET EnvKinds, base : Nat, len : Nat, part : BOOLEAN,
             mtime : Nat, ino : Nat]
RowType == [st : {"none", "live", "trashed"}, size : Nat, mtime : Nat,
            ino : Nat, hash : HashType, ver : Nat, pver : Nat,
            copies : [Lines -> Nat], count : Nat]
JobType == [pc : Pcs, mode : Modes, force : BOOLEAN, stat : StatType,
            size : Nat, mtime : Nat, hash : HashType, ids : SUBSET Lines]

\* The state is what the code's types allow, no line number is past the bound,
\* and the version of a row is never ahead of the binary that wrote it.
TypeOK ==
    /\ file \in FileType /\ Top <= MaxLine
    /\ row \in RowType /\ row.ver <= curVer
    /\ excluded \in BOOLEAN
    /\ skipMem \in Nat /\ skipDb \in Nat
    /\ curVer \in 1 .. MaxVer
    /\ job \in JobType
    /\ faults \in 0 .. MaxFaults

Init ==
    /\ \E a \in Agents : \E env \in Envs[a] :
          file = [agent |-> a, env |-> env, base |-> 0, len |-> 1,
                  part |-> FALSE, mtime |-> 1, ino |-> 1]
    /\ row = NoRow
    /\ excluded = FALSE
    /\ skipMem = 0 /\ skipDb = 0
    /\ curVer = 1
    /\ job = NoJob
    /\ faults = 0

-----------------------------------------------------------------------------
(* The coding agent and the file system. *)

May(k) == k \in file.env

\* No write falls between the parser's stat of the file and its read, unless
\* the environment is allowed to be that unlucky.
Undisturbed == May("grow") \/ job.pc # "fullread"

\* A whole line, or the rest of a line that was written by half.
Append ==
    /\ Undisturbed
    /\ file.base + file.len < MaxLine
    /\ file' = [file EXCEPT !.len = @ + 1, !.part = FALSE, !.mtime = @ + 1]
    /\ UNCHANGED <<row, excluded, skipMem, skipDb, curVer, job, faults>>

AppendPartial ==
    /\ May("partial")
    /\ Undisturbed
    /\ ~file.part
    /\ Top < MaxLine
    /\ file' = [file EXCEPT !.part = TRUE, !.mtime = @ + 1]
    /\ UNCHANGED <<row, excluded, skipMem, skipDb, curVer, job, faults>>

\* The file is replaced by one with n new lines: a new inode, a new mtime.
Replace(n) ==
    /\ May("replace")
    /\ Top + n <= MaxLine
    /\ file' = [file EXCEPT !.base = Top, !.len = n, !.part = FALSE,
                            !.mtime = @ + 1, !.ino = @ + 1]
    /\ UNCHANGED <<row, excluded, skipMem, skipDb, curVer, job, faults>>

\* Every line is overwritten in place; size, mtime and inode stay as they are.
RewriteSameStat ==
    /\ May("samestat")
    /\ file.len > 0 /\ ~file.part
    /\ Top + file.len <= MaxLine
    /\ file' = [file EXCEPT !.base = Top]
    /\ UNCHANGED <<row, excluded, skipMem, skipDb, curVer, job, faults>>

-----------------------------------------------------------------------------
(* Users, through the HTTP API and the command line. *)

SoftDeleteSession ==
    /\ May("trash")
    /\ row.st = "live"
    /\ row' = [row EXCEPT !.st = "trashed"]
    /\ UNCHANGED <<file, excluded, skipMem, skipDb, curVer, job, faults>>

RestoreSession ==
    /\ row.st = "trashed"
    /\ row' = [row EXCEPT !.st = "live"]
    /\ UNCHANGED <<file, excluded, skipMem, skipDb, curVer, job, faults>>

\* DeleteSession, DeleteSessionIfTrashed, EmptyTrash: the row goes and the id
\* is excluded, in one transaction.
DeleteSession ==
    /\ row.st # "none"
    /\ row' = NoRow
    /\ excluded' = TRUE
    /\ UNCHANGED <<file, skipMem, skipDb, curVer, job, faults>>

-----------------------------------------------------------------------------
(* The process. *)

Fault(k) == May(k) /\ faults < MaxFaults /\ faults' = faults + 1

\* A restart between two syncs, possibly with a newer binary (v); the skip
\* cache is reloaded from the database.
Restart(v) ==
    /\ job.pc = "idle"
    /\ v >= curVer
    /\ curVer' = v
    /\ skipMem' = skipDb
    /\ UNCHANGED <<file, row, excluded, skipDb, job, faults>>

\* The process dies in the middle of a sync and is started again.
Crash(v) ==
    /\ job.pc # "idle"
    /\ Fault("crash")
    /\ v >= curVer
    /\ curVer' = v
    /\ skipMem' = skipDb
    /\ job' = NoJob
    /\ UNCHANGED <<file, row, excluded, skipDb>>

-----------------------------------------------------------------------------
(* The decision: skip, read the appended tail, or parse the whole file. *)

\* Size, mtime and data version are what the row recorded.  Trashed rows
\* count.
StatMatches_NoVersion ==
    row.st # "none" /\ row.size = Size /\ row.mtime = file.mtime
StatMatches ==
    /\ row.st # "none"
    /\ row.size = Size
    /\ row.mtime = file.mtime
    /\ row.ver >= curVer

\* Only Claude files are audited, and not by the periodic stat-only sync.
ContentChanged(m) ==
    /\ file.agent = "claude"
    /\ m # "stat"
    /\ row.hash # Hash(Size)

\* reparse: the stored project or preview of a Claude session is one that
\* only a full parse repairs.
Reparses == IF file.agent = "claude" THEN BOOLEAN ELSE {FALSE}

ShouldSkip(m, reparse) ==
    \/ m # "single" /\ skipMem = file.mtime
    \/ StatMatches /\ ~ContentChanged(m) /\ ~reparse

\* One live row, written by the current parser, with a known offset.
KnownOffset(reparse) ==
    row.st = "live" /\ row.size > 0 /\ row.ver >= curVer /\ ~reparse

NotAnAppend == Size <= row.size \/ file.ino # row.ino

CanAppend(reparse) ==
    KnownOffset(reparse) /\ ~NotAnAppend /\ row.count > 0

\* A Claude full parse always replaces the stored messages, a Codex one only
\* when the file is known not to be a continuation.
MustReplace_Never(reparse) == FALSE
MustReplace(reparse) ==
    file.agent = "claude" \/ (KnownOffset(reparse) /\ NotAnAppend)

StartAs(m, pc, force) ==
    job' = [NoJob EXCEPT !.pc = pc, !.mode = m, !.force = force,
                         !.stat = Stat, !.size = row.size]

\* A sync of the file: SyncPaths and SyncAll ("all"), SyncAllStatOnly
\* ("stat"), SyncSingleSession ("single", which drops the skip entry first).
Start(m, reparse) ==
    /\ job.pc = "idle"
    /\ \/ /\ ShouldSkip(m, reparse)
          /\ StartAs(m, "finish", FALSE)
       \/ /\ ~ShouldSkip(m, reparse) /\ CanAppend(reparse)
          /\ StartAs(m, "tail", file.agent = "claude")
       \/ /\ ~ShouldSkip(m, reparse) /\ ~CanAppend(reparse)
          /\ StartAs(m, "fullstat", MustReplace(reparse))
    /\ skipMem' = IF m = "single" THEN 0 ELSE skipMem
    /\ skipDb' = IF m = "single" THEN 0 ELSE skipDb
    /\ UNCHANGED <<file, row, excluded, curVer, faults>>

-----------------------------------------------------------------------------
(* Reading the file. *)

\* The first appended message is the last assistant message already stored
\* (the same provider message id).
TailRepeats(S) ==
    /\ file.agent = "claude"
    /\ \E f \in Messages(S) :
          /\ \A g \in Messages(S) : f <= g
          /\ Kind[f] = "asst" /\ row.copies[f] > 0
          /\ \A i \in Lines : Kind[i] = "asst" /\ row.copies[i] > 0 => i <= f

TailNeedsFullParse_Never(S) == FALSE
TailNeedsFullParse(S) ==
    (\E i \in S : Kind[i] = "link") \/ TailRepeats(S)

\* tryIncrementalJSONL after the decision: parse from the stored offset.  The
\* new offset is the end of the last complete line; a tail without a complete
\* line changes nothing.
ReadTail_GivesUp ==
    LET S == LinesFrom(job.size)
        end == 2 * file.len
    IN  /\ job.pc = "tail"
        /\ job' = IF S # {} /\ ~TailNeedsFullParse(S)
                  THEN [job EXCEPT !.pc = "collectinc", !.ids = S,
                           !.size = end, !.mtime = job.stat.mtime]
                  ELSE [job EXCEPT !.pc = "finish"]
        /\ UNCHANGED <<file, row, excluded, skipMem, skipDb, curVer, faults>>
ReadTail ==
    LET off == job.size
        S == LinesFrom(off)
        end == 2 * file.len
    IN  /\ job.pc = "tail"
        /\ \/ /\ S # {} /\ ~TailNeedsFullParse(S)
              /\ job' = [job EXCEPT !.pc = "collectinc", !.ids = S,
                            !.size = end, !.mtime = job.stat.mtime,
                            !.hash = IF file.agent = "claude" THEN Hash(end)
                                                         ELSE row.hash]
           \/ /\ S # {} /\ TailNeedsFullParse(S)
              /\ job' = [job EXCEPT !.pc = "fullstat", !.force = TRUE]
           \/ /\ S = {}
              /\ job' = [job EXCEPT !.pc = "finish"]
        /\ UNCHANGED <<file, row, excluded, skipMem, skipDb, curVer, faults>>

\* Reading the tail fails: a full parse, without a reason to replace.
ReadTailError ==
    /\ job.pc = "tail"
    /\ Fault("io")
    /\ job' = [job EXCEPT !.pc = "fullstat"]
    /\ UNCHANGED <<file, row, excluded, skipMem, skipDb, curVer>>

\* The parser's own stat, whose size and mtime are stored with the session.
FullStat ==
    /\ job.pc = "fullstat"
    /\ job' = [job EXCEPT !.pc = "fullread", !.size = Size,
                          !.mtime = file.mtime]
    /\ UNCHANGED <<file, row, excluded, skipMem, skipDb, curVer, faults>>

\* Every complete line is parsed and the whole file is hashed.
FullRead ==
    /\ job.pc = "fullread"
    /\ job' = [job EXCEPT !.pc = "collectfull", !.ids = LinesFrom(0),
                          !.hash = Hash(Size)]
    /\ UNCHANGED <<file, row, excluded, skipMem, skipDb, curVer, faults>>

\* The parse fails: the file is not retried until its mtime changes.
FullReadError ==
    /\ job.pc = "fullread"
    /\ Fault("io")
    /\ skipMem' = job.stat.mtime
    /\ job' = [job EXCEPT !.pc = "finish"]
    /\ UNCHANGED <<file, row, excluded, skipDb, curVer>>

\* The collector drops the skip entry of a file that yields a session.
Collect ==
    /\ job.pc \in {"collectfull", "collectinc"}
    /\ job' = [job EXCEPT !.pc = IF job.pc = "collectfull" THEN "upsert"
                                                           ELSE "incmsgs"]
    /\ skipMem' = IF job.mode = "single" THEN skipMem ELSE 0
    /\ skipDb' = IF job.mode = "single" THEN skipDb ELSE 0
    /\ UNCHANGED <<file, row, excluded, curVer, faults>>

-----------------------------------------------------------------------------
(* Storing a full parse (writeBatch, writeSessionFull). *)

\* UpsertSession: an excluded or trashed session is refused and the file is
\* not tried again until its mtime changes; otherwise the row takes the file
\* metadata of the parse and keeps its data version and messages.
UpsertSession_NoExclusion ==
    /\ job.pc = "upsert"
    /\ row' = [row EXCEPT !.st = "live", !.size = job.size,
                  !.mtime = job.mtime, !.ino = job.stat.ino,
                  !.hash = job.hash]
    /\ job' = [job EXCEPT !.pc = "msgs"]
    /\ UNCHANGED <<file, excluded, skipMem, skipDb, curVer, faults>>
UpsertSession_SetsVersion ==
    /\ job.pc = "upsert" /\ ~excluded /\ row.st # "trashed"
    /\ row' = [row EXCEPT !.st = "live", !.size = job.size,
                  !.mtime = job.mtime, !.ino = job.stat.ino,
                  !.hash = job.hash, !.ver = curVer]
    /\ job' = [job EXCEPT !.pc = "msgs"]
    /\ UNCHANGED <<file, excluded, skipMem, skipDb, curVer, faults>>
UpsertSession ==
    /\ job.pc = "upsert"
    /\ \/ /\ excluded \/ row.st = "trashed"
          /\ skipMem' = job.mtime
          /\ job' = [job EXCEPT !.pc = "finish"]
          /\ UNCHANGED row
       \/ /\ ~excluded /\ row.st # "trashed"
          /\ row' = [row EXCEPT !.st = "live", !.size = job.size,
                        !.mtime = job.mtime, !.ino = job.stat.ino,
                        !.hash = job.hash]
          /\ job' = [job EXCEPT !.pc = "msgs"]
          /\ UNCHANGED skipMem
    /\ UNCHANGED <<file, excluded, skipDb, curVer, faults>>

\* The row was written by an older parser.
Stale == 0 < row.ver /\ row.ver < curVer

ReplaceMessages == job.force \/ job.mode = "single" \/ Stale

\* writeMessages: only messages past the highest stored ordinal are inserted.
Appended == { i \in Content(job.ids) : Ordinal(job.ids, i) > row.count }

\* ReplaceSessionContent or writeMessages.  When the row has been deleted in
\* the meantime the foreign key refuses the messages.
WriteMessages ==
    /\ job.pc = "msgs"
    /\ \/ /\ row.st = "none"
          /\ job' = [job EXCEPT !.pc = IF Messages(job.ids) = {}
                                       THEN "setver" ELSE "finish"]
          /\ UNCHANGED row
       \/ /\ row.st # "none" /\ ReplaceMessages
          /\ row' = [row EXCEPT !.copies = Copies(Content(job.ids)),
                        !.count = Cardinality(Messages(job.ids)),
                        !.pver = curVer]
          /\ job' = [job EXCEPT !.pc = "setver"]
       \/ /\ row.st # "none" /\ ~ReplaceMessages
          /\ row' = [row EXCEPT !.copies = Plus(@, Appended),
                        !.count = @ + Cardinality(Messages(Appended)),
                        !.pver = IF row.count = 0 THEN curVer ELSE @]
          /\ job' = [job EXCEPT !.pc = "setver"]
    /\ UNCHANGED <<file, excluded, skipMem, skipDb, curVer, faults>>

\* The data version is set last.
SetSessionDataVersion_Next ==
    /\ job.pc = "setver"
    /\ row' = [row EXCEPT !.ver = IF row.st = "none" THEN @ ELSE curVer + 1]
    /\ job' = [job EXCEPT !.pc = "finish"]
    /\ UNCHANGED <<file, excluded, skipMem, skipDb, curVer, faults>>
SetSessionDataVersion ==
    /\ job.pc = "setver"
    /\ row' = [row EXCEPT !.ver = IF row.st = "none" THEN @ ELSE curVer]
    /\ job' = [job EXCEPT !.pc = "finish"]
    /\ UNCHANGED <<file, excluded, skipMem, skipDb, curVer, faults>>

-----------------------------------------------------------------------------
(* Storing an appended tail (writeIncremental): messages, then the offset. *)

IncrementalMessages ==
    /\ job.pc = "incmsgs"
    /\ \/ /\ row.st = "none" /\ Messages(job.ids) # {}
          /\ job' = [job EXCEPT !.pc = "finish"]
          /\ UNCHANGED row
       \/ /\ row.st # "none" \/ Messages(job.ids) = {}
          /\ row' = IF row.st = "none" THEN row
                    ELSE [row EXCEPT !.copies = Plus(@, Messages(job.ids)),
                            !.count = @ + Cardinality(Messages(job.ids))]
          /\ job' = [job EXCEPT !.pc = "incrow"]
    /\ UNCHANGED <<file, excluded, skipMem, skipDb, curVer, faults>>

UpdateSessionIncremental_KeepsOffset ==
    /\ job.pc = "incrow"
    /\ row' = IF row.st = "none" THEN row
              ELSE [row EXCEPT !.mtime = job.mtime, !.hash = job.hash]
    /\ job' = [job EXCEPT !.pc = "finish"]
    /\ UNCHANGED <<file, excluded, skipMem, skipDb, curVer, faults>>
UpdateSessionIncremental ==
    /\ job.pc = "incrow"
    /\ row' = IF row.st = "none" THEN row
              ELSE [row EXCEPT !.size = job.size, !.mtime = job.mtime,
                               !.hash = job.hash]
    /\ job' = [job EXCEPT !.pc = "finish"]
    /\ UNCHANGED <<file, excluded, skipMem, skipDb, curVer, faults>>

\* A database write fails: it is rolled back and the file is given up for
\* this sync.
WriteError ==
    /\ job.pc \in {"upsert", "msgs", "setver", "incmsgs", "incrow"}
    /\ Fault("dbfail")
    /\ job' = [job EXCEPT !.pc = "finish"]
    /\ UNCHANGED <<file, row, excluded, skipMem, skipDb, curVer>>

\* The end of the sync; persistSkipCache, which SyncSingleSession leaves out.
Finish ==
    /\ job.pc = "finish"
    /\ skipDb' = IF job.mode = "single" THEN skipDb ELSE skipMem
    /\ job' = NoJob
    /\ UNCHANGED <<file, row, excluded, skipMem, curVer, faults>>

-----------------------------------------------------------------------------
EngineStep ==
    \/ ReadTail \/ FullStat \/ FullRead \/ Collect
    \/ UpsertSession \/ WriteMessages \/ SetSessionDataVersion
    \/ IncrementalMessages \/ UpdateSessionIncremental
    \/ Finish

Failure ==
    \/ ReadTailError \/ FullReadError \/ WriteError
    \/ \E v \in 1 .. MaxVer : Crash(v)

World ==
    \/ Append \/ AppendPartial \/ RewriteSameStat
    \/ \E n \in 1 .. MaxLine : Replace(n)
    \/ SoftDeleteSession \/ RestoreSession \/ DeleteSession
    \/ \E v \in 1 .. MaxVer : Restart(v)

Next ==
    \/ \E m \in Modes, r \in Reparses : Start(m, r)
    \/ EngineStep
    \/ Failure
    \/ World

Spec == Init /\ [][Next]_vars

\* The periodic and the watcher's syncs keep coming and a sync that has begun
\* goes on, so long as the process is up.
Fairness ==
    /\ WF_vars(EngineStep)
    /\ WF_vars(\E r \in Reparses : Start("all", r))

FairSpec == Spec /\ Fairness

-----------------------------------------------------------------------------
(* Properties. *)

Parsed == Copies(Content(LinesFrom(0)))

\* A permanently deleted session never comes back, whatever the point at which
\* the deletion falls into a running sync, a crash or a restart.
ExcludedStaysGone == excluded => row.st = "none"

\* Between syncs, a session the engine would skip as unchanged holds exactly
\* the messages of its file, each once.
FreshIsFaithful ==
    job.pc = "idle" /\ row.st = "live" /\ StatMatches => row.copies = Parsed

\* Everything below the stored offset is stored: the offset of a current row
\* never covers a line whose message is not in the database.
NothingLost ==
    job.pc = "idle" /\ row.st = "live" /\ row.ver >= curVer
        /\ row.ino = file.ino
    => \A i \in Content(LinesFrom(0)) :
          2 * (i - file.base) <= row.size => row.copies[i] > 0

\* What several database writes and a stat before the read put at risk.
Hazardous == {"partial", "grow", "samestat", "crash", "dbfail"}
Calm == file.env \cap Hazardous = {}

\* Where no half line is read, no write falls between a stat and its read, and
\* the writes of a sync are all made or none, the archive is faithful: a
\* session that would be skipped as unchanged is that of its file, although
\* the file is replaced and reading it fails.
CalmIsFaithful == Calm => FreshIsFaithful

\* And everything below the stored offset is stored, although a tail may update
\* messages that are stored already.
CalmLosesNothing == Calm => NothingLost

\* And no line of the transcript is stored as two messages.
NothingTwice == Calm => \A i \in Lines : row.copies[i] <= 1

\* A session marked with the current data version holds no message that an
\* older parser wrote: the version is advanced only after the rewrite.
VersionHonest ==
    row.st # "none" /\ row.ver >= curVer /\ row.count > 0
        => row.pver >= curVer

\* Once the file and the failures are quiet, a session out of the trash ends up
\* and stays marked with the current data version, unless the engine has noted
\* not to look at this version of the file (it could not be parsed, or the
\* session was in the trash when it was).
EventuallyCurrent ==
    <>[](row.st # "trashed")
        => <>[](row.st = "live" /\ skipMem # file.mtime => row.ver = curVer)

\* And a calm session that users leave alone ends up with the content of its
\* file, with the same exception.
EventuallyFaithful ==
    Calm /\ <>[](row.st = "live")
        => <>[](skipMem # file.mtime => row.copies = Parsed)
=============================================================================

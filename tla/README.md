# agentsview: a verification development

agentsview collects the transcripts that coding agents leave on disk, keeps
them in a SQLite archive, and shows them in a browser; background workers
consolidate what was learnt into notes, mirror them and push everything
elsewhere. This directory holds TLA+ models of the parts where steps of several
actors meet, TLC configurations that check them on small instances, and TLAPS
proofs of what matters most.

## 1. Inventory

| Part | State | Operations | Meets whom | What is hard | Correct when |
|---|---|---|---|---|---|
| Sync engine, one transcript (`internal/sync/engine.go`, `internal/db/sessions.go`, `messages.go`) | session row (size, mtime, inode, hash, data version), messages, exclusions | decide skip / tail / full parse; upsert, messages, version; incremental messages, offset | agent appends and replaces; users trash and delete; restarts | several transactions per file, offsets, stale stats | what is skipped as unchanged is the file; nothing lost, nothing twice; deletion is final; a version says what it means |
| Skip cache | mtime per path, in memory and in `skipped_files` | cache, clear, persist, set aside, restore | every sync, rebuilds | two copies, many early returns | memory and database agree between rebuilds; a rebuild starts without it |
| Rebuild (`ResyncAll`, `internal/db/orphaned.go`) | temporary database, closed or open connections, statistics | open, copy, parse, decide, close, copy again, purge, rename, reopen, abort | users on the old database until it is closed, importers, agents that remove files | about twenty steps, each may fail or be the last before a crash | the swap loses no session and nothing a user did; deletions stay final; it ends with the database open |
| File watcher (`internal/sync/watcher.go`) | pending paths with times | handle event, flush | kernel events, `syncMu` | one goroutine that syncs inline | no write is forgotten |
| Broadcaster (`internal/server/broadcaster.go`) | last emit, pending event, timer, generation, channels | Emit, trailing flush, subscribe | engine callers, timers, SSE streams | callbacks that have fired but not run; full channels | rate limit holds; a coalesced event is delivered |
| Views (`frontend/src/lib/stores/sessions.svelte.ts`) | list, refresh timer | event, reload | the stream | filters by scope | what is stored is shown |
| Worker locks (`internal/consolidate/lock.go`, `internal/backup/lock.go`) | a pid file | acquire, reclaim, release | other processes | check and remove are two steps; kills | exclusive, and not blocked for ever by a dead process |
| Workers (`internal/consolidate`, `internal/backup`, `internal/synthesize`, `internal/extract`) | switch, trigger channel; staging directory and notes, or workspace and remote | switch on and off, loop, cycle | ticker, HTTP calls, agents that stage, other processes, kills | a send to a full channel is dropped; script and drain, reset and copy are separate steps | no request is lost; a candidate is acted on once; the remote only moves forward |
| Memory mirror (`internal/memory`, `internal/db/memory.go`, memory routes) | notes on disk, rows with vectors | list, read, embed, replace; edit a note | agents, editors, two syncs at once, a provider | nothing keeps two syncs apart; a bad file among good ones | each sync shows what was there, vectors belong to their text, the mirror catches up |
| PostgreSQL and DuckDB push (`internal/postgres/push.go`, `internal/duckdb`) | watermark, boundary fingerprints, schema memo | list, compare, send, record | local writes during a push, filtered pushes, lost connections, a dropped mirror | watermark against late changes; three writes record a push | no change slips past; the copy only moves forward; every change arrives in the end |
| Daemon (`cmd/agentsview`) | runtime records, four file locks, the API's token | serve, start, stop, restart; find or start one for an MCP call | other processes, signals, reused pids | a look at a lock takes it; records of dead processes | one writer, nobody else is signalled, callers are served in the end |
| Session watcher (`internal/sessionwatch`) | last count and mtimes | poll, fallback sync | engine | its sync races the watcher's | a change is signalled |
| Parsers, search, signals, secrets, pricing, HTTP, importers, ssh, vault, skills, insights, update, telemetry, front end, desktop | little or none of their own | conversions, queries, mirrors | the store | data formats | not a question of interleaving |

`PROJECT.json` lists every part with what of it is modelled or the reason why
it is not, every definition with the lines it models, and the hazards with
their lines and properties.

## 2. Modules

| Module | Part |
|---|---|
| `SourceSync`, `SourceSyncProofs`, `MCSourceSync` | one transcript, its row, the skip entry, the engine's steps; theorems; line kinds and environments for TLC |
| `Resync`, `ResyncProofs` | `ResyncAll` with users, importers, failures and crashes |
| `Notify`, `NotifyProofs` | watcher, sync lock, broadcaster, views |
| `PidLock`, `PidLockProofs` | the protocol of the worker lock |
| `Worker`, `WorkerProofs` | controllers and cycles of the workers; extends `PidLock` and implements it |
| `Mirror`, `MirrorProofs`, `MCMirror` | the pushes to PostgreSQL and DuckDB |
| `Replica` | what a mirror promises; `Mirror` implements it, for its rows and for its messages |
| `Notes`, `NotesProofs`, `MCNotes` | the mirror of a directory of memory notes |
| `Daemon`, `DaemonProofs` | servers, commands and MCP servers, their locks and records |

### SourceSync

`file` is the transcript: lines `base+1 .. base+len`, two bytes each, and half
a line when `part`. Every line ever written has its own number, so a replaced
file has fresh content and a message can be followed from file to row. `Kind`
says what the parser makes of a line: a message, an update of the message
before it, nothing. `row` is the row of `sessions` with its messages as a count
of copies per line; `pver` is a history variable, the version of the parser
that wrote them. `job` is the sync in progress; its `pc` names the step.

`Start` is the decision of `processFileWithPolicy`, `processClaude`,
`processCodex` and `tryIncrementalJSONL` (for the three ways to sync: with the
content audit, by stat only, a single session). `ReadTail`, `FullStat`,
`FullRead` read the file, which may change between them. `UpsertSession`,
`WriteMessages`, `SetSessionDataVersion` and `IncrementalMessages`,
`UpdateSessionIncremental` are the separate transactions of `writeBatch`,
`writeSessionFull` and `writeIncremental`. `Collect` and `Finish` do what the
collector does to the skip cache. `WriteError`, `ReadTailError`,
`FullReadError` and `Crash` are the failures; the usage-event write between
messages and version fails with the same effect as `SetSessionDataVersion` and
is not a step of its own. `syncMu` lets one sync run, so there is one job.

`file.env` is what may happen to this file and its session, chosen initially
from `Envs`. One run can so hold a Claude file with read errors, one with
crashes, failed writes and half lines, and a Codex file that is replaced, and
ask of each what the code claims for it: the properties about content are
stated for `Calm` files, where no half line is read, nothing falls between a
stat and its read, and the writes of a sync are all made or none. The two
disagreements below show that each of the other cases really breaks them.

### Resync

`db` and `temp` are the two database files, `open` whether the usual handle
has connections, `stats` the statistics and local variables of `ResyncAll`.
One action per step; `AbortTo` is what every early return does. A session is
its state, star, revision and whether the current parser produced its
transcript. Failures that the code logs and passes over are recorded in
`lapsed`, and properties that the code itself gives up in that case
("worst case, deleted sessions reappear") say so. Initially the archive holds
any set of sessions, written by an older parser, over any files.

### Notify

Time advances in ticks: `cool` since the last broadcast, `age` since the last
event of a path. `calls` holds the generations of timer callbacks that have
started but not got the mutex. `stale[c]` says the view of client c lacks
something stored since it subscribed. What a sync does to a file is abstracted
to "the database has its current version"; SourceSync has the detail.

### PidLock and Worker

A lock file has an inode, so a process that writes its pid writes to the file
it created even when the path names another; `Inodes` bounds the files ever
created. A killed process stays dead and its pid is not used again.

`Worker` adds what drives a cycle and what it works on. The loop is the
controller's goroutine, which waits for the trigger channel or the ticker and
then looks at the switch; `Fire` is the non-blocking send, dropped when the
channel is full, and separate from the assignment of the switch. A
consolidation cycle reads candidates, asks for decisions, runs the script
(which may act on some and end), drains what was decided and commits; a backup
cycle fetches, resets to the remote, empties and copies each directory,
commits and pushes. The steps of a cycle happen under the lock; `Worker!Spec`
projected on the lock's variables is `PidLock!Spec` (`LockDiscipline`), which
is checked and proved, and so everything proved of the protocol holds of the
workers. `runServe` in `cmd/agentsview/main.go` starts the controllers for
backup and synthesis. `startExtract` is defined there but `runServe` does not
call it, and `cmd/consolidateonce` runs one consolidation cycle without the
loop around it; all of them use the same controller code. A rename that fails in the drain is
left out.

### Mirror and Replica

A session's columns, messages and findings are one revision. The mirror keeps,
for row and messages apart, the revision they were taken from: the row is the
one that was listed, the messages are read when they are sent. A change is
stamped when its transaction begins (`writing`) and visible when it commits.
`Begin` reads the watermark of its scope (and the unscoped key of old
versions), `CheckCoherence` compares it with what the mirror holds,
`ListModified` and `AddBoundary` choose what to send, `SendBatch` and, session
by session, `SendOne` send it, and `RecordWatermark`, `RecordLegacy` and
`RecordFingerprints` are the three local writes that record a push. DuckDB
sends everything in one transaction (`SendDuckDB`) and deletes what is gone.

`Replica` is the specification a reader of the mirror needs: each copy only
moves forward through committed revisions, unless all is lost or its session
is gone. `Rows` and `Messages` instantiate it with `mirror[s].row` and
`mirror[s].msgs`; `MirrorIsReplica` is their conjunction.

### Notes

A note is its body and what its frontmatter makes of it; a vector is named by
the body it was computed from. Each editor's request and the periodic loop run
a sync of their own: list, load the vectors, read file after file, embed,
replace all rows of the source. `touched[p]` (history) holds the notes that
changed or could not be read since sync p listed the directory, `raced` the
syncs whose rows were replaced under them, `refused` the bodies whose embedding
the provider refused: the code then keeps the old vector by design.
`source` chooses between the cross-agent store, which the HTTP routes edit
with a check of the base text, and that of Claude Code.

### Daemon

`proc` is the process behind a pid: a server with its place in `runServe`, a
stranger, or none. `rec` is the runtime record of a pid; it is "own" while the
process with that pid wrote it and "stale" when that process is gone, which is
what comparing creation times finds out. `start`, `owner`, `launch`, `life`
are the four file locks; the kernel frees them when the holder ends (`Dies`).
`cli` is an MCP server, which finds or starts a daemon for every call, or the
terminal, which runs `daemon start`, `stop` and `restart`; `target` and `same`
are the record a stop has read and whether its process still exists. `Quit` is
a SIGTERM or Ctrl-C that no client sent, as the first synchronisation or the
listener gets it.

`isDaemonStarting` looks at the start lock by taking it. The model lets every
such look either leave the lock alone or hold it for a step; the latter counts
as a fault, because whoever runs into it gives up.

## 3. Runs

| Run | Asks | Result |
|---|---|---|
| `source_faithful` | a transcript that grows and is replaced while its session is trashed, restored and deleted and the binary upgraded; errors and crashes by file | types, `CalmIsFaithful`, `CalmLosesNothing`, `NothingTwice`, `VersionHonest`, `ExcludedStaysGone`, `EventuallyFaithful`, `EventuallyCurrent` hold |
| `source_partial_line` | half a line at a full parse | disagreement: the line is lost |
| `source_starved_rewrite` | a failed message write | disagreement: the file is skipped |
| `resync_swap` | a rebuild with two sessions, two user operations, one failure | seven properties and the types hold |
| `notify_events` | watcher, ticker and single syncs; a channel of one | rate limit, delivery, `NoMissedUpdate`, `EventuallyShown` hold |
| `notify_scopes` | a view that filters by scope | disagreement: it misses an event |
| `pidlock_cycles` | two processes with workers, cycles of both kinds, a switch, a failure, a kill in a cycle | `ExclusiveUntilCrash`, `EnableIsPending`, `EvaluatedOnce`, `LockDiscipline`, `BackupForward`, `EventuallyConsolidated`, `EventuallyBackedUp` hold |
| `pidlock_reclaim` | kills anywhere | disagreement: two owners |
| `push_mirror` | pushes of the whole archive and of selected projects to both mirrors; one failure, crash, loss or rebuild | `FingerprintsHonest`, `NothingSlipsPast`, `MirrorIsReplica`, `EventuallyMirrored` hold |
| `push_recovery` | a full push after a loss that fails half way | disagreement: sessions never sent again |
| `memory_notes` | two notes, an editor, the loop, agents; one failure | `VectorsHonest`, `NotesSurvive`, `VectorsKept`, `EventuallyMirrored` hold |
| `daemon_lifecycle` | two clients, two pids, one command, two faults | `OneDaemon`, `NoBystander`, `EventuallyServed` hold |

The disagreements are quoted with their lines under "findings".

Each property of a passing run has a mutant in `PROJECT.json`: an operator
beside the definition it replaces (`Name_Variant`), a bug that could be made
in that code and breaks the property.

### Environments

Some models let a run choose what else may happen, so that a question is not
answered by a disagreement of another kind. What a passing run excludes is
this, and TLC finds the property violated when it is added:

| Module | Excluded | With it |
|---|---|---|
| `SourceSync` | nothing; properties about content are for `Calm` files | `FreshIsFaithful`, `NothingLost` (runs), `NothingTwice` after a crash or growth under a parse |
| `SourceSync` | `io` and `trash` for Codex, whose full parse appends by ordinal | `CalmIsFaithful` and `CalmLosesNothing`: after a read error in the tail, or a parse that began while the session was in the trash, updates of stored messages are not stored, and a replaced file is mixed with the new one |
| `Mirror` | `late`: a change is committed after a later cutoff | `NothingSlipsPast` |
| `Mirror` | `filteredreset`: the mirror is lost where filtered pushes are made | `EventuallyMirrored`, `FingerprintsHonest`, `NothingSlipsPast` |
| `Mirror` | `interrupted`: a full push fails half way | `NothingSlipsPast` (`push_recovery`), `FingerprintsHonest` |
| `Worker` | `scriptdies`: the script ends before it has acted on every decision | `EvaluatedOnce` |
| `Daemon` | `oldconfig` (with `MaxTokens = 2`): configurations loaded before a token is stored are used later | `EventuallyServed`: a second token over the one the daemon keeps |
| `Daemon` | `recordfails`: the runtime record cannot be written | `EventuallyServed`: the start lock is kept and nobody finds the server |
| `Daemon` | `recycled`: a pid changes hands between the last check and the signal | `NoBystander` |

### Bounds

*SourceSync*: four lines are a stored message, an appended one, an update of a
stored one and a line without content, and still leave room for a replacement
that is longer than the file it replaces; two versions are one upgrade; two
faults are a failure and a failure of the retry. *Resync*: two sessions let one
file fail while the other succeeds, which the abort rule counts, and two user
operations are a trash and the deletion that follows it, or an operation before
and one after a copy. *Notify*: three writes are one for the leading edge, one
that is coalesced and one more while its callback is late; a capacity of one
makes every second event meet a full channel; eight, the code's, is used where
drops are not the question. *PidLock*: three processes are a dead one and two
that reclaim its lock. *Worker*: two processes, since a third adds no new
meeting when one of them may be killed; two candidates and batches of one and
two, so that a backlog is longer than a batch and a script may act on half of
it; one revision of each of the two directories is enough for a copy that is
half done. *Mirror*: two sessions, one selected; two revisions of one of them;
the clock has two values, because stamps and cutoffs meet in one millisecond or
not; a batch holds both, and the retries take them one by one. *Notes*: two
notes, so that one is a neighbour of the other; one editor and the loop are two
syncs at once; two edits are a change and a change of it while a sync runs.
*Daemon*: two pids, so that a pid is reused and two servers meet; two clients
race for every lock; with one command a start, stop or restart meets the MCP
calls and servers they have launched; two faults are a kill, a quit or a
stranger, and a collision with what it leaves. One token is enough while `oldconfig` is
excluded, since only one is minted.

`CHECK_DEADLOCK FALSE` is used for PidLock and Worker, where all processes may
be dead and where the bound on lock files ends a behaviour, and for Mirror,
where nothing is left to push once revisions and faults are used up and the
clock stands.

### Fairness

*SourceSync*: a sync that has begun goes on, and the periodic and watcher syncs
keep coming (`startPeriodicSync`). *Resync*: a rebuild that has begun goes on;
nothing is assumed of users, failures, or of who starts one. *Notify*: weak
fairness of time, of the goroutines, timers and of the browser's event loop,
and strong fairness of taking `syncMu`: Go's mutex hands over to a waiter after
a millisecond, so a caller is not passed over for ever. Nothing is assumed of
the tickers: the watcher alone must bring every write into the archive.
*Worker*: a living process goes on and its ticker fires again; nothing of
agents or of the switch, so the liveness properties ask for a worker that stays
on. *Mirror*: a push that has begun goes on, an open transaction is committed,
and pushes of each scope the installation uses keep coming, strongly fair
because pushes of several scopes exclude each other and each has a caller of
its own (`pg push --watch`, a cron job). *Notes*: the loop ticks and its sync
goes on, nothing else. *Daemon*: every process goes on and every client keeps
calling; no lock is assumed to be taken fairly. A client may look at the start
lock at the very moment another needs it for ever; that is not excluded by a
fairness but by counting such collisions as faults.

## 4. Proofs

All theorems hold for every value of the constants that satisfies the named
assumptions (`SourceSyncAssumption`, `PidLockAssumption`, `WorkerAssumption`,
`NotifyAssumption`, `MirrorAssumption`, `NotesAssumption`, `DaemonAssumption`,
`ResyncAssumption`), which say that bounds are numbers, sets are of the right
elements and the archive has finitely many sessions. Each module of proofs also
proves the types, and every invariant that a passing run checks is now a
theorem. The invariants about stored content (`CalmInv`, `Recorded`) were checked
by TLC on small instances before they were proved.

* `SourceSyncProofs!DeletionIsFinal`: `ExcludedStaysGone` is inductive given
  the types, because `UpsertSession` is the only step that creates a row and
  it looks at the exclusions in the transaction that writes.
* `SourceSyncProofs!VersionsAreHonest` (Claude): not inductive. `VersionInv`
  adds that a full parse replaces the messages, that the messages are of the
  current parser when the version is about to be set, and that the tail is
  only read for a row that has messages. Then the incremental path never adds
  to a row of an older parser, and a crash before the last write leaves the old
  version in place. For Codex the premise fails (a full parse may append), and
  the theorem says so by assuming the agent.
* `SourceSyncProofs!CalmFilesAreFaithful`, `CalmFilesLoseNothing`,
  `CalmFilesStoreOnce`: `CalmInv`, of a calm file. `RowCalm` says of a row what
  its columns promise: with the inode of the file it holds the lines up to its
  offset, with its mtime all of them, and a row that counts no messages has
  none. It is suspended while a sync has written one of its two halves (`Settled`);
  then the sync knows what the other half will be (`TailStored`, `FullIds`,
  `FullRow`). `TailStart` and `TailIds` say that a tail begins where the stored
  messages end, or is of a file whose lines are all new; so nothing is stored
  twice. `FullForce` says that a full parse replaces the messages or finds
  none. That last fact fails for Codex after a read error in the tail and for a
  session in the trash, and the properties fail with it; `Mild` excludes those
  two, and nothing for Claude. That a parse which finds no message also has no
  content (`NoMessageNoContent`) rests on a least line, since the model's
  updates become messages when nothing is before them.
* `PidLockProofs!ExclusionHolds`: `ExclusionInv` adds that while nobody is dead
  nobody is about to remove a lock it does not own, and that a lock with an
  owner exists.
* `WorkerProofs!WorkersFollowProtocol` is the refinement of `PidLock`: a step of
  a worker either is one of the protocol's or leaves its variables alone.
  `CyclesExclusive` follows from it and `ExclusionHolds`.
* `WorkerProofs!NoRequestLost`: `ControlInv`. The send is dropped only when a
  request is in the channel already, and the loop takes it out only to look at
  the switch, which has been set before the send.
* `WorkerProofs!CandidatesActedOnOnce`: `CandidateInv`. `Balanced` relates what
  was staged, what is in the directory and what the script has acted on, with
  an exception for the batch of the cycle between script and drain; the
  exclusion makes that cycle the only one.
* `WorkerProofs!WorkerTypeCorrect` ties a cycle to the lock of its process.
* `WorkerProofs!BackupsGoForward`: `CopyInv`. While nobody is dead what the
  remote has, what is committed and what is in the working tree is not ahead of
  the directories, and what a cycle is about to commit is not behind the remote
  (`Ordered`, `Copied`): a directory is copied after the reset, and the lock
  keeps a second cycle out between reset and push.
* `NotifyProofs!PendingDelivered`, `RateHolds`: `TimerInv` relates the timer to
  the clock. An armed timer runs out exactly when the window ends, and a
  callback of the current generation that has not run yet stands for a timer
  that is set; a set timer is armed or has such a callback. So an emit inside
  the window never meets a current callback, and `flushTrailing` only acts when
  the window is over.
* `NotifyProofs!NothingMissed`, where no view filters by scope (`notify_scopes`
  shows why): `NewsInv` says that for a view that lacks something the news is in
  its channel, with its refresh timer, pending in the broadcaster or still to be
  emitted by a caller (`OnItsWay`); a channel that is full when an event is
  dropped has news for its reader. `ViewFollows` says it of a single view that
  does not filter, whatever the others do.
* `ResyncProofs!DeletionsSurvive`, `SkipCacheFollows`, `ArchiveKept`,
  `UserStateKept`, `RevisionTells`, `RebuildComplete`: one invariant, by stages
  of the rebuild. `ConnInv` says which handle has connections when; `DeletionInv`
  which database knows the deletions, `SkipInv` where the skip cache is,
  `CopyInv` what the temporary database has of the old one after each copy, and
  `FreshInv` that a file which was not parsed is counted as failed. Where the
  code gives a promise up because a copy failed (`lapsed`), the theorem does too.
* `MirrorProofs!RowsImplementReplica`, `MessagesImplementReplica`,
  `MirrorImplementsReplica`: initial states map to initial states and every
  step to a step of `Replica` or a stutter. The invariant `Forward` says that
  what waits to be sent is committed and not older than what the mirror has,
  and that an open transaction is not of a deleted session.
* `MirrorProofs!FingerprintsTell`, `NothingSlips`: `Recorded`. What was recorded
  of a session is true of the mirror, or the mirror has been lost and the next
  push will notice, or the push in progress sends everything anew (`Trust`).
  `Cover` says the same of what a push is about to record, stage by stage,
  `Times` that no change is still to be committed with a stamp before a
  watermark or a cutoff, `Marked` that fingerprints are recorded after the
  watermarks. Late commits (`late`) leave the fingerprints true and only hide
  changes from the watermark, so only the second theorem excludes them; the
  other two environments break both.
* `NotesProofs!VectorsAreHonest`: `HonestInv` says of the vectors every sync has
  loaded or gathered what the property says of the rows; `refused` only grows.
* `NotesProofs!EveryNoteSurvives`, `NoVectorLost`: action properties of the
  replacing transaction, from `GatherInv`. Of every sync under way it says that
  the notes it is done with are as on disk unless touched (`Accurate`) and that
  the vectors it has loaded are still those of the rows unless raced (`Kept`).
* `DaemonProofs!OneDaemonAlways`: `OwnerInv` ties the record to the server's
  place in `runServe`, that place to the write-owner lock, and the moment in
  which `daemon start` holds that lock to its holder. A death frees only the
  locks of the dead.
* `DaemonProofs!NoBystanderEver`, for environments without `recycled`:
  `AimInv` says that a stop whose target still has its creation time aims at a
  server, and that at a signal the target either has it or is gone; a pid that
  is aimed at in that moment is not given away.

Only model-checked: the liveness properties (the prover has no fairness), and
the content of a transcript that is not calm, of which the runs with a
disagreement show that it is not kept.

## 5. Not modelled

Formats and text (parsers other than the effect of a line, search, secrets,
signals, pricing) are data, not control. Queries, most of HTTP and the MCP
tools read. Requests to language models, git, ssh and GitHub are external.
SQLite is taken at its word: a transaction happens or does not. The analytics
and usage queries, which are a large part of the code, compute reports from
stored rows in SQL and have no state of their own.

Within the modelled parts these are left out, and no property covers them:

* Rebuild: readers that use the engine's database pointer outside the lock
  while it is exchanged, the write-ahead log that is removed before the
  rename, a `Reopen` that fails after the swap, a session restored from the
  trash during the rebuild, pins, worktree mappings and the archive checks of
  single agents.
* Sync: signals, usage events and subagent links; a row whose version was never
  set; the start time a cancelled sync has stored, which the next quick sync
  believes.
* Watcher: files written to a new directory before its watch is added, and an
  overflow of the kernel's queue.
* Session watcher: its counters and times, and its fallback after an error.
* Worker lock: an empty lock file after a kill between create and write.
* Memory: `FileWriter.Write` compares the base text and renames in two steps,
  although `internal/memory/writer.go` calls the write atomic, so an agent's
  change in between is overwritten; the ledger editor rewrites the whole
  ledger; garbage collection and quality.
* Push: prices, skills and relations; stars and pins of DuckDB; another machine
  that drops and recreates the schema a process believes it has made; the
  parent a session gets by subagent linking without a new stamp.
* Daemon: the startup state, which is only shown; read-only servers, the
  managed caddy, state files of old versions, direct writers of the command
  line, `serve stop`.

## 6. Plan

1. Done: `SourceSync`, `Resync`, `Notify`, `PidLock`, `Worker`, `Mirror` with
   `Replica`, `Notes`, `Daemon`, and the proofs above.
2. An abstract archive (a session is absent, live, trashed or deleted, and
   never leaves deleted) that `SourceSync` and `Resync` implement.
3. Proofs: that `SourceSync` and `Resync` implement that archive; `NothingTwice`
   for Codex without `Mild`, which TLC confirms on small instances and which
   needs that the stored messages are those with the first ordinals.
4. `SessionWatch`: counters, mtimes and the fallback sync, composed with
   `Notify`; quick syncs with the recorded start time.

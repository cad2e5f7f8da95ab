------------------------------- MODULE Notes -------------------------------
(***************************************************************************)
(* The mirror of a directory of memory notes (internal/memory,             *)
(* internal/db/memory.go, the memory routes of internal/server and the     *)
(* sync loops of cmd/agentsview/main.go), for one data source: the         *)
(* cross-agent notes or those of Claude Code.                              *)
(*                                                                         *)
(* The notes on disk are the truth.  A sync lists the directory, loads the *)
(* vectors of the mirror, reads file after file, asks a provider for the   *)
(* vectors it cannot reuse, and replaces the rows of its source in one     *)
(* transaction.  The periodic loop and the handler of every edit run a     *)
(* sync each, and nothing keeps them apart.  Agents write to the directory *)
(* at any time.                                                            *)
(*                                                                         *)
(* A vector is named by the body it was computed from; 0 is no vector, and *)
(* body 0 in a row is no row.                                              *)
(***************************************************************************)
EXTENDS Naturals

CONSTANTS
    Notes,      \* the paths, numbered in the order os.ReadDir returns them
    Bodies,     \* what a note may say
    Files,      \* what may be written to the directory
    Found,      \* the files there may be when the process starts
    Editors,    \* clients of the HTTP routes
    Ticker,     \* the periodic loop
    MaxEdits,   \* bound: changes of the directory
    MaxFaults   \* bound: failures

VARIABLES
    source,   \* whose notes these are
    disk,     \* the file of each note
    rows,     \* the mirror's row of each note: body and vector
    req,      \* the request of each editor
    scan,     \* the sync each editor's handler and the loop is running
    edits,    \* changes of the directory so far
    faults,   \* failures so far
    refused,  \* history: bodies the provider has refused to embed
    touched,  \* history: notes changed or unreadable since a sync listed them
    raced     \* history: syncs whose view of the mirror is not the current one

vars == <<source, disk, rows, req, scan, edits, faults, refused, touched, raced>>

Procs == Editors \cup {Ticker}

Sources == {"cross-agent", "cc-native"}
\* What the frontmatter makes of a file: a note, one that is archived, or one
\* that does not parse.
Forms == {"active", "archived", "malformed"}
Missing == [body |-> 0, form |-> "missing"]

ASSUME NotesAssumption ==
    /\ Notes \subseteq Nat
    /\ Bodies \subseteq Nat \ {0}
    /\ Files \subseteq [body : Bodies, form : Forms]
    /\ Found \subseteq Files \cup {Missing}
    /\ Ticker \notin Editors
    /\ MaxEdits \in Nat
    /\ MaxFaults \in Nat

Row == [body : Bodies \cup {0}, vec : Bodies \cup {0}]
NoRow == [body |-> 0, vec |-> 0]
NoRows == [n \in Notes |-> NoRow]

NoRequest == [pc |-> "idle", note |-> 0, base |-> Missing, next |-> Missing]
NoScan == [pc |-> "idle", embedder |-> FALSE, todo |-> {}, body |-> 0,
           previous |-> NoRows, memories |-> NoRows]

ReqType == [pc : {"idle", "editing", "rename", "remove"}, note : Notes \cup {0},
            base : Files \cup {Missing}, next : Files \cup {Missing}]
ScanType == [pc : {"idle", "list", "load", "read", "embed", "replace"},
             embedder : BOOLEAN, todo : SUBSET Notes, body : Bodies \cup {0},
             previous : [Notes -> Row], memories : [Notes -> Row]]

\* The state is what the code's types allow; a row without a body has no
\* vector.
TypeOK ==
    /\ source \in Sources
    /\ disk \in [Notes -> Files \cup {Missing}]
    /\ rows \in [Notes -> Row] /\ \A n \in Notes : rows[n].body = 0 => rows[n] = NoRow
    /\ req \in [Editors -> ReqType]
    /\ scan \in [Procs -> ScanType]
    /\ edits \in 0 .. MaxEdits /\ faults \in 0 .. MaxFaults
    /\ refused \subseteq Bodies
    /\ touched \in [Procs -> SUBSET Notes]
    /\ raced \in [Procs -> BOOLEAN]

\* The process starts over an empty mirror and runs the first periodic sync.
Init ==
    /\ source \in Sources
    /\ disk \in [Notes -> Found]
    /\ rows = NoRows
    /\ req = [e \in Editors |-> NoRequest]
    /\ scan = [p \in Procs |-> NoScan]
    /\ edits = 0 /\ faults = 0
    /\ refused = {}
    /\ touched = [p \in Procs |-> {}]
    /\ raced = [p \in Procs |-> FALSE]

-----------------------------------------------------------------------------
(* The directory. *)

Scanning(p) == scan[p].pc \notin {"idle", "list"}

\* The file of note n becomes f; a sync that has listed the directory may or
\* may not see it.
Put(n, f) ==
    /\ edits < MaxEdits /\ edits' = edits + 1
    /\ disk' = [disk EXCEPT ![n] = f]
    /\ touched' = [p \in Procs |-> IF Scanning(p) THEN touched[p] \cup {n}
                                                  ELSE touched[p]]

\* An agent, or the script of the consolidation worker, writes or removes a
\* note.
AgentEdits ==
    /\ \E n \in Notes : \E f \in (Files \cup {Missing}) \ {disk[n]} : Put(n, f)
    /\ UNCHANGED <<source, rows, req, scan, faults, refused, raced>>

-----------------------------------------------------------------------------
(* The routes.  A note is found through its row (writerForRelPath). *)

\* humaGetMemoryRaw: the editor gets the file and its hash.
Open(e) ==
    /\ req[e].pc = "idle" /\ scan[e].pc = "idle"
    /\ \E n \in Notes :
          /\ rows[n].body # 0 /\ disk[n] # Missing
          /\ req' = [req EXCEPT ![e] = [req[e] EXCEPT !.pc = "editing", !.note = n,
                                                 !.base = disk[n]]]
    /\ UNCHANGED <<source, disk, rows, scan, edits, faults, refused, touched, raced>>

\* The row is there and the file is still the one that was opened; otherwise
\* the answer is 404 or 409.
BaseHolds(e) ==
    /\ rows[req[e].note].body # 0
    /\ disk[req[e].note] = req[e].base

\* FileWriter.Write, Revert and Delete up to the comparison with the base.
CheckBase(e) ==
    /\ req[e].pc = "editing"
    /\ IF BaseHolds(e)
       THEN \/ \E f \in Files :
                  req' = [req EXCEPT ![e] = [req[e] EXCEPT !.pc = "rename", !.base = Missing,
                                                      !.next = f]]
            \/ req' = [req EXCEPT ![e] = [req[e] EXCEPT !.pc = "remove", !.base = Missing]]
       ELSE req' = [req EXCEPT ![e] = NoRequest]
    /\ UNCHANGED <<source, disk, rows, scan, edits, faults, refused, touched, raced>>

StartScan(p, embedder) ==
    scan' = [scan EXCEPT ![p] = [NoScan EXCEPT !.pc = "list", !.embedder = embedder]]

\* The rename or removal takes effect, and the handler goes on with a sync.
Commit(e) ==
    /\ \/ req[e].pc = "rename" /\ Put(req[e].note, req[e].next)
       \/ /\ req[e].pc = "remove" /\ disk[req[e].note] # Missing
          /\ Put(req[e].note, Missing)
    /\ req' = [req EXCEPT ![e] = NoRequest]
    /\ StartScan(e, TRUE)
    /\ UNCHANGED <<source, rows, faults, refused, raced>>

\* The file to remove is gone: an error, and no sync.
RemoveFails(e) ==
    /\ req[e].pc = "remove" /\ disk[req[e].note] = Missing
    /\ req' = [req EXCEPT ![e] = NoRequest]
    /\ UNCHANGED <<source, disk, rows, scan, edits, faults, refused, touched, raced>>

-----------------------------------------------------------------------------
(* Syncer.Sync and CCSyncer.Sync. *)

\* startMemorySync, startCCMemorySync: at once and at every tick.
Tick ==
    /\ scan[Ticker].pc = "idle"
    /\ StartScan(Ticker, TRUE)
    /\ UNCHANGED <<source, disk, rows, req, edits, faults, refused, touched, raced>>

List(p) ==
    /\ scan[p].pc = "list"
    /\ scan' = [scan EXCEPT ![p] = [scan[p] EXCEPT !.pc = "load",
                                    !.todo = { n \in Notes : disk[n] # Missing }]]
    /\ touched' = [touched EXCEPT ![p] = {}]
    /\ UNCHANGED <<source, disk, rows, req, edits, faults, refused, raced>>

\* loadPreviousEmbeddings; an error leaves the map empty.
LoadAs(p, previous) ==
    /\ scan[p].pc = "load"
    /\ scan' = [scan EXCEPT ![p] = [scan[p] EXCEPT
                   !.pc = IF scan[p].todo = {} THEN "replace" ELSE "read",
                   !.previous = previous]]
    /\ UNCHANGED <<source, disk, rows, req, edits, refused, touched>>

Load(p) ==
    /\ LoadAs(p, rows)
    /\ raced' = [raced EXCEPT ![p] = FALSE]
    /\ UNCHANGED faults

\* The note that is being read; files come in the order of their names.
Current(p, n) == n \in scan[p].todo /\ \A k \in scan[p].todo : n <= k

\* The sync is done with note n, whose row will be r, and with its old vector.
Without(p, n, r) ==
    [scan[p] EXCEPT !.pc = IF scan[p].todo = {n} THEN "replace" ELSE "read",
                    !.todo = scan[p].todo \ {n},
                    !.body = 0,
                    !.previous = [scan[p].previous EXCEPT ![n] = NoRow],
                    !.memories = [scan[p].memories EXCEPT ![n] = r]]

NoteDone(p, n, r) == scan' = [scan EXCEPT ![p] = Without(p, n, r)]

\* Notes of other agents are mirrored when active; those of Claude Code have
\* no status to speak of.
Mirrored(f) ==
    \/ f.form = "active"
    \/ f.form = "archived" /\ source = "cc-native"

\* Mutant: whatever vector the path has.
Reusable_AnyBody(p, n, b) ==
    scan[p].previous[n].vec # 0

\* Mutant: an unchanged note keeps what it has, be it no vector.
Reusable_NoVector(p, n, b) ==
    scan[p].previous[n].body = b

\* reusePreviousEmbedding: the vector of the same body.
Reusable(p, n, b) ==
    scan[p].previous[n].body = b /\ scan[p].previous[n].vec # 0

\* Mutant: a file that is no note ends the loop.
Read_Breaks(p) ==
    /\ scan[p].pc = "read"
    /\ \E n \in Notes :
          /\ Current(p, n)
          /\ IF ~Mirrored(disk[n])
             THEN scan' = [scan EXCEPT ![p] = [scan[p] EXCEPT !.pc = "replace", !.todo = {}]]
             ELSE LET b == disk[n].body IN
                  IF Reusable(p, n, b)
                  THEN NoteDone(p, n, [body |-> b, vec |-> scan[p].previous[n].vec])
                  ELSE IF ~scan[p].embedder
                  THEN NoteDone(p, n, [body |-> b, vec |-> 0])
                  ELSE scan' = [scan EXCEPT ![p] = [scan[p] EXCEPT !.pc = "embed", !.body = b]]
    /\ UNCHANGED <<source, disk, rows, req, edits, faults, refused, touched, raced>>

\* parseFile, and populateMemoryEmbedding up to the request to the provider.
Read(p) ==
    /\ scan[p].pc = "read"
    /\ \E n \in Notes :
          /\ Current(p, n)
          /\ IF ~Mirrored(disk[n])
             THEN NoteDone(p, n, NoRow)
             ELSE LET b == disk[n].body IN
                  IF Reusable(p, n, b)
                  THEN NoteDone(p, n, [body |-> b, vec |-> scan[p].previous[n].vec])
                  ELSE IF ~scan[p].embedder
                  THEN NoteDone(p, n, [body |-> b, vec |-> 0])
                  ELSE scan' = [scan EXCEPT ![p] = [scan[p] EXCEPT !.pc = "embed", !.body = b]]
    /\ UNCHANGED <<source, disk, rows, req, edits, faults, refused, touched, raced>>

Embed(p) ==
    /\ scan[p].pc = "embed"
    /\ \E n \in Notes :
          /\ Current(p, n)
          /\ NoteDone(p, n, [body |-> scan[p].body, vec |-> scan[p].body])
    /\ UNCHANGED <<source, disk, rows, req, edits, faults, refused, touched, raced>>

\* ReplaceMemoriesBySource.  Syncs that loaded the rows before see others now.
Replace(p) ==
    /\ scan[p].pc = "replace"
    /\ rows' = scan[p].memories
    /\ scan' = [scan EXCEPT ![p] = NoScan]
    /\ raced' = [q \in Procs |-> IF q = p THEN FALSE ELSE raced[q] \/ Scanning(q)]
    /\ touched' = [touched EXCEPT ![p] = {}]
    /\ UNCHANGED <<source, disk, req, edits, faults, refused>>

-----------------------------------------------------------------------------
(* Failures. *)

Fault == faults < MaxFaults /\ faults' = faults + 1

\* A sync ends with an error.  The handler of an edit tries once more without
\* embeddings (resyncMemorySource); the loop waits for its next tick.
Fail(p) ==
    /\ IF p # Ticker /\ scan[p].embedder
       THEN StartScan(p, FALSE)
       ELSE scan' = [scan EXCEPT ![p] = NoScan]
    /\ touched' = [touched EXCEPT ![p] = {}]
    /\ raced' = [raced EXCEPT ![p] = FALSE]

\* The directory cannot be read.  For Claude Code that means no notes.
ListFails(p) ==
    /\ Fault
    /\ scan[p].pc = "list"
    /\ IF source = "cross-agent"
       THEN Fail(p)
       ELSE /\ scan' = [scan EXCEPT ![p] = [scan[p] EXCEPT !.pc = "replace"]]
            /\ touched' = [touched EXCEPT ![p] = Notes]
            /\ raced' = [raced EXCEPT ![p] = TRUE]
    /\ UNCHANGED <<source, disk, rows, req, edits, refused>>

LoadFails(p) ==
    /\ Fault
    /\ LoadAs(p, NoRows)
    /\ raced' = [raced EXCEPT ![p] = TRUE]

\* One file cannot be read; the others are.
ReadFails(p) ==
    /\ Fault
    /\ scan[p].pc = "read"
    /\ \E n \in Notes :
          /\ Current(p, n)
          /\ NoteDone(p, n, NoRow)
          /\ touched' = [touched EXCEPT ![p] = touched[p] \cup {n}]
    /\ UNCHANGED <<source, disk, rows, req, edits, refused, raced>>

\* Mutant: no vector is better than an old one.
EmbedFails_Drops(p) ==
    /\ Fault
    /\ scan[p].pc = "embed"
    /\ \E n \in Notes :
          /\ Current(p, n)
          /\ NoteDone(p, n, [body |-> scan[p].body, vec |-> 0])
    /\ refused' = refused \cup {scan[p].body}
    /\ UNCHANGED <<source, disk, rows, req, edits, touched, raced>>

\* carryPreviousEmbedding: the vector of whatever the note said before.
EmbedFails(p) ==
    /\ Fault
    /\ scan[p].pc = "embed"
    /\ \E n \in Notes :
          /\ Current(p, n)
          /\ NoteDone(p, n, [body |-> scan[p].body, vec |-> scan[p].previous[n].vec])
    /\ refused' = refused \cup {scan[p].body}
    /\ UNCHANGED <<source, disk, rows, req, edits, touched, raced>>

\* The transaction fails, or the request was cancelled while the sync ran.
ReplaceFails(p) ==
    /\ Fault
    /\ scan[p].pc = "replace"
    /\ Fail(p)
    /\ UNCHANGED <<source, disk, rows, req, edits, refused>>

-----------------------------------------------------------------------------

Advance(p) == List(p) \/ Load(p) \/ Read(p) \/ Embed(p) \/ Replace(p)

Next ==
    \/ AgentEdits
    \/ Tick
    \/ \E e \in Editors : Open(e) \/ CheckBase(e) \/ Commit(e) \/ RemoveFails(e)
    \/ \E p \in Procs :
          \/ Advance(p)
          \/ ListFails(p) \/ LoadFails(p) \/ ReadFails(p) \/ EmbedFails(p)
          \/ ReplaceFails(p)

Spec == Init /\ [][Next]_vars

\* The loop ticks for as long as the process runs, and a sync that has begun
\* goes on.  Nothing is assumed of agents and editors.
Fairness == WF_vars(Tick) /\ WF_vars(Advance(Ticker))

FairSpec == Spec /\ Fairness

-----------------------------------------------------------------------------
(* Properties. *)

\* Vectors honest: a row's vector is that of its body, unless the provider
\* has refused that body, whatever syncs ran into each other
\* (populateMemoryEmbedding: "changed bodies drop/recompute the vector").
HonestRow(r) == r.vec \in {0, r.body} \/ r.body \in refused
VectorsHonest == \A n \in Notes : HonestRow(rows[n])

\* The mirror of a note is what its file says.
Faithful(n, r) ==
    IF Mirrored(disk[n]) THEN r.body = disk[n].body ELSE r = NoRow

\* Notes survive: a sync that replaces the rows has every note that could be
\* read and did not change meanwhile, and no other, although some of its
\* neighbours were malformed, unreadable or refused by the provider ("one bad
\* file never blanks the whole mirror").
NotesSurvive ==
    [][ \A p \in Procs : Replace(p) =>
           \A n \in Notes \ touched[p] : Faithful(n, rows'[n]) ]_vars

\* Vectors kept: a sync takes no vector from a note that it mirrors ("never
\* downgrade what is already stored"), unless it runs without a provider and
\* the note has changed, its own load has failed, or another sync has replaced
\* the rows since.
VectorsKept ==
    [][ \A p \in Procs : Replace(p) /\ ~raced[p] =>
           \A n \in Notes :
              /\ rows[n].vec # 0 /\ rows'[n].body # 0
              /\ scan[p].embedder \/ rows'[n].body = rows[n].body
              => rows'[n].vec # 0 ]_vars

\* Eventually mirrored: when the notes no longer change, every note that can
\* be shown is shown with its text and can be found by a vector, and no other,
\* although a slower sync may have put back an older state or the provider
\* was away.
EventuallyMirrored ==
    <>[](\A n \in Notes : /\ Faithful(n, rows[n])
                          /\ rows[n].body # 0 => rows[n].vec # 0)
=============================================================================

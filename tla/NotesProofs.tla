---------------------------- MODULE NotesProofs ----------------------------
(***************************************************************************)
(* Theorems about the mirror of the notes: its types, that vectors are     *)
(* honest, that every sync shows the notes it could read, and that a sync  *)
(* takes no vector away.                                                   *)
(***************************************************************************)
EXTENDS Notes, TLAPS

RowOK(r) == r \in Row /\ (r.body = 0 => r = NoRow)

\* What the types do not say of a sync: the rows it holds are rows, and the
\* body it has sent to the provider is one.
ScanOK(p) ==
    /\ \A n \in Notes : RowOK(scan[p].previous[n]) /\ RowOK(scan[p].memories[n])
    /\ scan[p].pc = "embed" => scan[p].body \in Bodies

\* A request under way is for a note.
ReqOK(e) == req[e].pc # "idle" => req[e].note \in Notes

TypeInv ==
    /\ TypeOK
    /\ \A p \in Procs : ScanOK(p)
    /\ \A e \in Editors : ReqOK(e)

-----------------------------------------------------------------------------
(* What the steps do to the sync they advance. *)

LEMMA RowFacts == NoRow \in Row /\ RowOK(NoRow) /\ NoRows \in [Notes -> Row]
  BY NotesAssumption DEF NoRow, NoRows, Row, RowOK

LEMMA NoScanTyped ==
  ASSUME NEW pc \in {"idle", "list"}, NEW b \in BOOLEAN
  PROVE  [NoScan EXCEPT !.pc = pc, !.embedder = b] \in ScanType
  BY RowFacts DEF NoScan, ScanType

LEMMA NoScanIsScan == NoScan \in ScanType
  BY RowFacts DEF NoScan, ScanType

\* A sync replaced by a typed one leaves the others as they were.
LEMMA ScanSet ==
  ASSUME TypeInv, NEW p \in Procs, NEW r \in ScanType,
         \A n \in Notes : RowOK(r.previous[n]) /\ RowOK(r.memories[n]),
         r.pc = "embed" => r.body \in Bodies,
         scan' = [scan EXCEPT ![p] = r]
  PROVE  scan' \in [Procs -> ScanType] /\ (\A q \in Procs : ScanOK(q)')
<1>1. scan \in [Procs -> ScanType]
  BY DEF TypeInv, TypeOK
<1>2. scan'[p] = r /\ \A q \in Procs : q # p => scan'[q] = scan[q]
  BY <1>1
<1>3. scan' \in [Procs -> ScanType]
  BY <1>1
<1>4. ASSUME NEW q \in Procs PROVE ScanOK(q)'
  <2>1. CASE q = p
    BY <2>1, <1>2 DEF ScanOK, RowOK
  <2>2. CASE q # p
    BY <2>2, <1>2 DEF ScanOK, RowOK, TypeInv
  <2> QED BY <2>1, <2>2
<1> QED BY <1>3, <1>4

LEMMA StartScanTyped ==
  ASSUME TypeInv, NEW p \in Procs, NEW b \in BOOLEAN, StartScan(p, b)
  PROVE  scan' \in [Procs -> ScanType] /\ (\A q \in Procs : ScanOK(q)')
<1> DEFINE r == [NoScan EXCEPT !.pc = "list", !.embedder = b]
<1>1. r \in ScanType
  BY NoScanTyped
<1>2. /\ r.pc = "list"
      /\ \A n \in Notes : RowOK(r.previous[n]) /\ RowOK(r.memories[n])
  BY RowFacts DEF NoScan, NoRows
<1>3. scan' = [scan EXCEPT ![p] = r]
  BY DEF StartScan
<1> HIDE DEF r
<1> QED BY <1>1, <1>2, <1>3, ScanSet

LEMMA EndScanTyped ==
  ASSUME TypeInv, NEW p \in Procs, scan' = [scan EXCEPT ![p] = NoScan]
  PROVE  scan' \in [Procs -> ScanType] /\ (\A q \in Procs : ScanOK(q)')
<1>1. /\ NoScan.pc = "idle"
      /\ \A n \in Notes : RowOK(NoScan.previous[n]) /\ RowOK(NoScan.memories[n])
  BY RowFacts DEF NoScan, NoRows
<1> QED BY <1>1, NoScanIsScan, ScanSet

LEMMA NoteDoneTyped ==
  ASSUME TypeInv, NEW p \in Procs, NEW n \in Notes, NEW r, RowOK(r), NoteDone(p, n, r)
  PROVE  scan' \in [Procs -> ScanType] /\ (\A q \in Procs : ScanOK(q)')
<1> DEFINE s == Without(p, n, r)
<1>1. scan[p] \in ScanType
  BY DEF TypeInv, TypeOK
<1>2. s \in ScanType
  BY <1>1, RowFacts DEF ScanType, RowOK, Without
<1>3. s.pc # "embed"
  BY <1>1 DEF ScanType, Without
<1>4. ASSUME NEW k \in Notes PROVE RowOK(s.previous[k]) /\ RowOK(s.memories[k])
  <2>1. RowOK(scan[p].previous[k]) /\ RowOK(scan[p].memories[k])
    BY DEF TypeInv, ScanOK
  <2>2. s.previous[k] = (IF k = n THEN NoRow ELSE scan[p].previous[k])
    BY <1>1 DEF ScanType, Without
  <2>3. s.memories[k] = (IF k = n THEN r ELSE scan[p].memories[k])
    BY <1>1 DEF ScanType, Without
  <2> HIDE DEF s
  <2> QED BY <2>1, <2>2, <2>3, RowFacts
<1>5. scan' = [scan EXCEPT ![p] = s]
  BY DEF NoteDone
<1> HIDE DEF s
<1> QED BY <1>2, <1>3, <1>4, <1>5, ScanSet

-----------------------------------------------------------------------------
(* Types. *)

LEMMA TypeInit == Init => TypeInv
<1> SUFFICES ASSUME Init PROVE TypeInv
  OBVIOUS
<1>1. scan \in [Procs -> ScanType]
  BY NoScanIsScan DEF Init
<1>2. \A p \in Procs : ScanOK(p)
  BY RowFacts DEF Init, ScanOK, NoScan, NoRows
<1>3. req \in [Editors -> ReqType] /\ \A e \in Editors : ReqOK(e)
  BY DEF Init, NoRequest, ReqType, ReqOK
<1>4. rows \in [Notes -> Row] /\ \A n \in Notes : rows[n].body = 0 => rows[n] = NoRow
  BY RowFacts DEF Init, NoRows
<1>5. disk \in [Notes -> Files \cup {Missing}]
  BY NotesAssumption DEF Init
<1>6. source \in Sources /\ edits \in 0 .. MaxEdits /\ faults \in 0 .. MaxFaults
  BY NotesAssumption DEF Init
<1>7. /\ refused \subseteq Bodies
      /\ touched \in [Procs -> SUBSET Notes]
      /\ raced \in [Procs -> BOOLEAN]
  BY DEF Init
<1> QED BY <1>1, <1>2, <1>3, <1>4, <1>5, <1>6, <1>7 DEF TypeInv, TypeOK

\* A change of the directory is typed, and marks notes only.
LEMMA PutTyped ==
  ASSUME TypeInv, NEW n \in Notes, NEW f \in Files \cup {Missing}, Put(n, f)
  PROVE  /\ disk' \in [Notes -> Files \cup {Missing}]
         /\ edits' \in 0 .. MaxEdits
         /\ touched' \in [Procs -> SUBSET Notes]
<1>1. /\ disk \in [Notes -> Files \cup {Missing}]
      /\ edits \in 0 .. MaxEdits
      /\ touched \in [Procs -> SUBSET Notes]
  BY DEF TypeInv, TypeOK
<1>2. disk' \in [Notes -> Files \cup {Missing}]
  BY <1>1 DEF Put
<1>3. edits' \in 0 .. MaxEdits
  BY <1>1, NotesAssumption DEF Put
<1>4. touched' \in [Procs -> SUBSET Notes]
  BY <1>1 DEF Put
<1> QED BY <1>2, <1>3, <1>4

LEMMA FaultTyped ==
  ASSUME TypeInv, Fault PROVE faults' \in 0 .. MaxFaults
  BY NotesAssumption DEF Fault, TypeInv, TypeOK

\* The history variables of a sync that ends or starts over.
LEMMA FailTyped ==
  ASSUME TypeInv, NEW p \in Procs, Fail(p)
  PROVE  /\ scan' \in [Procs -> ScanType] /\ (\A q \in Procs : ScanOK(q)')
         /\ touched' \in [Procs -> SUBSET Notes]
         /\ raced' \in [Procs -> BOOLEAN]
<1>1. touched' \in [Procs -> SUBSET Notes] /\ raced' \in [Procs -> BOOLEAN]
  BY DEF Fail, TypeInv, TypeOK
<1>2. scan' \in [Procs -> ScanType] /\ (\A q \in Procs : ScanOK(q)')
  <2>1. CASE p # Ticker /\ scan[p].embedder
    BY <2>1, StartScanTyped DEF Fail
  <2>2. CASE ~(p # Ticker /\ scan[p].embedder)
    BY <2>2, EndScanTyped DEF Fail
  <2> QED BY <2>1, <2>2
<1> QED BY <1>1, <1>2

\* A body on disk that the mirror shows is a body.
LEMMA MirroredBody ==
  ASSUME TypeInv, NEW n \in Notes, Mirrored(disk[n])
  PROVE  disk[n].body \in Bodies
<1>1. disk[n] \in Files \cup {Missing}
  BY DEF TypeInv, TypeOK
<1>2. disk[n] # Missing
  BY DEF Mirrored, Missing
<1> QED BY <1>1, <1>2, NotesAssumption

\* What Read does to the sync: a row, or a request to the provider.
LEMMA ReadCases ==
  ASSUME TypeInv, NEW p \in Procs, Read(p)
  PROVE  \E n \in Notes :
            /\ Current(p, n)
            /\ \/ /\ ~Mirrored(disk[n]) /\ NoteDone(p, n, NoRow)
               \/ /\ Mirrored(disk[n]) /\ disk[n].body \in Bodies
                  /\ \/ /\ Reusable(p, n, disk[n].body)
                        /\ NoteDone(p, n, [body |-> disk[n].body,
                                           vec |-> scan[p].previous[n].vec])
                     \/ /\ ~Reusable(p, n, disk[n].body) /\ ~scan[p].embedder
                        /\ NoteDone(p, n, [body |-> disk[n].body, vec |-> 0])
                     \/ scan' = [scan EXCEPT ![p] =
                                   [scan[p] EXCEPT !.pc = "embed", !.body = disk[n].body]]
<1>1. PICK n \in Notes :
         /\ Current(p, n)
         /\ IF ~Mirrored(disk[n])
            THEN NoteDone(p, n, NoRow)
            ELSE LET b == disk[n].body IN
                 IF Reusable(p, n, b)
                 THEN NoteDone(p, n, [body |-> b, vec |-> scan[p].previous[n].vec])
                 ELSE IF ~scan[p].embedder
                 THEN NoteDone(p, n, [body |-> b, vec |-> 0])
                 ELSE scan' = [scan EXCEPT ![p] =
                                  [scan[p] EXCEPT !.pc = "embed", !.body = b]]
  BY DEF Read
<1>2. Mirrored(disk[n]) => disk[n].body \in Bodies
  BY MirroredBody
<1> QED BY <1>1, <1>2

\* Rows made of a body and a vector.
LEMMA RowMade ==
  ASSUME NEW b \in Bodies, NEW v \in Bodies \cup {0}
  PROVE  RowOK([body |-> b, vec |-> v])
  BY NotesAssumption DEF RowOK, Row

LEMMA ReadTyped ==
  ASSUME TypeInv, NEW p \in Procs, Read(p)
  PROVE  scan' \in [Procs -> ScanType] /\ (\A q \in Procs : ScanOK(q)')
<1>1. PICK n \in Notes :
         \/ /\ ~Mirrored(disk[n]) /\ NoteDone(p, n, NoRow)
         \/ /\ Mirrored(disk[n]) /\ disk[n].body \in Bodies
            /\ \/ NoteDone(p, n, [body |-> disk[n].body,
                                  vec |-> scan[p].previous[n].vec])
               \/ NoteDone(p, n, [body |-> disk[n].body, vec |-> 0])
               \/ scan' = [scan EXCEPT ![p] =
                             [scan[p] EXCEPT !.pc = "embed", !.body = disk[n].body]]
  BY ReadCases
<1>2. scan[p] \in ScanType
  BY DEF TypeInv, TypeOK
<1>3. scan[p].previous[n].vec \in Bodies \cup {0}
  BY <1>2 DEF ScanType, Row
<1>4. CASE NoteDone(p, n, NoRow)
  BY <1>4, RowFacts, NoteDoneTyped
<1>5. CASE /\ disk[n].body \in Bodies
           /\ NoteDone(p, n, [body |-> disk[n].body, vec |-> scan[p].previous[n].vec])
  BY <1>5, <1>3, RowMade, NoteDoneTyped
<1>6. CASE /\ disk[n].body \in Bodies
           /\ NoteDone(p, n, [body |-> disk[n].body, vec |-> 0])
  BY <1>6, RowMade, NoteDoneTyped
<1>7. CASE /\ disk[n].body \in Bodies
           /\ scan' = [scan EXCEPT ![p] =
                         [scan[p] EXCEPT !.pc = "embed", !.body = disk[n].body]]
  <2> DEFINE r == [scan[p] EXCEPT !.pc = "embed", !.body = disk[n].body]
  <2>1. r \in ScanType
    BY <1>2, <1>7 DEF ScanType
  <2>2. /\ r.previous = scan[p].previous /\ r.memories = scan[p].memories
        /\ r.body \in Bodies
    BY <1>2, <1>7 DEF ScanType
  <2>3. \A k \in Notes : RowOK(r.previous[k]) /\ RowOK(r.memories[k])
    BY <2>2 DEF TypeInv, ScanOK
  <2>4. scan' = [scan EXCEPT ![p] = r]
    BY <1>7
  <2> HIDE DEF r
  <2> QED BY <2>1, <2>2, <2>3, <2>4, ScanSet
<1> QED BY <1>1, <1>4, <1>5, <1>6, <1>7

\* A sync keeps what it holds when only its place changes.
LEMMA MoveTyped ==
  ASSUME TypeInv, NEW p \in Procs, NEW r \in ScanType,
         \A n \in Notes : RowOK(r.previous[n]),
         r.memories = scan[p].memories, r.pc # "embed",
         scan' = [scan EXCEPT ![p] = r]
  PROVE  scan' \in [Procs -> ScanType] /\ (\A q \in Procs : ScanOK(q)')
<1>1. \A n \in Notes : RowOK(r.previous[n]) /\ RowOK(r.memories[n])
  BY DEF TypeInv, ScanOK
<1> QED BY <1>1, ScanSet

LEMMA LoadTyped ==
  ASSUME TypeInv, NEW p \in Procs, NEW f \in {rows, NoRows}, LoadAs(p, f)
  PROVE  scan' \in [Procs -> ScanType] /\ (\A q \in Procs : ScanOK(q)')
<1> DEFINE r == [scan[p] EXCEPT !.pc = IF scan[p].todo = {} THEN "replace" ELSE "read",
                                !.previous = f]
<1>1. scan[p] \in ScanType /\ f \in [Notes -> Row]
  BY RowFacts DEF TypeInv, TypeOK
<1>2. \A n \in Notes : RowOK(f[n])
  BY RowFacts DEF TypeInv, TypeOK, RowOK, NoRows
<1>3. r \in ScanType /\ r.previous = f /\ r.memories = scan[p].memories /\ r.pc # "embed"
  BY <1>1 DEF ScanType
<1>4. scan' = [scan EXCEPT ![p] = r]
  BY DEF LoadAs
<1> HIDE DEF r
<1> QED BY <1>2, <1>3, <1>4, MoveTyped

LEMMA ListTyped ==
  ASSUME TypeInv, NEW p \in Procs, List(p)
  PROVE  scan' \in [Procs -> ScanType] /\ (\A q \in Procs : ScanOK(q)')
<1> DEFINE r == [scan[p] EXCEPT !.pc = "load", !.todo = { n \in Notes : disk[n] # Missing }]
<1>1. scan[p] \in ScanType
  BY DEF TypeInv, TypeOK
<1>2. /\ r \in ScanType /\ r.previous = scan[p].previous
      /\ r.memories = scan[p].memories /\ r.pc # "embed"
  BY <1>1 DEF ScanType
<1>3. \A n \in Notes : RowOK(r.previous[n])
  BY <1>2 DEF TypeInv, ScanOK
<1>4. scan' = [scan EXCEPT ![p] = r]
  BY DEF List
<1> HIDE DEF r
<1> QED BY <1>2, <1>3, <1>4, MoveTyped

LEMMA ListFailsTyped ==
  ASSUME TypeInv, NEW p \in Procs, ListFails(p)
  PROVE  /\ scan' \in [Procs -> ScanType] /\ (\A q \in Procs : ScanOK(q)')
         /\ touched' \in [Procs -> SUBSET Notes]
         /\ raced' \in [Procs -> BOOLEAN]
<1>1. CASE source = "cross-agent"
  BY <1>1, FailTyped DEF ListFails
<1>2. CASE source # "cross-agent"
  <2> DEFINE r == [scan[p] EXCEPT !.pc = "replace"]
  <2>1. scan[p] \in ScanType
    BY DEF TypeInv, TypeOK
  <2>2. /\ r \in ScanType /\ r.previous = scan[p].previous
        /\ r.memories = scan[p].memories /\ r.pc # "embed"
    BY <2>1 DEF ScanType
  <2>3. \A n \in Notes : RowOK(r.previous[n])
    BY <2>2 DEF TypeInv, ScanOK
  <2>4. scan' = [scan EXCEPT ![p] = r]
    BY <1>2 DEF ListFails
  <2>5. touched' \in [Procs -> SUBSET Notes] /\ raced' \in [Procs -> BOOLEAN]
    BY <1>2 DEF ListFails, TypeInv, TypeOK
  <2> HIDE DEF r
  <2> QED BY <2>2, <2>3, <2>4, <2>5, MoveTyped
<1> QED BY <1>1, <1>2

LEMMA EmbedTyped ==
  ASSUME TypeInv, NEW p \in Procs, scan[p].pc = "embed", NEW n \in Notes,
         NEW v \in Bodies \cup {0},
         NoteDone(p, n, [body |-> scan[p].body, vec |-> v])
  PROVE  scan' \in [Procs -> ScanType] /\ (\A q \in Procs : ScanOK(q)')
<1>1. scan[p].body \in Bodies
  BY DEF TypeInv, ScanOK
<1> QED BY <1>1, RowMade, NoteDoneTyped

\* The steps of a request.
LEMMA RequestTyped ==
  ASSUME TypeInv, NEW e \in Editors,
         Open(e) \/ CheckBase(e) \/ Commit(e) \/ RemoveFails(e)
  PROVE  req' \in [Editors -> ReqType] /\ \A d \in Editors : ReqOK(d)'
<1>1. /\ req \in [Editors -> ReqType] /\ req[e] \in ReqType
      /\ disk \in [Notes -> Files \cup {Missing}]
      /\ \A d \in Editors : ReqOK(d)
  BY DEF TypeInv, TypeOK
<1>2. NoRequest \in ReqType /\ NoRequest.pc = "idle"
  BY DEF NoRequest, ReqType
<1>3. CASE Open(e)
  <2>1. PICK n \in Notes :
          req' = [req EXCEPT ![e] = [req[e] EXCEPT !.pc = "editing", !.note = n,
                                                   !.base = disk[n]]]
    BY <1>3 DEF Open
  <2> QED BY <2>1, <1>1 DEF ReqType, ReqOK
<1>4. CASE CheckBase(e)
  <2>1. CASE BaseHolds(e) /\ \E f \in Files :
               req' = [req EXCEPT ![e] = [req[e] EXCEPT !.pc = "rename", !.base = Missing,
                                                        !.next = f]]
    <3>1. req[e].note \in Notes
      BY <1>1, <1>4 DEF CheckBase, ReqOK
    <3>2. PICK f \in Files :
             req' = [req EXCEPT ![e] = [req[e] EXCEPT !.pc = "rename", !.base = Missing,
                                                      !.next = f]]
      BY <2>1
    <3>3. [req[e] EXCEPT !.pc = "rename", !.base = Missing, !.next = f] \in ReqType
      BY <1>1 DEF ReqType
    <3>4. [req[e] EXCEPT !.pc = "rename", !.base = Missing, !.next = f].note = req[e].note
      BY <1>1 DEF ReqType
    <3> QED BY <3>1, <3>2, <3>3, <3>4, <1>1 DEF ReqOK
  <2>2. CASE req' = [req EXCEPT ![e] = [req[e] EXCEPT !.pc = "remove", !.base = Missing]]
    BY <1>4, <2>2, <1>1 DEF ReqType, ReqOK, CheckBase
  <2>3. CASE req' = [req EXCEPT ![e] = NoRequest]
    BY <2>3, <1>1, <1>2 DEF ReqOK
  <2> QED BY <1>4, <2>1, <2>2, <2>3 DEF CheckBase
<1>5. CASE Commit(e) \/ RemoveFails(e)
  BY <1>5, <1>1, <1>2 DEF Commit, RemoveFails, ReqOK
<1> QED BY <1>3, <1>4, <1>5

LEMMA CommitTyped ==
  ASSUME TypeInv, NEW e \in Editors, Commit(e)
  PROVE  /\ disk' \in [Notes -> Files \cup {Missing}]
         /\ edits' \in 0 .. MaxEdits
         /\ touched' \in [Procs -> SUBSET Notes]
         /\ scan' \in [Procs -> ScanType] /\ (\A q \in Procs : ScanOK(q)')
<1>1. e \in Procs
  BY DEF Procs
<1>2. scan' \in [Procs -> ScanType] /\ (\A q \in Procs : ScanOK(q)')
  BY <1>1, StartScanTyped DEF Commit
<1>3. req[e] \in ReqType /\ req[e].note \in Notes
  BY DEF TypeInv, TypeOK, ReqOK, Commit
<1>4. PICK f \in Files \cup {Missing} : Put(req[e].note, f)
  BY <1>3 DEF Commit, ReqType
<1> QED BY <1>2, <1>3, <1>4, PutTyped

LEMMA TypeStep ==
  ASSUME TypeInv, [Next]_vars
  PROVE  TypeInv'
<1> USE DEF TypeInv
<1>0. Editors \subseteq Procs /\ Ticker \in Procs
  BY DEF Procs
<1>1. CASE AgentEdits
  <2>1. PICK n \in Notes, f \in Files \cup {Missing} : Put(n, f)
    BY <1>1 DEF AgentEdits
  <2>2. UNCHANGED <<source, rows, req, scan, faults, refused, raced>>
    BY <1>1 DEF AgentEdits
  <2> QED BY <2>1, <2>2, PutTyped DEF TypeOK, ScanOK, ReqOK
<1>2. CASE Tick
  <2>1. scan' \in [Procs -> ScanType] /\ (\A q \in Procs : ScanOK(q)')
    BY <1>0, <1>2, StartScanTyped DEF Tick
  <2> QED BY <1>2, <2>1 DEF Tick, TypeOK, ReqOK
<1>3. ASSUME NEW e \in Editors, Open(e) \/ CheckBase(e) \/ RemoveFails(e) PROVE TypeInv'
  <2>1. req' \in [Editors -> ReqType] /\ \A d \in Editors : ReqOK(d)'
    BY <1>3, RequestTyped
  <2>2. UNCHANGED <<source, disk, rows, scan, edits, faults, refused, touched, raced>>
    BY <1>3 DEF Open, CheckBase, RemoveFails
  <2> QED BY <2>1, <2>2 DEF TypeOK, ScanOK
<1>4. ASSUME NEW e \in Editors, Commit(e) PROVE TypeInv'
  <2>1. req' \in [Editors -> ReqType] /\ \A d \in Editors : ReqOK(d)'
    BY <1>4, RequestTyped
  <2>2. UNCHANGED <<source, rows, faults, refused, raced>>
    BY <1>4 DEF Commit
  <2> QED BY <1>4, <2>1, <2>2, CommitTyped DEF TypeOK
<1>5. ASSUME NEW p \in Procs, List(p) PROVE TypeInv'
  <2>1. touched' \in [Procs -> SUBSET Notes]
    BY <1>5 DEF List, TypeOK
  <2>2. UNCHANGED <<source, disk, rows, req, edits, faults, refused, raced>>
    BY <1>5 DEF List
  <2> QED BY <1>5, <2>1, <2>2, ListTyped DEF TypeOK, ReqOK
<1>6. ASSUME NEW p \in Procs, Load(p) \/ LoadFails(p) PROVE TypeInv'
  <2>1. scan' \in [Procs -> ScanType] /\ (\A q \in Procs : ScanOK(q)')
    BY <1>6, LoadTyped DEF Load, LoadFails
  <2>2. UNCHANGED <<source, disk, rows, req, edits, refused, touched>>
    BY <1>6 DEF Load, LoadFails, LoadAs
  <2>3. raced' \in [Procs -> BOOLEAN] /\ faults' \in 0 .. MaxFaults
    BY <1>6, FaultTyped DEF Load, LoadFails, TypeOK
  <2> QED BY <2>1, <2>2, <2>3 DEF TypeOK, ReqOK
<1>7. ASSUME NEW p \in Procs, Read(p) PROVE TypeInv'
  <2>1. UNCHANGED <<source, disk, rows, req, edits, faults, refused, touched, raced>>
    BY <1>7 DEF Read
  <2> QED BY <1>7, <2>1, ReadTyped DEF TypeOK, ReqOK
<1>8. ASSUME NEW p \in Procs, Embed(p) PROVE TypeInv'
  <2>1. UNCHANGED <<source, disk, rows, req, edits, faults, refused, touched, raced>>
    BY <1>8 DEF Embed
  <2>2. scan[p].body \in Bodies
    BY <1>8 DEF Embed, ScanOK
  <2>3. scan' \in [Procs -> ScanType] /\ (\A q \in Procs : ScanOK(q)')
    BY <1>8, <2>2, EmbedTyped DEF Embed
  <2> QED BY <2>1, <2>3 DEF TypeOK, ReqOK
<1>9. ASSUME NEW p \in Procs, EmbedFails(p) PROVE TypeInv'
  <2>1. UNCHANGED <<source, disk, rows, req, edits, touched, raced>>
    BY <1>9 DEF EmbedFails
  <2>2. scan[p].body \in Bodies /\ refused' \subseteq Bodies
    BY <1>9 DEF EmbedFails, ScanOK, TypeOK
  <2>3. PICK n \in Notes :
           NoteDone(p, n, [body |-> scan[p].body, vec |-> scan[p].previous[n].vec])
    BY <1>9 DEF EmbedFails
  <2>4. scan[p].previous[n].vec \in Bodies \cup {0}
    BY DEF TypeOK, ScanType, Row
  <2>5. scan' \in [Procs -> ScanType] /\ (\A q \in Procs : ScanOK(q)')
    BY <1>9, <2>3, <2>4, EmbedTyped DEF EmbedFails
  <2>6. faults' \in 0 .. MaxFaults
    BY <1>9, FaultTyped DEF EmbedFails
  <2> QED BY <2>1, <2>2, <2>5, <2>6 DEF TypeOK, ReqOK
<1>10. ASSUME NEW p \in Procs, Replace(p) PROVE TypeInv'
  <2>1. UNCHANGED <<source, disk, req, edits, faults, refused>>
    BY <1>10 DEF Replace
  <2>2. scan' \in [Procs -> ScanType] /\ (\A q \in Procs : ScanOK(q)')
    BY <1>10, EndScanTyped DEF Replace
  <2>3. rows' \in [Notes -> Row] /\ \A n \in Notes : rows'[n].body = 0 => rows'[n] = NoRow
    BY <1>10 DEF Replace, TypeOK, ScanType, ScanOK, RowOK
  <2>4. touched' \in [Procs -> SUBSET Notes] /\ raced' \in [Procs -> BOOLEAN]
    BY <1>10 DEF Replace, TypeOK, Scanning
  <2> QED BY <2>1, <2>2, <2>3, <2>4 DEF TypeOK, ReqOK
<1>11. ASSUME NEW p \in Procs, ListFails(p) PROVE TypeInv'
  <2>1. UNCHANGED <<source, disk, rows, req, edits, refused>> /\ faults' \in 0 .. MaxFaults
    BY <1>11, FaultTyped DEF ListFails
  <2> QED BY <1>11, <2>1, ListFailsTyped DEF TypeOK, ReqOK
<1>12. ASSUME NEW p \in Procs, ReadFails(p) PROVE TypeInv'
  <2>1. UNCHANGED <<source, disk, rows, req, edits, refused, raced>> /\ faults' \in 0 .. MaxFaults
    BY <1>12, FaultTyped DEF ReadFails
  <2>2. scan' \in [Procs -> ScanType] /\ (\A q \in Procs : ScanOK(q)')
    BY <1>12, RowFacts, NoteDoneTyped DEF ReadFails
  <2>3. touched' \in [Procs -> SUBSET Notes]
    BY <1>12 DEF ReadFails, TypeOK
  <2> QED BY <2>1, <2>2, <2>3 DEF TypeOK, ReqOK
<1>13. ASSUME NEW p \in Procs, ReplaceFails(p) PROVE TypeInv'
  <2>1. UNCHANGED <<source, disk, rows, req, edits, refused>> /\ faults' \in 0 .. MaxFaults
    BY <1>13, FaultTyped DEF ReplaceFails
  <2> QED BY <1>13, <2>1, FailTyped DEF ReplaceFails, TypeOK, ReqOK
<1>14. CASE UNCHANGED vars
  BY <1>14 DEF vars, TypeOK, ScanOK, ReqOK
<1> QED
  BY <1>1, <1>2, <1>3, <1>4, <1>5, <1>6, <1>7, <1>8, <1>9, <1>10, <1>11, <1>12, <1>13,
     <1>14 DEF Next, Advance

\* The mirror, the requests and the syncs have the types of the code's, and a
\* row without a body has no vector, for any notes, bodies and editors.
THEOREM TypeCorrect == Spec => []TypeOK
<1>1. Init => TypeInv
  BY TypeInit
<1>2. TypeInv /\ [Next]_vars => TypeInv'
  BY TypeStep
<1>3. TypeInv => TypeOK
  BY DEF TypeInv
<1> QED BY <1>1, <1>2, <1>3, PTL DEF Spec

-----------------------------------------------------------------------------
(* What the steps do, field by field. *)

\* A sync that starts or ends holds nothing.
Fresh(p) ==
    scan[p].pc \in {"idle", "list", "load"} =>
       /\ \A n \in Notes : scan[p].memories[n] = NoRow
       /\ scan[p].pc # "load" => scan[p].todo = {} /\ scan[p].previous = NoRows

LEMMA NoteDoneEffect ==
  ASSUME TypeInv, NEW p \in Procs, NEW n \in Notes, NEW r, NoteDone(p, n, r)
  PROVE  /\ \A q \in Procs : q # p => scan'[q] = scan[q]
         /\ scan'[p].pc \in {"read", "replace"}
         /\ scan'[p].pc = "replace" => scan'[p].todo = {}
         /\ scan'[p].todo = scan[p].todo \ {n}
         /\ scan'[p].embedder = scan[p].embedder
         /\ \A k \in Notes : scan'[p].previous[k] =
                                IF k = n THEN NoRow ELSE scan[p].previous[k]
         /\ \A k \in Notes : scan'[p].memories[k] =
                                IF k = n THEN r ELSE scan[p].memories[k]
<1>1. scan \in [Procs -> ScanType] /\ scan[p] \in ScanType
  BY DEF TypeInv, TypeOK
<1>2. scan'[p] = Without(p, n, r) /\ \A q \in Procs : q # p => scan'[q] = scan[q]
  BY <1>1 DEF NoteDone
<1>3. /\ Without(p, n, r).pc = (IF scan[p].todo = {n} THEN "replace" ELSE "read")
      /\ Without(p, n, r).todo = scan[p].todo \ {n}
      /\ Without(p, n, r).embedder = scan[p].embedder
  BY <1>1 DEF Without, ScanType
<1>4. /\ \A k \in Notes : Without(p, n, r).previous[k] =
                                IF k = n THEN NoRow ELSE scan[p].previous[k]
      /\ \A k \in Notes : Without(p, n, r).memories[k] =
                                IF k = n THEN r ELSE scan[p].memories[k]
  BY <1>1 DEF Without, ScanType
<1> QED BY <1>2, <1>3, <1>4

\* A sync that starts, or that has failed, is fresh.
LEMMA StartEffect ==
  ASSUME TypeInv, NEW p \in Procs, NEW b \in BOOLEAN,
         StartScan(p, b) \/ scan' = [scan EXCEPT ![p] = NoScan]
  PROVE  /\ \A q \in Procs : q # p => scan'[q] = scan[q]
         /\ scan'[p].pc \in {"idle", "list"}
         /\ scan'[p].todo = {}
         /\ scan'[p].previous = NoRows
         /\ \A n \in Notes : scan'[p].memories[n] = NoRow
<1>1. scan \in [Procs -> ScanType]
  BY DEF TypeInv, TypeOK
<1>2. CASE StartScan(p, b)
  <2>1. scan' = [scan EXCEPT ![p] = [NoScan EXCEPT !.pc = "list", !.embedder = b]]
    BY <1>2 DEF StartScan
  <2> QED BY <1>1, <2>1 DEF NoScan, NoRows
<1>3. CASE scan' = [scan EXCEPT ![p] = NoScan]
  BY <1>1, <1>3 DEF NoScan, NoRows
<1> QED BY <1>2, <1>3

LEMMA FailEffect ==
  ASSUME TypeInv, NEW p \in Procs, Fail(p)
  PROVE  /\ \A q \in Procs : q # p => scan'[q] = scan[q]
         /\ scan'[p].pc \in {"idle", "list"}
         /\ scan'[p].todo = {}
         /\ scan'[p].previous = NoRows
         /\ \A n \in Notes : scan'[p].memories[n] = NoRow
         /\ touched' = [touched EXCEPT ![p] = {}]
         /\ raced' = [raced EXCEPT ![p] = FALSE]
  BY StartEffect DEF Fail

LEMMA LoadEffect ==
  ASSUME TypeInv, NEW p \in Procs, NEW f \in {rows, NoRows}, LoadAs(p, f)
  PROVE  /\ \A q \in Procs : q # p => scan'[q] = scan[q]
         /\ scan[p].pc = "load"
         /\ scan'[p].pc \in {"read", "replace"}
         /\ scan'[p].pc = "replace" => scan'[p].todo = {}
         /\ scan'[p].todo = scan[p].todo
         /\ scan'[p].previous = f
         /\ scan'[p].memories = scan[p].memories
<1>1. scan \in [Procs -> ScanType] /\ scan[p] \in ScanType
  BY DEF TypeInv, TypeOK
<1>2. /\ scan[p].pc = "load"
      /\ scan' = [scan EXCEPT ![p] = [scan[p] EXCEPT
                     !.pc = IF scan[p].todo = {} THEN "replace" ELSE "read",
                     !.previous = f]]
  BY DEF LoadAs
<1> QED BY <1>1, <1>2 DEF ScanType

LEMMA ListEffect ==
  ASSUME TypeInv, NEW p \in Procs, List(p)
  PROVE  /\ \A q \in Procs : q # p => scan'[q] = scan[q]
         /\ scan[p].pc = "list" /\ scan'[p].pc = "load"
         /\ scan'[p].todo = { n \in Notes : disk[n] # Missing }
         /\ scan'[p].previous = scan[p].previous
         /\ scan'[p].memories = scan[p].memories
<1>1. scan \in [Procs -> ScanType] /\ scan[p] \in ScanType
  BY DEF TypeInv, TypeOK
<1> QED BY <1>1 DEF List, ScanType

LEMMA ListFailsEffect ==
  ASSUME TypeInv, NEW p \in Procs, ListFails(p), source # "cross-agent"
  PROVE  /\ \A q \in Procs : q # p => scan'[q] = scan[q]
         /\ scan[p].pc = "list" /\ scan'[p].pc = "replace"
         /\ scan'[p].todo = scan[p].todo
         /\ scan'[p].previous = scan[p].previous
         /\ scan'[p].memories = scan[p].memories
         /\ touched' = [touched EXCEPT ![p] = Notes]
         /\ raced' = [raced EXCEPT ![p] = TRUE]
<1>1. scan \in [Procs -> ScanType] /\ scan[p] \in ScanType
  BY DEF TypeInv, TypeOK
<1> QED BY <1>1 DEF ListFails, ScanType

\* The request to the provider: nothing else of the sync changes.
LEMMA AskEffect ==
  ASSUME TypeInv, NEW p \in Procs, NEW b,
         scan' = [scan EXCEPT ![p] = [scan[p] EXCEPT !.pc = "embed", !.body = b]]
  PROVE  /\ \A q \in Procs : q # p => scan'[q] = scan[q]
         /\ scan'[p].pc = "embed" /\ scan'[p].body = b
         /\ scan'[p].todo = scan[p].todo
         /\ scan'[p].embedder = scan[p].embedder
         /\ scan'[p].previous = scan[p].previous
         /\ scan'[p].memories = scan[p].memories
<1>1. scan \in [Procs -> ScanType] /\ scan[p] \in ScanType
  BY DEF TypeInv, TypeOK
<1> QED BY <1>1 DEF ScanType

-----------------------------------------------------------------------------
(* Vectors are honest: a row is so wherever it is held. *)

HonestScan(p) ==
    \A n \in Notes : HonestRow(scan[p].previous[n]) /\ HonestRow(scan[p].memories[n])

HonestInv == VectorsHonest /\ \A p \in Procs : HonestScan(p)

\* A step of one sync that keeps the mirror keeps the rest honest.
LEMMA HonestByScan ==
  ASSUME HonestInv, NEW p \in Procs, refused \subseteq refused', UNCHANGED rows,
         \A q \in Procs : q # p => scan'[q] = scan[q],
         HonestScan(p)'
  PROVE  HonestInv'
<1>1. VectorsHonest'
  BY DEF HonestInv, VectorsHonest, HonestRow
<1>2. ASSUME NEW q \in Procs, q # p PROVE HonestScan(q)'
  BY <1>2 DEF HonestInv, HonestScan, HonestRow
<1> QED BY <1>1, <1>2 DEF HonestInv

LEMMA HonestDone ==
  ASSUME TypeInv, HonestInv, NEW p \in Procs, NEW n \in Notes, NEW r,
         NoteDone(p, n, r), refused \subseteq refused', UNCHANGED rows,
         r.vec \in {0, r.body} \/ r.body \in refused'
  PROVE  HonestInv'
<1>1. /\ \A q \in Procs : q # p => scan'[q] = scan[q]
      /\ \A k \in Notes : scan'[p].previous[k] =
                              IF k = n THEN NoRow ELSE scan[p].previous[k]
      /\ \A k \in Notes : scan'[p].memories[k] =
                              IF k = n THEN r ELSE scan[p].memories[k]
  BY NoteDoneEffect
<1>2. ASSUME NEW k \in Notes
      PROVE  HonestRow(scan[p].previous[k])' /\ HonestRow(scan[p].memories[k])'
  <2>1. HonestRow(scan[p].previous[k]) /\ HonestRow(scan[p].memories[k])
    BY DEF HonestInv, HonestScan
  <2>2. HonestRow(scan[p].previous[k])'
    BY <1>1, <2>1 DEF HonestRow, NoRow
  <2>3. HonestRow(scan[p].memories[k])'
    BY <1>1, <2>1 DEF HonestRow
  <2> QED BY <2>2, <2>3
<1>3. HonestScan(p)'
  BY <1>2 DEF HonestScan
<1> QED BY <1>1, <1>3, HonestByScan

\* A sync that starts or fails holds no vectors.
LEMMA HonestStart ==
  ASSUME TypeInv, HonestInv, NEW p \in Procs, NEW b \in BOOLEAN,
         StartScan(p, b) \/ scan' = [scan EXCEPT ![p] = NoScan],
         refused \subseteq refused', UNCHANGED rows
  PROVE  HonestInv'
<1>1. /\ \A q \in Procs : q # p => scan'[q] = scan[q]
      /\ scan'[p].previous = NoRows
      /\ \A n \in Notes : scan'[p].memories[n] = NoRow
  BY StartEffect
<1>2. HonestScan(p)'
  BY <1>1 DEF HonestScan, HonestRow, NoRows, NoRow
<1> QED BY <1>1, <1>2, HonestByScan

\* A sync that only moves, or has loaded the rows, holds what was honest.
LEMMA HonestMove ==
  ASSUME TypeInv, HonestInv, NEW p \in Procs,
         \A q \in Procs : q # p => scan'[q] = scan[q],
         scan'[p].memories = scan[p].memories,
         scan'[p].previous \in {scan[p].previous, rows, NoRows},
         UNCHANGED <<rows, refused>>
  PROVE  HonestInv'
<1>1. HonestScan(p)'
  BY DEF HonestInv, VectorsHonest, HonestScan, HonestRow, NoRows, NoRow
<1> QED BY <1>1, HonestByScan

LEMMA HonestStep ==
  ASSUME TypeInv, HonestInv, [Next]_vars
  PROVE  HonestInv'
<1>0. Editors \subseteq Procs /\ Ticker \in Procs
  BY DEF Procs
<1>1. CASE AgentEdits \/ \E e \in Editors : Open(e) \/ CheckBase(e) \/ RemoveFails(e)
  <2>1. UNCHANGED <<rows, scan, refused>>
    BY <1>1 DEF AgentEdits, Open, CheckBase, RemoveFails
  <2> QED BY <2>1 DEF HonestInv, VectorsHonest, HonestScan, HonestRow
<1>2. CASE Tick
  BY <1>0, <1>2, HonestStart DEF Tick
<1>3. ASSUME NEW e \in Editors, Commit(e) PROVE HonestInv'
  BY <1>0, <1>3, HonestStart DEF Commit
<1>4. ASSUME NEW p \in Procs, List(p) PROVE HonestInv'
  BY <1>4, ListEffect, HonestMove DEF List
<1>5. ASSUME NEW p \in Procs, Load(p) \/ LoadFails(p) PROVE HonestInv'
  <2>1. UNCHANGED <<rows, refused>>
    BY <1>5 DEF Load, LoadFails, LoadAs
  <2>2. PICK f \in {rows, NoRows} : LoadAs(p, f)
    BY <1>5 DEF Load, LoadFails
  <2> QED BY <2>1, <2>2, LoadEffect, HonestMove
<1>6. ASSUME NEW p \in Procs, Read(p) PROVE HonestInv'
  <2>1. UNCHANGED <<rows, refused>>
    BY <1>6 DEF Read
  <2>2. PICK n \in Notes :
           \/ NoteDone(p, n, NoRow)
           \/ /\ Reusable(p, n, disk[n].body)
              /\ NoteDone(p, n, [body |-> disk[n].body, vec |-> scan[p].previous[n].vec])
           \/ NoteDone(p, n, [body |-> disk[n].body, vec |-> 0])
           \/ scan' = [scan EXCEPT ![p] =
                         [scan[p] EXCEPT !.pc = "embed", !.body = disk[n].body]]
    BY <1>6, ReadCases
  <2>3. CASE NoteDone(p, n, NoRow)
    BY <2>1, <2>3, HonestDone DEF NoRow
  <2>4. CASE /\ Reusable(p, n, disk[n].body)
             /\ NoteDone(p, n, [body |-> disk[n].body, vec |-> scan[p].previous[n].vec])
    <3>1. HonestRow(scan[p].previous[n]) /\ scan[p].previous[n].body = disk[n].body
      BY <2>4 DEF HonestInv, HonestScan, Reusable
    <3> QED BY <2>1, <2>4, <3>1, HonestDone DEF HonestRow
  <2>5. CASE NoteDone(p, n, [body |-> disk[n].body, vec |-> 0])
    BY <2>1, <2>5, HonestDone
  <2>6. CASE scan' = [scan EXCEPT ![p] =
                        [scan[p] EXCEPT !.pc = "embed", !.body = disk[n].body]]
    BY <2>1, <2>6, AskEffect, HonestMove
  <2> QED BY <2>2, <2>3, <2>4, <2>5, <2>6
<1>7. ASSUME NEW p \in Procs, Embed(p) PROVE HonestInv'
  BY <1>7, HonestDone DEF Embed
<1>8. ASSUME NEW p \in Procs, EmbedFails(p) PROVE HonestInv'
  BY <1>8, HonestDone DEF EmbedFails
<1>9. ASSUME NEW p \in Procs, Replace(p) PROVE HonestInv'
  <2>1. VectorsHonest'
    BY <1>9 DEF Replace, HonestInv, HonestScan, VectorsHonest, HonestRow
  <2>2. /\ \A q \in Procs : q # p => scan'[q] = scan[q]
        /\ scan'[p].previous = NoRows
        /\ \A n \in Notes : scan'[p].memories[n] = NoRow
    BY <1>9, StartEffect DEF Replace
  <2>3. ASSUME NEW q \in Procs PROVE HonestScan(q)'
    <3>1. CASE q = p
      BY <2>2, <3>1 DEF HonestScan, HonestRow, NoRows, NoRow
    <3>2. CASE q # p
      BY <1>9, <2>2, <3>2 DEF HonestInv, HonestScan, HonestRow, Replace
    <3> QED BY <3>1, <3>2
  <2> QED BY <2>1, <2>3 DEF HonestInv
<1>10. ASSUME NEW p \in Procs, ListFails(p) PROVE HonestInv'
  <2>1. UNCHANGED <<rows, refused>>
    BY <1>10 DEF ListFails
  <2>2. CASE source = "cross-agent"
    BY <1>10, <2>1, <2>2, HonestStart DEF ListFails, Fail
  <2>3. CASE source # "cross-agent"
    BY <1>10, <2>1, <2>3, ListFailsEffect, HonestMove
  <2> QED BY <2>2, <2>3
<1>11. ASSUME NEW p \in Procs, ReadFails(p) PROVE HonestInv'
  BY <1>11, HonestDone DEF ReadFails, NoRow
<1>12. ASSUME NEW p \in Procs, ReplaceFails(p) PROVE HonestInv'
  BY <1>12, HonestStart DEF ReplaceFails, Fail
<1>13. CASE UNCHANGED vars
  BY <1>13 DEF vars, HonestInv, VectorsHonest, HonestScan, HonestRow
<1> QED
  BY <1>1, <1>2, <1>3, <1>4, <1>5, <1>6, <1>7, <1>8, <1>9, <1>10, <1>11, <1>12, <1>13
  DEF Next, Advance

\* A stored vector is that of the row's body, or the provider has refused that
\* body, whatever syncs and edits run into each other.
THEOREM VectorsAreHonest == Spec => []VectorsHonest
<1>1. Init => TypeInv /\ HonestInv
  BY TypeInit DEF Init, HonestInv, VectorsHonest, HonestScan, HonestRow, NoScan, NoRows, NoRow
<1>2. TypeInv /\ HonestInv /\ [Next]_vars => TypeInv' /\ HonestInv'
  BY TypeStep, HonestStep
<1>3. HonestInv => VectorsHonest
  BY DEF HonestInv
<1> QED BY <1>1, <1>2, <1>3, PTL DEF Spec

-----------------------------------------------------------------------------
(* What a sync has gathered: the notes it is done with are as on disk unless  *)
(* they have changed since, the vectors it has loaded are those of the mirror *)
(* unless another sync has replaced them, and none of them is lost.           *)

Accurate(p) ==
    /\ Scanning(p) =>
          \A n \in Notes \ touched[p] :
             n \notin scan[p].todo => Faithful(n, scan[p].memories[n])
    /\ scan[p].pc = "embed" =>
          \A n \in Notes \ touched[p] :
             Current(p, n) => Mirrored(disk[n]) /\ disk[n].body = scan[p].body
    /\ scan[p].pc = "replace" => scan[p].todo = {}

\* The row that n is to have takes no vector from the one it has.
Keeps(p, n) ==
    /\ rows[n].vec # 0 /\ scan[p].memories[n].body # 0
    /\ scan[p].embedder \/ scan[p].memories[n].body = rows[n].body
    => scan[p].memories[n].vec # 0

Kept(p) ==
    scan[p].pc \in {"read", "embed", "replace"} /\ ~raced[p] =>
       \A n \in Notes : IF n \in scan[p].todo THEN scan[p].previous[n] = rows[n]
                                             ELSE Keeps(p, n)

Gathered(p) == Fresh(p) /\ Accurate(p) /\ Kept(p)

GatherInv == \A p \in Procs : Gathered(p)

LEMMA GatherOther ==
  ASSUME NEW q \in Procs, Gathered(q), scan'[q] = scan[q], touched'[q] = touched[q],
         raced'[q] = raced[q], UNCHANGED <<source, disk, rows>>
  PROVE  Gathered(q)'
  BY DEF Gathered, Fresh, Accurate, Kept, Keeps, Scanning, Current, Faithful, Mirrored

\* A sync that is not under way has gathered nothing.
LEMMA GatherNothing ==
  ASSUME NEW q \in Procs, scan'[q].pc \in {"idle", "list"}, scan'[q].todo = {},
         scan'[q].previous = NoRows,
         \A n \in Notes : scan'[q].memories[n] = NoRow
  PROVE  Gathered(q)'
  BY DEF Gathered, Fresh, Accurate, Kept, Scanning

\* A change on disk is noted by the syncs that have listed the directory.
LEMMA GatherPut ==
  ASSUME TypeInv, NEW q \in Procs, Gathered(q), NEW n, NEW f, Put(n, f),
         scan'[q] = scan[q], UNCHANGED <<source, rows, raced>>
  PROVE  Gathered(q)'
<1>1. /\ disk \in [Notes -> Files \cup {Missing}]
      /\ touched \in [Procs -> SUBSET Notes]
  BY DEF TypeInv, TypeOK
<1>2. \A k \in Notes : k # n => disk'[k] = disk[k]
  BY <1>1 DEF Put
<1>3. Scanning(q) => touched'[q] = touched[q] \cup {n}
  BY DEF Put
<1>4. Fresh(q)'
  BY DEF Gathered, Fresh
<1>5. Kept(q)'
  BY DEF Gathered, Kept, Keeps
<1>6. Accurate(q)'
  <2>1. CASE Scanning(q)
    <3>1. \A k \in Notes \ touched'[q] : k \in Notes \ touched[q] /\ disk'[k] = disk[k]
      BY <1>2, <1>3, <2>1
    <3> QED
      BY <3>1 DEF Gathered, Accurate, Scanning, Current, Faithful, Mirrored
  <2>2. CASE ~Scanning(q)
    BY <2>2 DEF Accurate, Scanning
  <2> QED BY <2>1, <2>2
<1> QED BY <1>4, <1>5, <1>6 DEF Gathered

\* The sync is done with the current note.
LEMMA GatherDone ==
  ASSUME TypeInv, NEW p \in Procs, Gathered(p), NEW n \in Notes, NEW r,
         scan[p].pc \in {"read", "embed"}, Current(p, n), NoteDone(p, n, r),
         UNCHANGED <<source, disk, rows, raced>>,
         touched'[p] = touched[p] \/ touched'[p] = touched[p] \cup {n},
         n \notin touched'[p] => Faithful(n, r),
         /\ ~raced[p] /\ rows[n].vec # 0 /\ r.body # 0
         /\ scan[p].embedder \/ r.body = rows[n].body
         => r.vec # 0
  PROVE  Gathered(p)'
<1>1. /\ scan'[p].pc \in {"read", "replace"}
      /\ scan'[p].pc = "replace" => scan'[p].todo = {}
      /\ scan'[p].todo = scan[p].todo \ {n}
      /\ scan'[p].embedder = scan[p].embedder
      /\ \A k \in Notes : scan'[p].previous[k] =
                              IF k = n THEN NoRow ELSE scan[p].previous[k]
      /\ \A k \in Notes : scan'[p].memories[k] =
                              IF k = n THEN r ELSE scan[p].memories[k]
  BY NoteDoneEffect
<1>2. Fresh(p)'
  BY <1>1 DEF Fresh
<1>3. Accurate(p)'
  <2>1. ASSUME NEW k \in Notes, k \notin touched'[p], k \notin scan'[p].todo
        PROVE  Faithful(k, scan[p].memories[k])'
    <3>1. CASE k = n
      BY <1>1, <2>1, <3>1 DEF Faithful, Mirrored
    <3>2. CASE k # n
      <4>1. k \notin touched[p] /\ k \notin scan[p].todo
        BY <1>1, <2>1, <3>2
      <4>2. Faithful(k, scan[p].memories[k])
        BY <4>1 DEF Gathered, Accurate, Scanning
      <4> QED BY <1>1, <3>2, <4>2 DEF Faithful, Mirrored
    <3> QED BY <3>1, <3>2
  <2> QED BY <1>1, <2>1 DEF Accurate
<1>4. Kept(p)'
  <2> SUFFICES ASSUME ~raced[p], NEW k \in Notes
               PROVE  (IF k \in scan[p].todo THEN scan[p].previous[k] = rows[k]
                                             ELSE Keeps(p, k))'
    BY DEF Kept
  <2>1. IF k \in scan[p].todo THEN scan[p].previous[k] = rows[k] ELSE Keeps(p, k)
    BY DEF Gathered, Kept
  <2>2. CASE k = n
    BY <1>1, <2>2 DEF Keeps
  <2>3. CASE k # n
    BY <1>1, <2>1, <2>3 DEF Keeps
  <2> QED BY <2>2, <2>3
<1> QED BY <1>2, <1>3, <1>4 DEF Gathered

\* A step of sync p, seen by all of them.
LEMMA GatherByScan ==
  ASSUME GatherInv, NEW p \in Procs, Gathered(p)', UNCHANGED <<source, disk, rows>>,
         \A q \in Procs : q # p => /\ scan'[q] = scan[q]
                                   /\ touched'[q] = touched[q]
                                   /\ raced'[q] = raced[q]
  PROVE  GatherInv'
<1>1. ASSUME NEW q \in Procs, q # p PROVE Gathered(q)'
  BY <1>1, GatherOther DEF GatherInv
<1> QED BY <1>1 DEF GatherInv

LEMMA GatherRead ==
  ASSUME TypeInv, GatherInv, NEW p \in Procs, Read(p)
  PROVE  GatherInv'
<1>1. /\ UNCHANGED <<source, disk, rows, touched, raced>>
      /\ scan[p].pc = "read" /\ Gathered(p)
  BY DEF Read, GatherInv
<1>2. PICK n \in Notes :
         /\ Current(p, n)
         /\ \/ /\ ~Mirrored(disk[n]) /\ NoteDone(p, n, NoRow)
            \/ /\ Mirrored(disk[n]) /\ disk[n].body \in Bodies
               /\ \/ /\ Reusable(p, n, disk[n].body)
                     /\ NoteDone(p, n, [body |-> disk[n].body,
                                        vec |-> scan[p].previous[n].vec])
                  \/ /\ ~Reusable(p, n, disk[n].body) /\ ~scan[p].embedder
                     /\ NoteDone(p, n, [body |-> disk[n].body, vec |-> 0])
                  \/ scan' = [scan EXCEPT ![p] =
                                [scan[p] EXCEPT !.pc = "embed", !.body = disk[n].body]]
  BY ReadCases
<1>3. n \in scan[p].todo
  BY <1>2 DEF Current
<1>4. ~raced[p] => scan[p].previous[n] = rows[n]
  BY <1>1, <1>3 DEF Gathered, Kept
<1>5. CASE ~Mirrored(disk[n]) /\ NoteDone(p, n, NoRow)
  <2>1. Faithful(n, NoRow) /\ NoRow.body = 0
    BY <1>5 DEF Faithful, NoRow
  <2>2. Gathered(p)'
    BY <1>1, <1>2, <1>5, <2>1, GatherDone
  <2>3. \A q \in Procs : q # p => scan'[q] = scan[q]
    BY <1>5, NoteDoneEffect
  <2> QED BY <1>1, <2>2, <2>3, GatherByScan
<1>6. CASE /\ Mirrored(disk[n]) /\ Reusable(p, n, disk[n].body)
           /\ NoteDone(p, n, [body |-> disk[n].body, vec |-> scan[p].previous[n].vec])
  <2> DEFINE r == [body |-> disk[n].body, vec |-> scan[p].previous[n].vec]
  <2>1. Faithful(n, r) /\ r.vec # 0
    BY <1>6 DEF Faithful, Reusable
  <2> HIDE DEF r
  <2>2. NoteDone(p, n, r)
    BY <1>6 DEF r
  <2>3. Gathered(p)'
    BY <1>1, <1>2, <2>1, <2>2, GatherDone
  <2>4. \A q \in Procs : q # p => scan'[q] = scan[q]
    BY <2>2, NoteDoneEffect
  <2> QED BY <1>1, <2>3, <2>4, GatherByScan
<1>7. CASE /\ Mirrored(disk[n]) /\ ~Reusable(p, n, disk[n].body) /\ ~scan[p].embedder
           /\ NoteDone(p, n, [body |-> disk[n].body, vec |-> 0])
  <2> DEFINE r == [body |-> disk[n].body, vec |-> 0]
  <2>1. Faithful(n, r)
    BY <1>7 DEF Faithful
  <2>2. ~raced[p] => ~(rows[n].vec # 0 /\ r.body = rows[n].body)
    BY <1>4, <1>7 DEF Reusable
  <2> HIDE DEF r
  <2>3. NoteDone(p, n, r)
    BY <1>7 DEF r
  <2>4. Gathered(p)'
    BY <1>1, <1>2, <1>7, <2>1, <2>2, <2>3, GatherDone
  <2>5. \A q \in Procs : q # p => scan'[q] = scan[q]
    BY <2>3, NoteDoneEffect
  <2> QED BY <1>1, <2>4, <2>5, GatherByScan
<1>8. CASE /\ Mirrored(disk[n])
           /\ scan' = [scan EXCEPT ![p] =
                         [scan[p] EXCEPT !.pc = "embed", !.body = disk[n].body]]
  <2>1. /\ \A q \in Procs : q # p => scan'[q] = scan[q]
        /\ scan'[p].pc = "embed" /\ scan'[p].body = disk[n].body
        /\ scan'[p].todo = scan[p].todo
        /\ scan'[p].embedder = scan[p].embedder
        /\ scan'[p].previous = scan[p].previous
        /\ scan'[p].memories = scan[p].memories
    BY <1>8, AskEffect
  <2>2. \A k \in Notes : Current(p, k)' => k = n
    BY <1>2, <2>1, NotesAssumption DEF Current
  <2>3. Fresh(p)'
    BY <2>1 DEF Fresh
  <2>4. Accurate(p)'
    BY <1>1, <1>8, <2>1, <2>2 DEF Gathered, Accurate, Scanning, Faithful, Mirrored
  <2>5. Kept(p)'
    BY <1>1, <2>1 DEF Gathered, Kept, Keeps
  <2> QED BY <1>1, <2>1, <2>3, <2>4, <2>5, GatherByScan DEF Gathered
<1> QED BY <1>2, <1>5, <1>6, <1>7, <1>8

LEMMA GatherEmbed ==
  ASSUME TypeInv, GatherInv, NEW p \in Procs, Embed(p) \/ EmbedFails(p)
  PROVE  GatherInv'
<1>1. /\ UNCHANGED <<source, disk, rows, touched, raced>>
      /\ scan[p].pc = "embed" /\ Gathered(p)
  BY DEF Embed, EmbedFails, GatherInv
<1>2. scan[p].body \in Bodies /\ scan[p].body # 0
  BY <1>1, NotesAssumption DEF TypeInv, ScanOK
<1>3a. PICK n \in Notes :
         /\ Current(p, n)
         /\ \/ NoteDone(p, n, [body |-> scan[p].body, vec |-> scan[p].body])
            \/ NoteDone(p, n, [body |-> scan[p].body, vec |-> scan[p].previous[n].vec])
  BY DEF Embed, EmbedFails
<1>3. PICK v \in {scan[p].body, scan[p].previous[n].vec} :
         Current(p, n) /\ NoteDone(p, n, [body |-> scan[p].body, vec |-> v])
  BY <1>3a
<1> DEFINE r == [body |-> scan[p].body, vec |-> v]
<1>4. n \notin touched[p] => Faithful(n, r)
  BY <1>1, <1>3 DEF Gathered, Accurate, Faithful
<1>5. ~raced[p] /\ rows[n].vec # 0 => r.vec # 0
  BY <1>1, <1>2, <1>3 DEF Gathered, Kept, Current
<1>6. NoteDone(p, n, r) /\ \A q \in Procs : q # p => scan'[q] = scan[q]
  BY <1>3, NoteDoneEffect
<1> HIDE DEF r
<1>7. Gathered(p)'
  BY <1>1, <1>3, <1>4, <1>5, <1>6, GatherDone
<1> QED BY <1>1, <1>6, <1>7, GatherByScan

LEMMA GatherLoad ==
  ASSUME TypeInv, GatherInv, NEW p \in Procs, Load(p) \/ LoadFails(p)
  PROVE  GatherInv'
<1>1. UNCHANGED <<source, disk, rows, touched>> /\ Gathered(p)
  BY DEF Load, LoadFails, LoadAs, GatherInv
<1>2. PICK f \in {rows, NoRows} : LoadAs(p, f) /\ (f = rows \/ raced'[p])
  BY DEF Load, LoadFails, TypeInv, TypeOK
<1>3. /\ \A q \in Procs : q # p => scan'[q] = scan[q]
      /\ scan[p].pc = "load"
      /\ scan'[p].pc \in {"read", "replace"}
      /\ scan'[p].pc = "replace" => scan'[p].todo = {}
      /\ scan'[p].todo = scan[p].todo
      /\ scan'[p].previous = f
      /\ scan'[p].memories = scan[p].memories
  BY <1>2, LoadEffect
<1>4. \A q \in Procs : q # p => raced'[q] = raced[q]
  BY DEF Load, LoadFails, TypeInv, TypeOK
<1>5. \A n \in Notes : scan'[p].memories[n] = NoRow
  BY <1>1, <1>3 DEF Gathered, Fresh
<1>6. Fresh(p)'
  BY <1>3 DEF Fresh
<1>7. Accurate(p)'
  BY <1>1, <1>3 DEF Gathered, Accurate, Scanning, Faithful, Mirrored
<1>8. Kept(p)'
  BY <1>1, <1>2, <1>3, <1>5 DEF Kept, Keeps, NoRow
<1> QED BY <1>1, <1>3, <1>4, <1>6, <1>7, <1>8, GatherByScan DEF Gathered

LEMMA GatherList ==
  ASSUME TypeInv, GatherInv, NEW p \in Procs, List(p)
  PROVE  GatherInv'
<1>1. UNCHANGED <<source, disk, rows, raced>> /\ Gathered(p)
  BY DEF List, GatherInv
<1>2. /\ \A q \in Procs : q # p => scan'[q] = scan[q]
      /\ scan[p].pc = "list" /\ scan'[p].pc = "load"
      /\ scan'[p].todo = { n \in Notes : disk[n] # Missing }
      /\ scan'[p].memories = scan[p].memories
  BY ListEffect
<1>3. \A n \in Notes : scan'[p].memories[n] = NoRow
  BY <1>1, <1>2 DEF Gathered, Fresh
<1>4. \A n \in Notes : n \notin scan'[p].todo => Faithful(n, NoRow)'
  BY <1>1, <1>2 DEF Faithful, Mirrored, Missing
<1>5. \A q \in Procs : q # p => touched'[q] = touched[q]
  BY DEF List, TypeInv, TypeOK
<1>6. Gathered(p)'
  BY <1>2, <1>3, <1>4 DEF Gathered, Fresh, Accurate, Kept, Scanning, Faithful, Mirrored
<1> QED BY <1>1, <1>2, <1>5, <1>6, GatherByScan

\* A sync that fails starts over or ends.
LEMMA GatherFail ==
  ASSUME TypeInv, GatherInv, NEW p \in Procs, Fail(p), UNCHANGED <<source, disk, rows>>
  PROVE  GatherInv'
<1>1. /\ \A q \in Procs : q # p => scan'[q] = scan[q]
      /\ scan'[p].pc \in {"idle", "list"} /\ scan'[p].todo = {}
      /\ scan'[p].previous = NoRows
      /\ \A n \in Notes : scan'[p].memories[n] = NoRow
      /\ touched' = [touched EXCEPT ![p] = {}]
      /\ raced' = [raced EXCEPT ![p] = FALSE]
  BY FailEffect
<1>2. Gathered(p)'
  BY <1>1, GatherNothing
<1>3. \A q \in Procs : q # p => touched'[q] = touched[q] /\ raced'[q] = raced[q]
  BY <1>1 DEF TypeInv, TypeOK
<1> QED BY <1>1, <1>2, <1>3, GatherByScan

LEMMA GatherListFails ==
  ASSUME TypeInv, GatherInv, NEW p \in Procs, ListFails(p)
  PROVE  GatherInv'
<1>1. UNCHANGED <<source, disk, rows>> /\ Gathered(p)
  BY DEF ListFails, GatherInv
<1>2. CASE source = "cross-agent"
  BY <1>1, <1>2, GatherFail DEF ListFails
<1>3. CASE source # "cross-agent"
  <2>1. /\ \A q \in Procs : q # p => scan'[q] = scan[q]
        /\ scan[p].pc = "list" /\ scan'[p].pc = "replace"
        /\ scan'[p].todo = scan[p].todo
        /\ touched' = [touched EXCEPT ![p] = Notes]
        /\ raced' = [raced EXCEPT ![p] = TRUE]
    BY <1>3, ListFailsEffect
  <2>2. touched'[p] = Notes /\ raced'[p]
    BY <2>1 DEF TypeInv, TypeOK
  <2>3. \A q \in Procs : q # p => touched'[q] = touched[q] /\ raced'[q] = raced[q]
    BY <2>1 DEF TypeInv, TypeOK
  <2>4. Gathered(p)'
    BY <1>1, <2>1, <2>2 DEF Gathered, Fresh, Accurate, Kept
  <2> QED BY <1>1, <2>1, <2>3, <2>4, GatherByScan
<1> QED BY <1>2, <1>3

LEMMA GatherReadFails ==
  ASSUME TypeInv, GatherInv, NEW p \in Procs, ReadFails(p)
  PROVE  GatherInv'
<1>1. /\ UNCHANGED <<source, disk, rows, raced>>
      /\ scan[p].pc = "read" /\ Gathered(p)
  BY DEF ReadFails, GatherInv
<1>2. PICK n \in Notes :
         /\ Current(p, n) /\ NoteDone(p, n, NoRow)
         /\ touched' = [touched EXCEPT ![p] = touched[p] \cup {n}]
  BY DEF ReadFails
<1>3. /\ touched'[p] = touched[p] \cup {n}
      /\ \A q \in Procs : q # p => touched'[q] = touched[q]
  BY <1>2 DEF TypeInv, TypeOK
<1>4. Gathered(p)'
  BY <1>1, <1>2, <1>3, GatherDone DEF NoRow
<1>5. \A q \in Procs : q # p => scan'[q] = scan[q]
  BY <1>2, NoteDoneEffect
<1> QED BY <1>1, <1>3, <1>4, <1>5, GatherByScan

\* The syncs that have loaded the old rows are raced.
LEMMA GatherReplace ==
  ASSUME TypeInv, GatherInv, NEW p \in Procs, Replace(p)
  PROVE  GatherInv'
<1>1. /\ \A q \in Procs : q # p => scan'[q] = scan[q]
      /\ scan'[p].pc \in {"idle", "list"} /\ scan'[p].todo = {}
      /\ scan'[p].previous = NoRows
      /\ \A n \in Notes : scan'[p].memories[n] = NoRow
  BY StartEffect DEF Replace
<1>2. Gathered(p)'
  BY <1>1, GatherNothing
<1>3. /\ UNCHANGED <<source, disk>>
      /\ \A q \in Procs : q # p => /\ touched'[q] = touched[q]
                                   /\ raced'[q] = (raced[q] \/ Scanning(q))
  BY DEF Replace, TypeInv, TypeOK
<1>4. ASSUME NEW q \in Procs, q # p PROVE Gathered(q)'
  <2>1. Gathered(q) /\ scan'[q] = scan[q] /\ touched'[q] = touched[q]
    BY <1>1, <1>3, <1>4 DEF GatherInv
  <2>2. Fresh(q)'
    BY <2>1 DEF Gathered, Fresh
  <2>3. Accurate(q)'
    BY <1>3, <2>1 DEF Gathered, Accurate, Scanning, Current, Faithful, Mirrored
  <2>4. Kept(q)'
    BY <1>3, <1>4, <2>1 DEF Kept, Scanning
  <2> QED BY <2>2, <2>3, <2>4 DEF Gathered
<1> QED BY <1>2, <1>4 DEF GatherInv

LEMMA GatherCommit ==
  ASSUME TypeInv, GatherInv, NEW e \in Editors, Commit(e)
  PROVE  GatherInv'
<1>1. e \in Procs /\ StartScan(e, TRUE) /\ UNCHANGED <<source, rows, raced>>
  BY DEF Commit, Procs
<1>2. PICK n, f : Put(n, f)
  BY DEF Commit
<1>3. /\ \A q \in Procs : q # e => scan'[q] = scan[q]
      /\ scan'[e].pc \in {"idle", "list"} /\ scan'[e].todo = {}
      /\ scan'[e].previous = NoRows
      /\ \A k \in Notes : scan'[e].memories[k] = NoRow
  BY <1>1, StartEffect
<1>4. Gathered(e)'
  BY <1>1, <1>3, GatherNothing
<1>5. ASSUME NEW q \in Procs, q # e PROVE Gathered(q)'
  BY <1>1, <1>2, <1>3, <1>5, GatherPut DEF GatherInv
<1> QED BY <1>4, <1>5 DEF GatherInv

LEMMA GatherStep ==
  ASSUME TypeInv, GatherInv, [Next]_vars
  PROVE  GatherInv'
<1>1. CASE \E e \in Editors : Open(e) \/ CheckBase(e) \/ RemoveFails(e)
  <2>1. UNCHANGED <<source, disk, rows, scan, touched, raced>>
    BY <1>1 DEF Open, CheckBase, RemoveFails
  <2> QED BY <2>1, GatherOther DEF GatherInv
<1>2. CASE AgentEdits
  <2>1. PICK n, f : Put(n, f)
    BY <1>2 DEF AgentEdits
  <2>2. UNCHANGED <<source, rows, scan, raced>>
    BY <1>2 DEF AgentEdits
  <2> QED BY <2>1, <2>2, GatherPut DEF GatherInv
<1>3. CASE Tick
  <2>1. Ticker \in Procs /\ UNCHANGED <<source, disk, rows, touched, raced>>
    BY <1>3 DEF Tick, Procs
  <2>2. /\ \A q \in Procs : q # Ticker => scan'[q] = scan[q]
        /\ scan'[Ticker].pc \in {"idle", "list"} /\ scan'[Ticker].todo = {}
        /\ scan'[Ticker].previous = NoRows
        /\ \A n \in Notes : scan'[Ticker].memories[n] = NoRow
    BY <1>3, <2>1, StartEffect DEF Tick
  <2>3. Gathered(Ticker)'
    BY <2>1, <2>2, GatherNothing
  <2> QED BY <2>1, <2>2, <2>3, GatherByScan
<1>4. ASSUME NEW p \in Procs, ReplaceFails(p) PROVE GatherInv'
  BY <1>4, GatherFail DEF ReplaceFails
<1>5. CASE UNCHANGED vars
  BY <1>5, GatherOther DEF vars, GatherInv
<1> QED
  BY <1>1, <1>2, <1>3, <1>4, <1>5, GatherCommit, GatherList, GatherLoad, GatherRead,
     GatherEmbed, GatherReplace, GatherListFails, GatherReadFails DEF Next, Advance

LEMMA GatherInit == Init => GatherInv
<1> SUFFICES ASSUME Init, NEW p \in Procs PROVE Gathered(p)
  BY DEF GatherInv
<1>1. /\ scan[p].pc = "idle" /\ scan[p].todo = {} /\ scan[p].previous = NoRows
      /\ \A n \in Notes : scan[p].memories[n] = NoRow
  BY DEF Init, NoScan, NoRows
<1> QED BY <1>1 DEF Gathered, Fresh, Accurate, Kept, Scanning

\* Every sync shows the notes that could be read and did not change meanwhile,
\* and no other, whatever became of their neighbours.
THEOREM EveryNoteSurvives == Spec => NotesSurvive
<1> DEFINE Step == \A p \in Procs : Replace(p) =>
                      \A n \in Notes \ touched[p] : Faithful(n, rows'[n])
<1>1. Init => TypeInv /\ GatherInv
  BY TypeInit, GatherInit
<1>2. TypeInv /\ GatherInv /\ [Next]_vars => TypeInv' /\ GatherInv'
  BY TypeStep, GatherStep
<1>3. TypeInv /\ GatherInv /\ [Next]_vars => [Step]_vars
  <2> SUFFICES ASSUME TypeInv, GatherInv, NEW p \in Procs, Replace(p),
                      NEW n \in Notes \ touched[p]
               PROVE  Faithful(n, rows'[n])
    OBVIOUS
  <2>1. rows'[n] = scan[p].memories[n] /\ scan[p].pc = "replace"
    BY DEF Replace
  <2>2. Faithful(n, scan[p].memories[n])
    BY <2>1 DEF GatherInv, Gathered, Accurate, Scanning
  <2> QED BY <2>1, <2>2
<1> QED BY <1>1, <1>2, <1>3, PTL DEF Spec, NotesSurvive

\* A sync whose view of the mirror is current takes no vector from a note that
\* it mirrors, be the provider there or not.
THEOREM NoVectorLost == Spec => VectorsKept
<1> DEFINE Step == \A p \in Procs : Replace(p) /\ ~raced[p] =>
                      \A n \in Notes :
                         /\ rows[n].vec # 0 /\ rows'[n].body # 0
                         /\ scan[p].embedder \/ rows'[n].body = rows[n].body
                         => rows'[n].vec # 0
<1>1. Init => TypeInv /\ GatherInv
  BY TypeInit, GatherInit
<1>2. TypeInv /\ GatherInv /\ [Next]_vars => TypeInv' /\ GatherInv'
  BY TypeStep, GatherStep
<1>3. TypeInv /\ GatherInv /\ [Next]_vars => [Step]_vars
  <2> SUFFICES ASSUME TypeInv, GatherInv, NEW p \in Procs, Replace(p), ~raced[p],
                      NEW n \in Notes,
                      rows[n].vec # 0 /\ rows'[n].body # 0,
                      scan[p].embedder \/ rows'[n].body = rows[n].body
               PROVE  rows'[n].vec # 0
    OBVIOUS
  <2>1. rows' = scan[p].memories /\ scan[p].pc = "replace"
    BY DEF Replace
  <2>2. scan[p].todo = {} /\ Keeps(p, n)
    BY <2>1 DEF GatherInv, Gathered, Accurate, Kept
  <2> QED BY <2>1, <2>2 DEF Keeps
<1> QED BY <1>1, <1>2, <1>3, PTL DEF Spec, VectorsKept
=============================================================================

---------------------------- MODULE MirrorProofs ----------------------------
(***************************************************************************)
(* Proofs about the push to a mirror: its types, and that the mirror's     *)
(* rows and messages implement Replica, for any number of sessions and any *)
(* failures, crashes and losses.                                           *)
(***************************************************************************)
EXTENDS Mirror, FiniteSetTheorems, TLAPS

\* A push in progress, its times bounded by n.
Runs(n) == [pc : Pcs, scope : Scopes, full : BOOLEAN,
            last : 0 .. n, cutoff : 0 .. n,
            todo : [Sessions -> Revs], prior : [Sessions -> Revs],
            pushed : [Sessions -> Revs],
            retry : SUBSET Sessions, err : BOOLEAN]

\* What the types rest on: a change in the open transaction is of a session
\* that has revisions left.
Room == \A s \in Sessions : writing[s] # 0 => local[s].rev < MaxRev[s]

\* What the replicas rest on: a change in the open transaction is not of a
\* deleted session; what waits to be sent is committed and not older than
\* what the mirror has; what waits for its retry waits to be sent.
Forward ==
    /\ \A s \in Sessions :
          /\ local[s].st = "none" => local[s].rev = 0
          /\ writing[s] # 0 => local[s].st # "gone"
          /\ mirror[s].row <= local[s].rev
          /\ mirror[s].msgs <= local[s].rev
          /\ run.todo[s] <= local[s].rev
          /\ run.todo[s] # 0 => mirror[s].row <= run.todo[s]
    /\ \A s \in run.retry : run.todo[s] # 0
    /\ run.pc # "retry" => run.retry = {}

-----------------------------------------------------------------------------
(* Types. *)

LEMMA RevsAreNats == \A r \in Revs : r \in Nat
BY MirrorAssumption DEF Revs

LEMMA RevFits ==
    ASSUME NEW s \in Sessions, NEW r \in Nat, r <= MaxRev[s]
    PROVE  r \in Revs
BY MirrorAssumption DEF Revs

LEMMA ZeroFits == \A s \in Sessions : 0 \in Revs
BY MirrorAssumption DEF Revs

LEMMA NoneTyped == None \in [Sessions -> Revs]
BY ZeroFits DEF None

LEMMA EmptyTyped == Empty \in [Sessions -> [row : Revs, msgs : Revs]]
BY ZeroFits DEF Empty

LEMMA IdleTyped == \A n \in Nat : Idle \in Runs(n)
<1> SUFFICES ASSUME NEW n \in Nat PROVE Idle \in Runs(n)
  OBVIOUS
<1>1. 0 \in 0 .. n
  OBVIOUS
<1>2. /\ "idle" \in Pcs /\ "all" \in Scopes
      /\ FALSE \in BOOLEAN /\ {} \in SUBSET Sessions
  BY DEF Pcs, Scopes
<1> QED
  BY <1>1, <1>2, NoneTyped DEF Idle, Runs

LEMMA TypeInit == Init => TypeOK /\ Room
<1> SUFFICES ASSUME Init PROVE TypeOK /\ Room
  OBVIOUS
<1>1. now \in Nat /\ now \in 1 .. MaxNow /\ 0 \in 0 .. now
  BY MirrorAssumption DEF Init
<1>2. run \in Runs(now)
  BY <1>1, IdleTyped DEF Init
<1>3. local \in [Sessions -> [st : {"none", "live", "gone"},
                              rev : Revs, mark : 0 .. now]]
  BY <1>1, ZeroFits DEF Init
<1>4. writing \in [Sessions -> 0 .. now]
  BY <1>1 DEF Init, None
<1>5. fps \in [Scopes -> [Sessions -> Revs]]
  BY NoneTyped DEF Init
<1>6. mirror \in [Sessions -> [row : Revs, msgs : Revs]]
  BY EmptyTyped DEF Init
<1>7. wm \in [Scopes -> 0 .. now]
  BY <1>1 DEF Init
<1>8. faults \in 0 .. MaxFaults
  BY MirrorAssumption DEF Init
<1>9. Room
  BY DEF Init, Room, None
<1> QED
  BY <1>1, <1>2, <1>3, <1>4, <1>5, <1>6, <1>7, <1>8, <1>9
     DEF Init, TypeOK, Runs

\* A step that leaves the archive alone has the types if the states, the
\* mirror and the push have.
LEMMA QuietStep ==
    ASSUME TypeOK, Room, UNCHANGED <<backend, scopes, archive>>,
           wm' \in [Scopes -> 0 .. now], legacy' \in 0 .. now,
           fps' \in [Scopes -> [Sessions -> Revs]],
           schema' \in BOOLEAN, schemaDone' \in BOOLEAN,
           mirror' \in [Sessions -> [row : Revs, msgs : Revs]],
           run' \in Runs(now), faults' \in 0 .. MaxFaults
    PROVE  TypeOK' /\ Room'
BY DEF TypeOK, Room, Runs, archive

\* Such a step that changes the push alone.
LEMMA RunStep ==
    ASSUME TypeOK, Room,
           UNCHANGED <<backend, scopes, archive, states, mirror, schemaDone>>,
           schema' \in BOOLEAN,
           run' \in Runs(now), faults' \in 0 .. MaxFaults
    PROVE  TypeOK' /\ Room'
BY QuietStep DEF TypeOK, states

LEMMA RunTyped == TypeOK => run \in Runs(now) /\ now \in Nat
BY MirrorAssumption DEF TypeOK, Runs

LEMMA FaultTyped == TypeOK /\ Fault => faults' \in 0 .. MaxFaults
BY MirrorAssumption DEF TypeOK, Fault

LEMMA CopiedTyped ==
    ASSUME TypeOK, NEW S \in SUBSET Sessions
    PROVE  Copied(S) \in [Sessions -> [row : Revs, msgs : Revs]]
BY ZeroFits DEF TypeOK, Copied

LEMMA SentTyped ==
    ASSUME TypeOK, NEW S \in SUBSET Sessions
    PROVE  Sent(S) \in Runs(now)
<1>1. [s \in Sessions |-> IF s \in S THEN run.todo[s] ELSE run.pushed[s]]
         \in [Sessions -> Revs]
  BY DEF TypeOK
<1>2. [s \in Sessions |-> IF s \in S THEN 0 ELSE run.todo[s]]
         \in [Sessions -> Revs]
  BY ZeroFits DEF TypeOK
<1>3. run.retry \ S \in SUBSET Sessions
  BY DEF TypeOK
<1> QED
  BY <1>1, <1>2, <1>3, RunTyped DEF Sent, Runs, Pcs

LEMMA ArchiveType ==
    ASSUME TypeOK, Room,
           \/ Tick \/ Commit \/ \E s \in Sessions : Stamp(s) \/ Delete(s)
    PROVE  TypeOK' /\ Room'
<1>a. now \in Nat /\ MaxNow \in Nat
  BY MirrorAssumption DEF TypeOK
<1>1. CASE Tick
  <2>1. now' \in 1 .. MaxNow /\ 0 .. now \subseteq 0 .. now'
    BY <1>1, <1>a DEF Tick, TypeOK
  <2>2. run' \in Runs(now')
    BY <1>1, <2>1, RunTyped DEF Tick, Runs
  <2>3. /\ local' \in [Sessions -> [st : {"none", "live", "gone"},
                                   rev : Revs, mark : 0 .. now']]
        /\ writing' \in [Sessions -> 0 .. now']
        /\ wm' \in [Scopes -> 0 .. now'] /\ legacy' \in 0 .. now'
    BY <1>1, <2>1 DEF Tick, TypeOK, states
  <2> QED
    BY <1>1, <2>1, <2>2, <2>3 DEF Tick, TypeOK, Room, Runs, states, target
<1>2. CASE Commit
  <2>1. \A s \in Sessions :
           writing[s] # 0 => /\ local[s].rev + 1 \in Revs
                             /\ writing[s] \in 0 .. now
    <3> SUFFICES ASSUME NEW s \in Sessions, writing[s] # 0
                 PROVE  /\ local[s].rev + 1 \in Revs
                        /\ writing[s] \in 0 .. now
      OBVIOUS
    <3>1. local[s].rev \in Nat /\ local[s].rev < MaxRev[s]
      BY RevsAreNats DEF TypeOK, Room
    <3>2. local[s].rev + 1 \in Nat /\ local[s].rev + 1 <= MaxRev[s]
      BY <3>1, MirrorAssumption
    <3> QED
      BY <3>2, RevFits DEF TypeOK
  <2>2. local' \in [Sessions -> [st : {"none", "live", "gone"},
                                rev : Revs, mark : 0 .. now]]
    BY <1>2, <2>1 DEF Commit, TypeOK
  <2>3. writing' \in [Sessions -> 0 .. now] /\ \A s \in Sessions : writing'[s] = 0
    BY <1>2, <1>a DEF Commit, None
  <2> QED
    BY <1>2, <2>2, <2>3 DEF Commit, TypeOK, Room, states, target
<1>3. ASSUME NEW s \in Sessions, Stamp(s) PROVE TypeOK' /\ Room'
  <2>1. now \in 0 .. now
    BY <1>a
  <2> QED
    BY <1>3, <2>1 DEF Stamp, TypeOK, Room, states, target
<1>4. ASSUME NEW s \in Sessions, Delete(s) PROVE TypeOK' /\ Room'
  <2>1. local' \in [Sessions -> [st : {"none", "live", "gone"},
                                rev : Revs, mark : 0 .. now]]
    <3>1. local' = [local EXCEPT ![s] = [@ EXCEPT !.st = "gone"]]
      BY <1>4 DEF Delete
    <3>2. [local[s] EXCEPT !.st = "gone"]
             \in [st : {"none", "live", "gone"}, rev : Revs, mark : 0 .. now]
      BY DEF TypeOK
    <3> QED
      BY <3>1, <3>2 DEF TypeOK
  <2>2. \A r \in Sessions : local'[r].rev = local[r].rev
    BY <1>4 DEF Delete, TypeOK
  <2> QED
    BY <1>4, <2>1, <2>2 DEF Delete, TypeOK, Room, states, target
<1> QED
  BY <1>1, <1>2, <1>3, <1>4

LEMMA WorldType ==
    ASSUME TypeOK, Room, Rebuild \/ Reset \/ Crash
    PROVE  TypeOK' /\ Room'
<1>1. CASE Rebuild
  <2>1. /\ 0 \in 0 .. now
        /\ faults' \in 0 .. MaxFaults
    BY <1>1, MirrorAssumption DEF Rebuild, TypeOK
  <2> QED
    BY <1>1, <2>1, NoneTyped, QuietStep, RunTyped
       DEF Rebuild, TypeOK, target
<1>2. CASE Reset
  <2>1. faults' \in 0 .. MaxFaults
    BY <1>2, MirrorAssumption DEF Reset, TypeOK
  <2> QED
    BY <1>2, <2>1, EmptyTyped, QuietStep, RunTyped
       DEF Reset, TypeOK, states
<1>3. CASE Crash
  BY <1>3, FaultTyped, IdleTyped, RunTyped, QuietStep
     DEF Crash, TypeOK, states
<1> QED
  BY <1>1, <1>2, <1>3

LEMMA BeginType ==
    ASSUME TypeOK, Room, NEW sc \in Scopes, NEW full \in BOOLEAN,
           Begin(sc, full)
    PROVE  TypeOK' /\ Room'
<1> DEFINE last == ReadLast(sc, full)
<1>1. last \in 0 .. now
  BY MirrorAssumption DEF ReadLast, TypeOK
<1>2. run' \in Runs(now)
  BY <1>1, IdleTyped, RunTyped DEF Begin, Runs, Pcs
<1> QED
  BY <1>2, QuietStep DEF Begin, TypeOK, states

\* The steps of a push up to the list of what it sends.
LEMMA ListType ==
    ASSUME TypeOK, Room,
           \/ ClearFingerprints \/ ClearWatermarks \/ CheckCoherence
           \/ TakeCutoff \/ ListModified \/ AddBoundary
    PROVE  TypeOK' /\ Room'
<1>a. /\ run \in Runs(now)
      /\ 0 \in 0 .. now /\ now \in 0 .. now
  BY RunTyped
<1>1. CASE ClearFingerprints
  <2>1. run' \in Runs(now)
    BY <1>1, <1>a DEF ClearFingerprints, Runs, Pcs
  <2> QED
    BY <1>1, <2>1, NoneTyped, QuietStep
       DEF ClearFingerprints, TypeOK, target
<1>2. CASE ClearWatermarks
  <2>1. run' \in Runs(now)
    BY <1>2, <1>a DEF ClearWatermarks, Runs, Pcs
  <2> QED
    BY <1>2, <1>a, <2>1, QuietStep DEF ClearWatermarks, TypeOK, target
<1>3. CASE CheckCoherence
  <2>1. run' \in Runs(now)
    BY <1>3, <1>a DEF CheckCoherence, Runs, Pcs
  <2> QED
    BY <1>3, <2>1, RunStep DEF CheckCoherence, TypeOK
<1>4. CASE TakeCutoff
  <2>1. run' \in Runs(now)
    BY <1>4, <1>a DEF TakeCutoff, Runs, Pcs
  <2> QED
    BY <1>4, <2>1, RunStep DEF TakeCutoff, TypeOK, target
<1>5. CASE ListModified
  <2>1. \A S : Captured(S) \in [Sessions -> Revs]
    BY ZeroFits DEF Captured, TypeOK
  <2>2. fps[run.scope] \in [Sessions -> Revs]
    BY DEF TypeOK
  <2>3. run' \in Runs(now)
    BY <1>5, <1>a, <2>1, <2>2, NoneTyped DEF ListModified, Runs, Pcs
  <2> QED
    BY <1>5, <2>3, RunStep DEF ListModified, TypeOK, target
<1>6. CASE AddBoundary
  <2>1. run' \in Runs(now)
    <3>1. run'.todo \in [Sessions -> Revs]
      BY <1>6, ZeroFits DEF AddBoundary, TypeOK
    <3>2. run' = [run EXCEPT !.pc = "send", !.todo = run'.todo]
      BY <1>6, <1>a DEF AddBoundary, Runs
    <3> QED
      BY <3>1, <3>2, <1>a DEF Runs, Pcs
  <2> QED
    BY <1>6, <2>1, RunStep DEF AddBoundary, TypeOK, target
<1> QED
  BY <1>1, <1>2, <1>3, <1>4, <1>5, <1>6

\* The steps that send.
LEMMA SendType ==
    ASSUME TypeOK, Room,
           \/ \E S \in SUBSET Sessions : SendBatch(S) \/ BatchFails(S)
           \/ \E s \in Sessions : SendOne(s) \/ OneFails(s)
           \/ AllSent \/ SendDuckDB
    PROVE  TypeOK' /\ Room'
<1>a. run \in Runs(now) /\ now \in Nat
  BY RunTyped
<1>1. ASSUME NEW S \in SUBSET Sessions, SendBatch(S) PROVE TypeOK' /\ Room'
  BY <1>1, CopiedTyped, SentTyped, QuietStep DEF SendBatch, TypeOK, states
<1>2. ASSUME NEW S \in SUBSET Sessions, BatchFails(S) PROVE TypeOK' /\ Room'
  <2>1. run' \in Runs(now)
    BY <1>2, <1>a DEF BatchFails, Runs, Pcs
  <2> QED
    BY <1>2, <2>1, FaultTyped, RunStep DEF BatchFails, TypeOK, target
<1>3. ASSUME NEW s \in Sessions, SendOne(s) PROVE TypeOK' /\ Room'
  <2>1. {s} \in SUBSET Sessions
    OBVIOUS
  <2> QED
    BY <1>3, <2>1, CopiedTyped, SentTyped, QuietStep
       DEF SendOne, TypeOK, states
<1>4. ASSUME NEW s \in Sessions, OneFails(s) PROVE TypeOK' /\ Room'
  <2>1. [run.todo EXCEPT ![s] = 0] \in [Sessions -> Revs]
    BY ZeroFits DEF TypeOK
  <2>2. run' \in Runs(now)
    BY <1>4, <1>a, <2>1 DEF OneFails, Runs, Pcs
  <2> QED
    BY <1>4, <2>2, FaultTyped, RunStep DEF OneFails, TypeOK, target
<1>5. CASE AllSent
  <2>1. run' \in Runs(now)
    BY <1>5, <1>a, IdleTyped DEF AllSent, Runs, Pcs
  <2> QED
    BY <1>5, <2>1, RunStep DEF AllSent, TypeOK, target
<1>6. CASE SendDuckDB
  <2>1. In(run.todo) \in SUBSET Sessions
    BY DEF In
  <2>2. mirror' \in [Sessions -> [row : Revs, msgs : Revs]]
    <3>1. \A s \in Sessions : Copied(In(run.todo))[s] \in [row : Revs, msgs : Revs]
      BY <2>1, CopiedTyped
    <3> QED
      BY <1>6, <3>1, ZeroFits DEF SendDuckDB
  <2>3. run' \in Runs(now)
    <3>1. /\ run.todo \in [Sessions -> Revs]
          /\ run'.prior \in [Sessions -> Revs]
      BY <1>6, ZeroFits DEF SendDuckDB, TypeOK
    <3>2. run'.pc \in Pcs
      BY <1>6, <1>a DEF SendDuckDB, Pcs, Runs
    <3>3. run' = [run EXCEPT !.pushed = run.todo, !.todo = None,
                             !.prior = run'.prior, !.pc = run'.pc]
      BY <1>6, <1>a DEF SendDuckDB, Runs
    <3> QED
      BY <3>1, <3>2, <3>3, <1>a, NoneTyped DEF Runs
  <2> QED
    BY <1>6, <2>2, <2>3, QuietStep DEF SendDuckDB, TypeOK, states
<1> QED
  BY <1>1, <1>2, <1>3, <1>4, <1>5, <1>6

\* The steps that record what was sent, and the end of a failed push.
LEMMA RecordType ==
    ASSUME TypeOK, Room,
           \/ ClearDuckDB \/ RecordWatermark \/ RecordLegacy
           \/ RecordFingerprints \/ Abort
    PROVE  TypeOK' /\ Room'
<1>a. run \in Runs(now) /\ now \in Nat /\ 0 \in 0 .. now
  BY RunTyped
<1>1. CASE ClearDuckDB
  <2>1. run' \in Runs(now)
    BY <1>1, <1>a DEF ClearDuckDB, Runs, Pcs
  <2> QED
    BY <1>1, <1>a, <2>1, NoneTyped, QuietStep DEF ClearDuckDB, TypeOK, target
<1>2. CASE RecordWatermark
  <2>1. run' \in Runs(now)
    BY <1>2, <1>a DEF RecordWatermark, Runs, Pcs
  <2> QED
    BY <1>2, <2>1, QuietStep DEF RecordWatermark, TypeOK, target
<1>3. CASE RecordLegacy
  <2>1. run' \in Runs(now)
    BY <1>3, <1>a DEF RecordLegacy, Runs, Pcs
  <2> QED
    BY <1>3, <2>1, QuietStep DEF RecordLegacy, TypeOK, target
<1>4. CASE RecordFingerprints
  <2>1. fps' \in [Scopes -> [Sessions -> Revs]]
    BY <1>4, ZeroFits DEF RecordFingerprints, TypeOK
  <2> QED
    BY <1>4, <1>a, <2>1, IdleTyped, QuietStep
       DEF RecordFingerprints, TypeOK, target
<1>5. CASE Abort
  BY <1>5, <1>a, FaultTyped, IdleTyped, QuietStep DEF Abort, TypeOK, states
<1> QED
  BY <1>1, <1>2, <1>3, <1>4, <1>5

LEMMA TypeStep == TypeOK /\ Room /\ [Next]_vars => TypeOK' /\ Room'
<1> SUFFICES ASSUME TypeOK, Room, [Next]_vars PROVE TypeOK' /\ Room'
  OBVIOUS
<1>1. CASE UNCHANGED vars
  BY <1>1 DEF vars, TypeOK, Room, archive, states, target
<1> QED
  BY <1>1, ArchiveType, WorldType, BeginType, ListType, SendType, RecordType
     DEF Next, PushStep, World

\* In every state of a push and of the archive it pushes, no watermark and no
\* stamp is ahead of the clock, and revisions are the code's.
THEOREM TypeCorrect == Spec => []TypeOK
<1>1. Init => TypeOK /\ Room
  BY TypeInit
<1>2. (TypeOK /\ Room) /\ [Next]_vars => (TypeOK /\ Room)'
  BY TypeStep
<1> QED
  BY <1>1, <1>2, PTL DEF Spec

-----------------------------------------------------------------------------
(* The rows and the messages of a mirror are replicas of the archive. *)

LEMMA ForwardInit == Init => Forward
BY DEF Init, Forward, Empty, Idle, None

\* The steps that change neither the archive nor the mirror nor what is to be
\* sent.
LEMMA ForwardKept ==
    ASSUME TypeOK, Forward, UNCHANGED <<local, writing, mirror>>,
           \/ run' = Idle
           \/ UNCHANGED <<run.todo, run.retry>> /\ run'.pc # "retry"
                 /\ run.pc # "retry"
           \/ UNCHANGED run
    PROVE  Forward'
<1>1. CASE run' = Idle
  <2>1. \A s \in Sessions : local[s].rev \in Nat
    BY RevsAreNats DEF TypeOK
  <2> QED
    BY <1>1, <2>1 DEF Forward, Idle, None
<1>2. CASE UNCHANGED <<run.todo, run.retry>> /\ run'.pc # "retry"
              /\ run.pc # "retry"
  BY <1>2 DEF Forward
<1>3. CASE UNCHANGED run
  BY <1>3 DEF Forward
<1> QED
  BY <1>1, <1>2, <1>3

\* Sending the sessions of S, all of which wait to be sent.
LEMMA ForwardSent ==
    ASSUME TypeOK, Forward, NEW S \in SUBSET In(run.todo),
           mirror' = Copied(S), run' = Sent(S), UNCHANGED archive
    PROVE  Forward'
<1>1. ASSUME NEW s \in Sessions
      PROVE  /\ mirror'[s].row <= local[s].rev
             /\ mirror'[s].msgs <= local[s].rev
             /\ run'.todo[s] <= local[s].rev
             /\ run'.todo[s] # 0 => mirror'[s].row <= run'.todo[s]
  <2>1. /\ local[s].rev \in Nat /\ run.todo[s] \in Nat
        /\ mirror[s].row \in Nat /\ mirror[s].msgs \in Nat
    BY RevsAreNats DEF TypeOK
  <2>2. run'.todo[s] = IF s \in S THEN 0 ELSE run.todo[s]
    BY DEF Sent, TypeOK
  <2>3. mirror'[s] = IF s \notin S THEN mirror[s]
                     ELSE [row |-> run.todo[s],
                           msgs |-> IF s \in Live THEN local[s].rev ELSE 0]
    BY DEF Copied
  <2> QED
    BY <2>1, <2>2, <2>3 DEF Forward
<1>2. /\ run'.retry = run.retry \ S
      /\ run'.pc = IF run.retry \ S = {} THEN "send" ELSE "retry"
      /\ \A s \in Sessions \ S : run'.todo[s] = run.todo[s]
      /\ run.retry \subseteq Sessions
  BY DEF Sent, TypeOK
<1>3. (\A s \in run'.retry : run'.todo[s] # 0)
      /\ (run'.pc # "retry" => run'.retry = {})
  BY <1>2 DEF Forward
<1> QED
  BY <1>1, <1>3 DEF Forward, archive

LEMMA ForwardStep == TypeOK /\ Room /\ Forward /\ [Next]_vars => Forward'
<1> SUFFICES ASSUME TypeOK, Room, Forward, [Next]_vars PROVE Forward'
  OBVIOUS
<1>n. \A s \in Sessions : /\ local[s].rev \in Nat /\ run.todo[s] \in Nat
                          /\ mirror[s].row \in Nat /\ mirror[s].msgs \in Nat
  BY RevsAreNats DEF TypeOK
<1>1. CASE Tick \/ Rebuild \/ Abort \/ Crash
  BY <1>1, ForwardKept DEF Tick, Rebuild, Abort, Crash, archive, target
<1>2. CASE Commit
  <2>1. ASSUME NEW s \in Sessions
        PROVE  /\ local'[s].st = "none" => local'[s].rev = 0
               /\ local[s].rev <= local'[s].rev
    BY <1>2, <1>n DEF Commit, Forward
  <2>2. \A s \in Sessions : local'[s].rev \in Nat /\ writing'[s] = 0
    BY <1>2, <1>n DEF Commit, None
  <2> QED
    BY <1>2, <1>n, <2>1, <2>2 DEF Commit, Forward, target
<1>3. ASSUME NEW s \in Sessions, Stamp(s) PROVE Forward'
  BY <1>3 DEF Stamp, Forward, TypeOK, target
<1>4. ASSUME NEW s \in Sessions, Delete(s) PROVE Forward'
  <2>1. \A r \in Sessions : local'[r].rev = local[r].rev
                            /\ (local'[r].st = local[r].st \/ local'[r].st = "gone")
                            /\ writing'[r] = 0
    BY <1>4 DEF Delete, TypeOK, None
  <2>2. \A r \in Sessions : local'[r].st # "none" \/ local[r].st = "none"
    BY <1>4 DEF Delete, TypeOK
  <2> QED
    BY <1>4, <2>1, <2>2 DEF Delete, Forward, target
<1>5. CASE Reset
  BY <1>5, <1>n DEF Reset, Forward, Empty, archive
<1>6. ASSUME NEW sc \in Scopes, NEW full \in BOOLEAN, Begin(sc, full)
      PROVE  Forward'
  <2>1. run'.todo = None /\ run'.retry = {} /\ UNCHANGED <<local, writing, mirror>>
    BY <1>6 DEF Begin, Idle, archive
  <2> QED
    BY <1>n, <2>1 DEF Forward, None
<1>7. CASE ClearFingerprints \/ ClearWatermarks \/ CheckCoherence
           \/ TakeCutoff \/ ClearDuckDB \/ RecordWatermark \/ RecordLegacy
           \/ RecordFingerprints \/ AllSent
  BY <1>7, ForwardKept
     DEF ClearFingerprints, ClearWatermarks, CheckCoherence, TakeCutoff,
         ClearDuckDB, RecordWatermark, RecordLegacy, RecordFingerprints,
         AllSent, archive, target, TypeOK
<1>8. CASE ListModified
  <2>1. \A s \in Sessions : run'.todo[s] \in {0, local[s].rev}
    BY <1>8 DEF ListModified, Captured, TypeOK
  <2>2. run'.retry = {} /\ UNCHANGED <<local, writing, mirror>>
    BY <1>8 DEF ListModified, Forward, TypeOK, archive, target
  <2> QED
    BY <1>n, <2>1, <2>2 DEF Forward
<1>9. CASE AddBoundary
  <2>1. \A s \in Sessions : run'.todo[s] \in {0, local[s].rev, run.todo[s]}
    BY <1>9 DEF AddBoundary, TypeOK
  <2>2. run'.retry = {} /\ UNCHANGED <<local, writing, mirror>>
    BY <1>9 DEF AddBoundary, Forward, TypeOK, archive, target
  <2> QED
    BY <1>n, <2>1, <2>2 DEF Forward
<1>10. ASSUME NEW S \in SUBSET Sessions, SendBatch(S) PROVE Forward'
  BY <1>10, ForwardSent DEF SendBatch, Batch
<1>11. ASSUME NEW S \in SUBSET Sessions, BatchFails(S) PROVE Forward'
  <2>1. /\ run'.todo = run.todo /\ run'.retry = S /\ run'.pc = "retry"
        /\ \A s \in S : run.todo[s] # 0
        /\ UNCHANGED <<local, writing, mirror>>
    BY <1>11 DEF BatchFails, Batch, In, TypeOK, archive, target
  <2> QED
    BY <2>1 DEF Forward
<1>12. ASSUME NEW s \in Sessions, SendOne(s) PROVE Forward'
  <2>1. {s} \in SUBSET In(run.todo)
    BY <1>12 DEF SendOne, Forward, In
  <2> QED
    BY <1>12, <2>1, ForwardSent DEF SendOne
<1>13. ASSUME NEW s \in Sessions, OneFails(s) PROVE Forward'
  <2>1. /\ run'.todo = [run.todo EXCEPT ![s] = 0]
        /\ run'.retry = run.retry \ {s}
        /\ run'.pc = IF run.retry = {s} THEN "send" ELSE run.pc
        /\ run.pc = "retry" /\ s \in run.retry
        /\ UNCHANGED <<local, writing, mirror>>
    BY <1>13 DEF OneFails, TypeOK, archive, target
  <2>2. run.todo \in [Sessions -> Revs] /\ run.retry \subseteq Sessions
    BY DEF TypeOK
  <2>3. \A r \in Sessions : run'.todo[r] = IF r = s THEN 0 ELSE run.todo[r]
    BY <2>1, <2>2
  <2>4. (\A r \in run'.retry : run'.todo[r] # 0)
        /\ (run'.pc # "retry" => run'.retry = {})
    BY <2>1, <2>2, <2>3 DEF Forward
  <2> QED
    BY <1>n, <2>1, <2>3, <2>4 DEF Forward
<1>14. CASE SendDuckDB
  <2> DEFINE stale == { s \in Scope(run.scope) \ Live : mirror[s].row # 0 }
             sent == In(run.todo)
  <2>1. run'.todo = None /\ run'.retry = {} /\ UNCHANGED archive
    BY <1>14 DEF SendDuckDB, Forward, TypeOK
  <2>2. \A s \in Sessions : /\ mirror'[s].row <= local[s].rev
                            /\ mirror'[s].msgs <= local[s].rev
    <3>1. ASSUME NEW s \in Sessions
          PROVE  /\ Copied(sent)[s].row <= local[s].rev
                 /\ Copied(sent)[s].msgs <= local[s].rev
      BY <1>n DEF Copied, Forward
    <3> QED
      BY <1>14, <1>n, <3>1 DEF SendDuckDB
  <2> QED
    BY <1>n, <2>1, <2>2 DEF Forward, None, archive
<1>15. CASE UNCHANGED vars
  BY <1>15 DEF vars, Forward, archive, target
<1> QED
  BY <1>1, <1>2, <1>3, <1>4, <1>5, <1>6, <1>7, <1>8, <1>9, <1>10, <1>11,
     <1>12, <1>13, <1>14, <1>15 DEF Next, PushStep, World

LEMMA Inductive == Spec => [](TypeOK /\ Room /\ Forward)
<1>1. Init => TypeOK /\ Room /\ Forward
  BY TypeInit, ForwardInit
<1>2. (TypeOK /\ Room /\ Forward) /\ [Next]_vars
         => (TypeOK /\ Room /\ Forward)'
  BY TypeStep, ForwardStep
<1> QED
  BY <1>1, <1>2, PTL DEF Spec

\* What a step copies, as Replica sees it: from sessions that wait to be sent.
LEMMA CopiesForward ==
    ASSUME TypeOK, Forward, NEW S \in SUBSET In(run.todo), NEW s \in Sessions
    PROVE  /\ mirror[s].row <= Copied(S)[s].row
           /\ Copied(S)[s].row <= local[s].rev
           /\ \/ /\ mirror[s].msgs <= Copied(S)[s].msgs
                 /\ Copied(S)[s].msgs <= local[s].rev
              \/ s \notin NotGone /\ Copied(S)[s].msgs = 0
<1>1. /\ local[s].rev \in Nat /\ run.todo[s] \in Nat
      /\ mirror[s].row \in Nat /\ mirror[s].msgs \in Nat
  BY RevsAreNats DEF TypeOK
<1>2. Copied(S)[s] = IF s \notin S THEN mirror[s]
                     ELSE [row |-> run.todo[s],
                           msgs |-> IF s \in Live THEN local[s].rev ELSE 0]
  BY DEF Copied
<1>3. s \in S => s \in Live \/ s \notin NotGone
  <2>1. ASSUME s \in S, local[s].st = "none" PROVE FALSE
    BY <1>1, <2>1 DEF Forward, In
  <2> QED
    BY <2>1 DEF NotGone, Live, TypeOK
<1> QED
  BY <1>1, <1>2, <1>3 DEF Forward, In

\* The steps that leave the revisions and the mirror alone are stuttering
\* steps of both replicas.
LEMMA QuietIsStutter ==
    ASSUME UNCHANGED <<local, mirror>>
    PROVE  UNCHANGED <<Source, NotGone, mirror>>
BY DEF Source, NotGone

\* A step of the system seen from a mirror: it leaves revisions and copies
\* alone, changes, retires, copies or loses.
Copies ==
    /\ UNCHANGED <<Source, NotGone>>
    /\ \A s \in Sessions :
          /\ \/ mirror[s].row <= mirror'[s].row /\ mirror'[s].row <= Source[s]
             \/ s \notin NotGone /\ mirror'[s].row = 0
          /\ \/ mirror[s].msgs <= mirror'[s].msgs /\ mirror'[s].msgs <= Source[s]
             \/ s \notin NotGone /\ mirror'[s].msgs = 0

Changes ==
    /\ UNCHANGED <<NotGone, mirror>>
    /\ \E S \in SUBSET Sessions :
          Source' = [s \in Sessions |-> IF s \in S THEN Source[s] + 1
                                                   ELSE Source[s]]

Retires ==
    /\ UNCHANGED <<Source, mirror>>
    /\ \E s \in Sessions : NotGone' = NotGone \ {s}

Loses == UNCHANGED <<Source, NotGone>> /\ mirror' = Empty

LEMMA EveryStep ==
    ASSUME TypeOK, Room, Forward, [Next]_vars
    PROVE  \/ UNCHANGED <<Source, NotGone, mirror>>
           \/ Copies \/ Changes \/ Retires \/ Loses
<1>1. CASE \/ Tick \/ Rebuild \/ Abort \/ Crash
           \/ ClearFingerprints \/ ClearWatermarks \/ CheckCoherence
           \/ TakeCutoff \/ ClearDuckDB \/ RecordWatermark \/ RecordLegacy
           \/ RecordFingerprints \/ AllSent \/ ListModified \/ AddBoundary
  BY <1>1, QuietIsStutter
     DEF Tick, Rebuild, Abort, Crash, ClearFingerprints, ClearWatermarks,
         CheckCoherence, TakeCutoff, ClearDuckDB, RecordWatermark,
         RecordLegacy, RecordFingerprints, AllSent, ListModified,
         AddBoundary, archive, target
<1>2. CASE Commit
  <2> DEFINE S == { s \in Sessions : writing[s] # 0 }
  <2>1. Source' = [s \in Sessions |-> IF s \in S THEN Source[s] + 1
                                                 ELSE Source[s]]
    BY <1>2 DEF Commit, Source
  <2>2. NotGone' = NotGone
    BY <1>2 DEF Commit, NotGone, Forward
  <2> QED
    BY <1>2, <2>1, <2>2 DEF Commit, Changes, target
<1>3. ASSUME NEW s \in Sessions, Stamp(s)
      PROVE  UNCHANGED <<Source, NotGone, mirror>>
  BY <1>3, QuietIsStutter DEF Stamp, target
<1>4. ASSUME NEW s \in Sessions, Delete(s) PROVE Retires
  <2>1. \A r \in Sessions :
           /\ local'[r].rev = local[r].rev
           /\ local'[r].st = IF r = s THEN "gone" ELSE local[r].st
    BY <1>4 DEF Delete, TypeOK
  <2> QED
    BY <1>4, <2>1 DEF Delete, Retires, Source, NotGone, target
<1>5. CASE Reset
  BY <1>5 DEF Reset, Loses, Source, NotGone, archive
<1>6. ASSUME NEW sc \in Scopes, NEW full \in BOOLEAN, Begin(sc, full)
      PROVE  UNCHANGED <<Source, NotGone, mirror>>
  BY <1>6, QuietIsStutter DEF Begin, archive
<1>7. ASSUME NEW S \in SUBSET In(run.todo), mirror' = Copied(S),
             UNCHANGED archive
      PROVE  Copies
  <2>1. UNCHANGED <<Source, NotGone>>
    BY <1>7 DEF Source, NotGone, archive
  <2>2. \A s \in Sessions : Source[s] = local[s].rev
    BY DEF Source
  <2> QED
    BY <1>7, <2>1, <2>2, CopiesForward DEF Copies
<1>8. ASSUME NEW S \in SUBSET Sessions, SendBatch(S) PROVE Copies
  BY <1>7, <1>8 DEF SendBatch, Batch
<1>9. ASSUME NEW S \in SUBSET Sessions, BatchFails(S)
      PROVE  UNCHANGED <<Source, NotGone, mirror>>
  BY <1>9, QuietIsStutter DEF BatchFails, archive, target
<1>10. ASSUME NEW s \in Sessions, SendOne(s) PROVE Copies
  <2>1. {s} \in SUBSET In(run.todo)
    BY <1>10 DEF SendOne, Forward, In
  <2> QED
    BY <1>7, <1>10, <2>1 DEF SendOne
<1>11. ASSUME NEW s \in Sessions, OneFails(s)
       PROVE  UNCHANGED <<Source, NotGone, mirror>>
  BY <1>11, QuietIsStutter DEF OneFails, archive, target
<1>12. CASE SendDuckDB
  <2> DEFINE stale == { s \in Scope(run.scope) \ Live : mirror[s].row # 0 }
             sent == In(run.todo)
  <2>1. UNCHANGED <<Source, NotGone>>
    BY <1>12 DEF SendDuckDB, Source, NotGone, archive
  <2>2. \A s \in Sessions : s \in stale => s \notin NotGone
    <3> SUFFICES ASSUME NEW s \in Sessions, s \in stale PROVE s \notin NotGone
      OBVIOUS
    <3>1. local[s].rev \in Nat /\ mirror[s].row \in Nat
      BY RevsAreNats DEF TypeOK
    <3> QED
      BY <3>1 DEF Forward, NotGone, Live, TypeOK
  <2>3. sent \in SUBSET In(run.todo)
    OBVIOUS
  <2>4. \A s \in Sessions : Source[s] = local[s].rev
    BY DEF Source
  <2>5. \A s \in Sessions :
           mirror'[s] = IF s \in stale THEN [row |-> 0, msgs |-> 0]
                                       ELSE Copied(sent)[s]
    BY <1>12 DEF SendDuckDB
  <2> HIDE DEF stale, sent
  <2> QED
    BY <2>1, <2>2, <2>3, <2>4, <2>5, CopiesForward DEF Copies
<1>13. CASE UNCHANGED vars
  BY <1>13, QuietIsStutter DEF vars, archive, target
<1> QED
  BY <1>1, <1>2, <1>3, <1>4, <1>5, <1>6, <1>8, <1>9, <1>10, <1>11, <1>12,
     <1>13 DEF Next, PushStep, World

\* The rows of a mirror never go back to an older revision of their session
\* and never show one that is not committed, for any number of sessions, any
\* batch size, two scopes, failed transactions, crashes and lost mirrors.
THEOREM RowsImplementReplica == Spec => RowsAreReplica
<1> DEFINE RowOf == [s \in Sessions |-> mirror[s].row]
<1>1. Init => Rows!Init
  BY DEF Init, Rows!Init, Source, NotGone, Empty
<1>2. TypeOK /\ Room /\ Forward /\ [Next]_vars => [Rows!Next]_(Rows!vars)
  <2> SUFFICES ASSUME TypeOK, Room, Forward, [Next]_vars
               PROVE  Rows!Next \/ UNCHANGED <<Source, NotGone, RowOf>>
    BY DEF Rows!vars
  <2>1. CASE UNCHANGED <<Source, NotGone, mirror>>
    BY <2>1
  <2>2. CASE Copies
    <3>1. RowOf' \in [Sessions -> UNION { 0 .. Source[s] : s \in Sessions }]
      <4> SUFFICES ASSUME NEW s \in Sessions
                   PROVE  mirror'[s].row \in 0 .. Source[s]
        OBVIOUS
      <4>1. /\ Source[s] \in Nat /\ mirror[s].row \in Nat
            /\ mirror'[s].row \in Nat
        <5>1. TypeOK'
          BY TypeStep
        <5> QED
          BY <5>1, RevsAreNats DEF TypeOK, Source, Revs
      <4> QED
        BY <2>2, <4>1 DEF Copies
    <3> QED
      BY <2>2, <3>1 DEF Copies, Rows!Copy, Rows!Next
  <2>3. CASE Changes
    BY <2>3 DEF Changes, Rows!Change, Rows!Next
  <2>4. CASE Retires
    BY <2>4 DEF Retires, Rows!Retire, Rows!Next
  <2>5. CASE Loses
    BY <2>5 DEF Loses, Empty, Rows!Lose, Rows!Next
  <2> QED
    BY <2>1, <2>2, <2>3, <2>4, <2>5, EveryStep
<1> QED
  BY <1>1, <1>2, Inductive, PTL DEF Spec, RowsAreReplica, Rows!Spec

\* The same of the messages, which a push reads later than the row.
THEOREM MessagesImplementReplica == Spec => MessagesAreReplica
<1> DEFINE MsgsOf == [s \in Sessions |-> mirror[s].msgs]
<1>1. Init => Messages!Init
  BY DEF Init, Messages!Init, Source, NotGone, Empty
<1>2. TypeOK /\ Room /\ Forward /\ [Next]_vars
         => [Messages!Next]_(Messages!vars)
  <2> SUFFICES ASSUME TypeOK, Room, Forward, [Next]_vars
               PROVE  Messages!Next \/ UNCHANGED <<Source, NotGone, MsgsOf>>
    BY DEF Messages!vars
  <2>1. CASE UNCHANGED <<Source, NotGone, mirror>>
    BY <2>1
  <2>2. CASE Copies
    <3>1. MsgsOf' \in [Sessions -> UNION { 0 .. Source[s] : s \in Sessions }]
      <4> SUFFICES ASSUME NEW s \in Sessions
                   PROVE  mirror'[s].msgs \in 0 .. Source[s]
        OBVIOUS
      <4>1. /\ Source[s] \in Nat /\ mirror[s].msgs \in Nat
            /\ mirror'[s].msgs \in Nat
        <5>1. TypeOK'
          BY TypeStep
        <5> QED
          BY <5>1, RevsAreNats DEF TypeOK, Source, Revs
      <4> QED
        BY <2>2, <4>1 DEF Copies
    <3> QED
      BY <2>2, <3>1 DEF Copies, Messages!Copy, Messages!Next
  <2>3. CASE Changes
    BY <2>3 DEF Changes, Messages!Change, Messages!Next
  <2>4. CASE Retires
    BY <2>4 DEF Retires, Messages!Retire, Messages!Next
  <2>5. CASE Loses
    BY <2>5 DEF Loses, Empty, Messages!Lose, Messages!Next
  <2> QED
    BY <2>1, <2>2, <2>3, <2>4, <2>5, EveryStep
<1> QED
  BY <1>1, <1>2, Inductive, PTL DEF Spec, MessagesAreReplica, Messages!Spec

\* Pushes implement Replica, for the rows and for the messages of a session,
\* which the code sends together but reads apart.
THEOREM MirrorImplementsReplica == Spec => MirrorIsReplica
BY RowsImplementReplica, MessagesImplementReplica DEF MirrorIsReplica

-----------------------------------------------------------------------------
(* Fingerprints and watermarks never hide a change.                        *)

\* The mirror has no session.
Lost == \A s \in Sessions : mirror[s].row = 0

\* What was recorded for a session is true of the mirror: its fingerprint, and
\* that a stamp before the watermark has been sent.
HonestAt(s) == \A sc \in Scopes : fps[sc][s] = local[s].rev => Current(s)
PastAt(s) ==
    "late" \notin Env /\ local[s].mark < NextLast => Current(s)
Sound == \A s \in Live : HonestAt(s) /\ PastAt(s)

\* The stages of a push that has looked whether the mirror was lost, that has
\* taken its cutoff, and that has chosen what to send.
Looked == {"cutoff", "list", "window", "send", "retry", "mark", "legacy", "fps"}
After ==
    {"list", "window", "send", "retry", "duckclear", "mark", "legacy", "fps"}
Sending == {"send", "retry", "mark", "legacy", "fps"}

\* What was recorded is true, or the mirror has been lost and that will be
\* noticed, or the push in progress sends everything anew.
Trust ==
    \/ Sound
    \/ /\ "some" \notin scopes
       /\ run.full \/ (Lost /\ ~(run.pc \in Looked /\ schema))

\* What is recorded, or about to be, is not ahead of the archive.
Bounded ==
    \A s \in Sessions : /\ run.prior[s] <= local[s].rev
                        /\ run.pushed[s] <= local[s].rev
                        /\ \A sc \in Scopes : fps[sc][s] <= local[s].rev

\* How the stages of a push follow each other.
Stages ==
    /\ \A s \in Live : local[s].rev # 0 /\ local[s].mark # 0
    /\ ~schema => mirror = Empty
    /\ "some" \in scopes => (schemaDone => schema)
    /\ run.pc # "idle" => schemaDone /\ run.scope \in scopes
    /\ "some" \notin scopes => run.scope = "all"
    /\ run.pc \in {"clear", "clearmark", "duckclear"} => run.scope = "some"
    /\ run.pc \in {"mark", "legacy"} => run.scope = "all"
    /\ run.pc \in {"mark", "legacy", "fps", "duckclear"} =>
          run.todo = None /\ ~run.err
    /\ run.pc = "check" => run.prior = None /\ run.pushed = None /\ ~run.err
    /\ run.full => run.last = 0 /\ run.pc # "idle"
    /\ run.full /\ run.err => ~schema
    /\ run.err \/ run.pc = "retry" => backend = "postgres"

\* Without filtered pushes, fingerprints are recorded after the watermarks.
Marked ==
    "some" \notin scopes =>
        /\ fps["some"] = None
        /\ NextLast = 0 => fps["all"] = None

\* No change is still to be committed with a stamp before a watermark or the
\* cutoff of the push.
Times ==
    /\ "late" \notin Env =>
          \A s \in Sessions : writing[s] # 0 =>
              /\ wm["all"] <= writing[s]
              /\ run.pc \in After => run.cutoff <= writing[s]
    /\ run.pc \in After => run.cutoff # 0
    /\ run.scope = "all" =>
          /\ run.pc \in {"check", "cutoff", "list", "window"} /\ ~run.full =>
                run.last = NextLast
          /\ run.pc \in {"legacy", "fps"} => wm["all"] = run.cutoff
          /\ run.pc = "fps" => legacy = run.cutoff

\* What a push is about to record of a session will be true, or the mirror has
\* been lost meanwhile.
Cover ==
    \A s \in Live :
        /\ run.prior[s] = local[s].rev => Current(s) \/ ~schema
        /\ run.pushed[s] = local[s].rev => Current(s) \/ ~schema
        /\ "late" \notin Env /\ run.scope = "all"
                /\ local[s].mark < run.cutoff =>
              /\ run.pc = "window" =>
                    \/ run.todo[s] = local[s].rev
                    \/ run.todo[s] = 0 /\ local[s].mark <= run.last
              /\ run.pc \in Sending /\ ~run.err =>
                    run.todo[s] = local[s].rev \/ Current(s) \/ ~schema

Recorded == Trust /\ Bounded /\ Stages /\ Marked /\ Times /\ Cover

LEMMA Numbers ==
    ASSUME TypeOK
    PROVE  /\ now \in Nat /\ now # 0 /\ legacy \in Nat /\ wm["all"] \in Nat
           /\ NextLast \in Nat /\ NextLast <= wm["all"]
           /\ wm["all"] <= now /\ legacy <= now
           /\ run.last \in Nat /\ run.cutoff \in Nat
           /\ \A s \in Sessions :
                 /\ local[s].rev \in Nat /\ local[s].mark \in Nat
                 /\ writing[s] \in Nat
                 /\ mirror[s].row \in Nat /\ mirror[s].msgs \in Nat
                 /\ run.todo[s] \in Nat /\ run.prior[s] \in Nat
                 /\ run.pushed[s] \in Nat
                 /\ \A sc \in Scopes : fps[sc][s] \in Nat
<1>1. "all" \in Scopes
  BY DEF Scopes
<1>2. /\ now \in Nat /\ now # 0 /\ legacy \in Nat /\ wm["all"] \in Nat
      /\ wm["all"] <= now /\ legacy <= now
      /\ run.last \in Nat /\ run.cutoff \in Nat
  BY <1>1, MirrorAssumption DEF TypeOK
<1>3. NextLast \in Nat /\ NextLast <= wm["all"]
  BY <1>2 DEF NextLast, ReadLast
<1>4. ASSUME NEW s \in Sessions
      PROVE  /\ local[s].rev \in Nat /\ local[s].mark \in Nat
             /\ writing[s] \in Nat
             /\ mirror[s].row \in Nat /\ mirror[s].msgs \in Nat
             /\ run.todo[s] \in Nat /\ run.prior[s] \in Nat
             /\ run.pushed[s] \in Nat
             /\ \A sc \in Scopes : fps[sc][s] \in Nat
  BY <1>2, RevsAreNats DEF TypeOK
<1> QED
  BY <1>2, <1>3, <1>4

LEMMA LostCount == TypeOK => (Count = 0 <=> Lost)
<1> DEFINE Stored == { s \in Sessions : mirror[s].row # 0 }
<1>1. IsFiniteSet(Stored)
  BY MirrorAssumption, FS_Subset
<1>2. Cardinality(Stored) = 0 <=> Stored = {}
  BY <1>1, FS_EmptySet
<1> QED
  BY <1>2 DEF Count, Lost

\* Where the sessions that are alive have not changed, and the mirror has them
\* if it had them, what was recorded of them stays true.
LEMMA SoundKept ==
    ASSUME Sound, NextLast' \in {0, NextLast},
           \A s \in Live' :
               /\ s \in Live /\ local'[s].rev = local[s].rev
               /\ local'[s].mark = local[s].mark
               /\ local[s].rev # 0 /\ local[s].mark \in Nat
               /\ Current(s) => Current(s)'
               /\ \A sc \in Scopes : fps'[sc][s] \in {0, fps[sc][s]}
    PROVE  Sound'
<1> SUFFICES ASSUME NEW s \in Live' PROVE HonestAt(s)' /\ PastAt(s)'
  BY DEF Sound
<1>1. HonestAt(s) /\ PastAt(s)
  BY DEF Sound
<1>2. HonestAt(s)'
  BY <1>1 DEF HonestAt
<1>3. PastAt(s)'
  BY <1>1 DEF PastAt
<1> QED
  BY <1>2, <1>3

LEMMA RecordedInit == Init => Recorded
<1> SUFFICES ASSUME Init PROVE Recorded
  OBVIOUS
<1>1. Live = {} /\ Bounded
  BY DEF Init, Live, Bounded, Idle, None
<1>2. Stages /\ Times
  BY <1>1 DEF Init, Stages, Times, Idle, After, None
<1>3. Marked
  BY DEF Init, Marked, Scopes
<1> QED
  BY <1>1, <1>2, <1>3 DEF Recorded, Trust, Sound, Cover

\* The steps of the archive: time, a statement, a commit, a deletion.
LEMMA ArchiveRecorded ==
    ASSUME TypeOK, Forward, Recorded,
           \/ Tick \/ Commit \/ \E s \in Sessions : Stamp(s) \/ Delete(s)
    PROVE  Recorded'
<1>n. /\ now \in Nat /\ now # 0 /\ wm["all"] \in Nat /\ NextLast \in Nat
      /\ NextLast <= wm["all"] /\ wm["all"] <= now /\ run.cutoff \in Nat
      /\ run.cutoff <= now
      /\ \A s \in Sessions :
            /\ local[s].rev \in Nat /\ local[s].mark \in Nat
            /\ writing[s] \in Nat
            /\ run.prior[s] \in Nat /\ run.pushed[s] \in Nat
            /\ \A sc \in Scopes : fps[sc][s] \in Nat
  BY Numbers DEF TypeOK
<1>u. /\ UNCHANGED <<backend, scopes, wm, legacy, fps, schema, schemaDone,
                     mirror, run>>
      /\ NextLast' = NextLast /\ (Lost' <=> Lost)
  BY DEF Tick, Commit, Stamp, Delete, states, target, NextLast, ReadLast, Lost
<1>1. ASSUME NEW s \in Live'
      PROVE  /\ s \in Sessions
             /\ \/ /\ s \in Live /\ local'[s].rev = local[s].rev
                   /\ local'[s].mark = local[s].mark
                \/ /\ writing[s] # 0 /\ local'[s].rev = local[s].rev + 1
                   /\ local'[s].mark = writing[s]
  BY <1>1 DEF Tick, Commit, Stamp, Delete, Live, TypeOK
<1>2. \A s \in Sessions : local'[s].rev \in Nat /\ local[s].rev <= local'[s].rev
  <2>1. CASE Commit
    BY <1>n, <2>1 DEF Commit
  <2>2. CASE UNCHANGED local
    BY <1>n, <2>2
  <2>3. ASSUME NEW r \in Sessions, Delete(r)
        PROVE  \A s \in Sessions : local'[s].rev = local[s].rev
    BY <2>3 DEF Delete, TypeOK
  <2> QED
    BY <1>n, <2>1, <2>2, <2>3 DEF Tick, Stamp
<1>3. \A s \in Sessions : writing'[s] # 0 =>
          writing'[s] = writing[s] \/ writing'[s] = now
  BY DEF Tick, Commit, Stamp, Delete, None, TypeOK
<1>4. Bounded'
  BY <1>n, <1>u, <1>2 DEF Recorded, Bounded
<1>5. ASSUME NEW s \in Live', Sound PROVE HonestAt(s)' /\ PastAt(s)'
  <2>1. CASE s \in Live /\ local'[s].rev = local[s].rev
                        /\ local'[s].mark = local[s].mark
    BY <1>5, <1>u, <2>1 DEF Sound, HonestAt, PastAt, Current
  <2>2. CASE writing[s] # 0 /\ local'[s].rev = local[s].rev + 1
                            /\ local'[s].mark = writing[s]
    <3>1. \A sc \in Scopes : fps[sc][s] # local'[s].rev
      BY <1>n, <1>1, <2>2 DEF Recorded, Bounded
    <3>2. "late" \notin Env => wm["all"] <= writing[s]
      BY <1>1, <2>2 DEF Recorded, Times
    <3> QED
      BY <1>n, <1>u, <1>1, <2>2, <3>1, <3>2 DEF HonestAt, PastAt
  <2> QED
    BY <1>1, <2>1, <2>2
<1>6. Trust'
  BY <1>u, <1>5 DEF Recorded, Trust, Sound
<1>7. Stages'
  BY <1>n, <1>u, <1>1 DEF Recorded, Stages, Live
<1>8. Times'
  BY <1>n, <1>u, <1>3 DEF Recorded, Times, After
<1>9. Cover'
  <2> SUFFICES ASSUME NEW s \in Live'
               PROVE  /\ run.prior[s] = local'[s].rev => Current(s)' \/ ~schema
                      /\ run.pushed[s] = local'[s].rev => Current(s)' \/ ~schema
                      /\ "late" \notin Env /\ run.scope = "all"
                              /\ local'[s].mark < run.cutoff =>
                            /\ run.pc = "window" =>
                                  \/ run.todo[s] = local'[s].rev
                                  \/ /\ run.todo[s] = 0
                                     /\ local'[s].mark <= run.last
                            /\ run.pc \in Sending /\ ~run.err =>
                                  \/ run.todo[s] = local'[s].rev
                                  \/ Current(s)' \/ ~schema
    BY <1>u DEF Cover
  <2>1. CASE s \in Live /\ local'[s].rev = local[s].rev
                        /\ local'[s].mark = local[s].mark
    BY <1>u, <2>1 DEF Recorded, Cover, Current
  <2>2. CASE writing[s] # 0 /\ local'[s].rev = local[s].rev + 1
                            /\ local'[s].mark = writing[s]
    <3>1. run.prior[s] # local'[s].rev /\ run.pushed[s] # local'[s].rev
      BY <1>n, <1>1, <2>2 DEF Recorded, Bounded
    <3>2. ASSUME "late" \notin Env, run.pc \in After PROVE run.cutoff <= writing[s]
      BY <1>1, <2>2, <3>2 DEF Recorded, Times
    <3>3. "window" \in After /\ Sending \subseteq After
      BY DEF After, Sending
    <3> QED
      BY <1>n, <1>1, <2>2, <3>1, <3>2, <3>3
  <2> QED
    BY <1>1, <2>1, <2>2
<1>10. Marked'
  BY <1>u DEF Recorded, Marked
<1> QED
  BY <1>4, <1>6, <1>7, <1>8, <1>9, <1>10 DEF Recorded

\* A rebuild forgets everything that was recorded.
LEMMA RebuildRecorded ==
    ASSUME TypeOK, Recorded, Rebuild
    PROVE  Recorded'
<1>u. UNCHANGED <<backend, scopes, local, writing, now, schema, schemaDone,
                  mirror, run>> /\ run.pc = "idle"
  BY DEF Rebuild, archive, target
<1>0. /\ wm' = [sc \in Scopes |-> 0] /\ legacy' = 0
      /\ fps' = [sc \in Scopes |-> None]
  BY DEF Rebuild
<1>1. wm'["all"] = 0 /\ NextLast' = 0 /\ fps'["all"] = None /\ fps'["some"] = None
  BY <1>0 DEF NextLast, ReadLast, Scopes
<1>2. \A s \in Sessions : /\ \A sc \in Scopes : fps'[sc][s] = 0
                          /\ local[s].rev \in Nat /\ local[s].mark \in Nat
                          /\ writing[s] \in Nat
  BY <1>0, Numbers DEF None
<1>3. Live' = Live /\ Live \subseteq Sessions
  BY <1>u DEF Live
<1>4. Sound'
  BY <1>u, <1>1, <1>2, <1>3 DEF Recorded, Stages, Sound, HonestAt, PastAt
<1>5. Bounded'
  BY <1>u, <1>2 DEF Recorded, Bounded
<1>6. Stages'
  BY <1>u, <1>3 DEF Recorded, Stages
<1>7. Marked'
  BY <1>1 DEF Marked
<1>8. Times'
  BY <1>u, <1>0, <1>1, <1>2 DEF Recorded, Times, After
<1>9. Cover'
  BY <1>u, <1>3 DEF Recorded, Cover, Current
<1> QED
  BY <1>4, <1>5, <1>6, <1>7, <1>8, <1>9 DEF Recorded, Trust

\* The mirror is lost: the next push will notice, or the one in progress
\* cannot send any more.
LEMMA ResetRecorded ==
    ASSUME TypeOK, Recorded, Reset, "filteredreset" \notin Env
    PROVE  Recorded'
<1>u. /\ UNCHANGED <<backend, scopes, local, writing, now, wm, legacy, fps,
                     schemaDone, run>>
      /\ schema' = FALSE /\ mirror' = Empty /\ "some" \notin scopes
  BY DEF Reset, archive, states
<1>1. NextLast' = NextLast /\ Live' = Live /\ Lost'
  BY <1>u DEF NextLast, ReadLast, Live, Lost, Empty
<1>2. Trust'
  BY <1>u, <1>1 DEF Trust
<1>3. Bounded' /\ Marked' /\ Times'
  BY <1>u, <1>1 DEF Recorded, Bounded, Marked, Times
<1>4. Stages'
  BY <1>u, <1>1 DEF Recorded, Stages, Empty
<1>5. Cover'
  BY <1>u, <1>1 DEF Recorded, Cover
<1> QED
  BY <1>2, <1>3, <1>4, <1>5 DEF Recorded


\* A push ends without recording anything, which it may do with something
\* sent only if it was not to send everything anew.
LEMMA EndRecorded ==
    ASSUME TypeOK, Recorded, run' = Idle, schemaDone' => schemaDone,
           UNCHANGED <<backend, scopes, archive, states, schema, mirror>>,
           run.full => ~schema
    PROVE  Recorded'
<1>u. /\ UNCHANGED <<scopes, local, writing, now, wm, legacy, fps>>
      /\ NextLast' = NextLast /\ Live' = Live /\ (Lost' <=> Lost)
      /\ Live \subseteq Sessions
  BY DEF archive, states, NextLast, ReadLast, Live, Lost
<1>i. /\ Idle.pc = "idle" /\ Idle.scope = "all" /\ Idle.full = FALSE
      /\ Idle.last = 0 /\ Idle.err = FALSE
      /\ \A s \in Sessions : Idle.prior[s] = 0 /\ Idle.pushed[s] = 0
  BY DEF Idle, None
<1>n. \A s \in Sessions : local[s].rev \in Nat
  BY Numbers
<1>1. Sound => Sound'
  BY <1>u DEF Sound, HonestAt, PastAt, Current
<1>2. ~schema => Lost
  BY DEF Recorded, Stages, Lost, Empty
<1>3. Trust'
  <2>1. CASE Sound
    BY <1>1, <2>1 DEF Trust
  <2>2. CASE "some" \notin scopes /\ Lost
    <3>1. run'.pc \notin Looked
      BY <1>i DEF Looked
    <3> QED
      BY <1>u, <2>2, <3>1 DEF Trust
  <2>3. Sound \/ ("some" \notin scopes /\ Lost)
    <3> HIDE DEF Sound, Lost
    <3> QED
      BY <1>2, ZenonT(30) DEF Recorded, Trust
  <2> QED
    BY <2>1, <2>2, <2>3
<1>4. Bounded'
  BY <1>u, <1>i, <1>n DEF Recorded, Bounded
<1>5. Stages'
  <2>1. (schemaDone' => schemaDone) /\ UNCHANGED <<scopes, schema, mirror>>
    OBVIOUS
  <2>2. "some" \in scopes' => (schemaDone' => schema')
    BY <2>1 DEF Recorded, Stages
  <2>3. run'.pc = "idle" /\ run'.scope = "all" /\ ~run'.full /\ ~run'.err
    BY <1>i
  <2> QED
    BY <1>u, <2>1, <2>2, <2>3 DEF Recorded, Stages
<1>6. Marked' /\ Times'
  BY <1>u, <1>i DEF Recorded, Marked, Times, After
<1>7. Cover'
  BY <1>u, <1>i DEF Recorded, Stages, Cover, Sending
<1> QED
  BY <1>3, <1>4, <1>5, <1>6, <1>7 DEF Recorded

LEMMA FailedRecorded ==
    ASSUME TypeOK, Recorded, "interrupted" \notin Env, Abort \/ Crash \/
           (AllSent /\ run.err)
    PROVE  Recorded'
<1>1. run.full => ~schema
  BY DEF Abort, Crash, AllSent, Fault, Recorded, Stages
<1>2. /\ run' = Idle /\ (schemaDone' => schemaDone)
      /\ UNCHANGED <<backend, scopes, archive, states, schema, mirror>>
  BY DEF Abort, Crash, AllSent, target
<1> QED
  BY <1>1, <1>2, EndRecorded

\* A push begins: if it is to send everything, nothing need be true of the
\* mirror any more.
LEMMA BeginRecorded ==
    ASSUME TypeOK, Recorded, NEW sc \in Scopes, NEW full \in BOOLEAN,
           Begin(sc, full)
    PROVE  Recorded'
<1>u. /\ UNCHANGED <<backend, scopes, local, writing, now, wm, legacy, fps,
                     mirror>>
      /\ NextLast' = NextLast /\ Live' = Live /\ (Lost' <=> Lost)
      /\ Live \subseteq Sessions /\ run.pc = "idle" /\ sc \in scopes
      /\ schemaDone' = TRUE /\ (schema => schema')
      /\ schema' = (schema \/ ~schemaDone \/ full \/ backend = "duckdb")
  BY DEF Begin, archive, states, NextLast, ReadLast, Live, Lost
<1>r. /\ run'.scope = sc /\ run'.last = ReadLast(sc, full)
      /\ run'.full = (full \/ (backend = "duckdb" /\ run'.last = 0 /\ sc = "all"))
      /\ run'.pc \in {"clear", "check"} /\ (run'.pc = "clear" => sc = "some")
      /\ run'.err = FALSE
      /\ run'.prior = None /\ run'.pushed = None
      /\ \A s \in Sessions : run'.prior[s] = 0 /\ run'.pushed[s] = 0
  BY DEF Begin, Idle, None
<1>n. \A s \in Sessions : local[s].rev \in Nat
  BY Numbers
<1>1. Sound => Sound'
  BY <1>u DEF Sound, HonestAt, PastAt, Current
<1>2. ~run.full /\ Trust'
  <2>1. Trust /\ ~(run'.pc \in Looked)
    BY <1>r DEF Recorded, Looked
  <2>2. ~run.full
    BY <1>u DEF Recorded, Stages
  <2> QED
    BY <1>u, <1>1, <2>1, <2>2 DEF Trust
<1>4. Bounded'
  BY <1>u, <1>r, <1>n DEF Recorded, Bounded
<1>5. Stages'
  <2>1. run'.full => run'.last = 0 /\ run'.pc # "idle"
    BY <1>r DEF ReadLast
  <2>2. "some" \in scopes => schema'
    BY <1>u DEF Recorded, Stages
  <2>3. "some" \notin scopes => sc = "all"
    BY <1>u DEF Scopes
  <2> QED
    BY <1>u, <1>r, <2>1, <2>2, <2>3 DEF Recorded, Stages
<1>6. Marked'
  BY <1>u DEF Recorded, Marked
<1>7. Times'
  <2>1. sc = "all" /\ ~run'.full => run'.last = NextLast
    BY <1>r DEF ReadLast, NextLast
  <2> QED
    BY <1>u, <1>r, <2>1 DEF Recorded, Times, After
<1>8. Cover'
  BY <1>u, <1>r DEF Recorded, Stages, Cover, Sending
<1> QED
  BY <1>2, <1>4, <1>5, <1>6, <1>7, <1>8 DEF Recorded


\* The state of a filtered push is cleared: what is still recorded of the
\* archive is true.
LEMMA ClearRecorded ==
    ASSUME TypeOK, Recorded,
           ClearFingerprints \/ ClearWatermarks \/ ClearDuckDB
    PROVE  Recorded'
<1>u. /\ UNCHANGED <<backend, scopes, local, writing, now, schema, schemaDone,
                     mirror>>
      /\ Live' = Live /\ (Lost' <=> Lost) /\ Live \subseteq Sessions
  BY DEF ClearFingerprints, ClearWatermarks, ClearDuckDB, archive, target,
         Live, Lost
<1>s. run.scope = "some" /\ "some" \in scopes
  BY DEF ClearFingerprints, ClearWatermarks, ClearDuckDB, Recorded, Stages
<1>m. wm'["all"] = wm["all"] /\ NextLast' \in {0, NextLast}
  <2>1. wm'["all"] = wm["all"]
    BY <1>s DEF ClearFingerprints, ClearWatermarks, ClearDuckDB, TypeOK, Scopes
  <2>2. legacy' \in {0, legacy}
    BY DEF ClearFingerprints, ClearWatermarks, ClearDuckDB
  <2> QED
    BY <1>u, <2>1, <2>2 DEF NextLast, ReadLast
<1>f. \A sc \in Scopes, s \in Sessions : fps'[sc][s] \in {0, fps[sc][s]}
  BY DEF ClearFingerprints, ClearWatermarks, ClearDuckDB, None, TypeOK
<1>r. /\ run'.pc \in {"clearmark", "cutoff", "fps"}
      /\ (run'.pc = "fps" => run.pc = "duckclear")
      /\ run'.scope = "some" /\ run'.full = run.full /\ run'.last = run.last
      /\ run'.todo = run.todo /\ run'.prior = run.prior
      /\ run'.pushed = run.pushed /\ run'.err = run.err
      /\ run'.cutoff = run.cutoff
  BY <1>s DEF ClearFingerprints, ClearWatermarks, ClearDuckDB, TypeOK
<1>n. \A s \in Sessions : local[s].rev \in Nat /\ local[s].mark \in Nat
                          /\ \A sc \in Scopes : fps[sc][s] \in Nat
  BY Numbers
<1>1. Sound
  BY <1>s DEF Recorded, Trust
<1>2. Sound'
  BY <1>1, <1>u, <1>m, <1>f, <1>n, SoundKept DEF Recorded, Stages, Current
<1>3. Bounded'
  BY <1>u, <1>r, <1>f, <1>n DEF Recorded, Bounded
<1>4. Stages'
  <2>1. run.pc \in {"clear", "clearmark", "duckclear"}
    BY DEF ClearFingerprints, ClearWatermarks, ClearDuckDB
  <2> QED
    BY <1>u, <1>s, <1>r, <2>1 DEF Recorded, Stages
<1>5. Marked'
  BY <1>u, <1>s DEF Marked
<1>6. Times'
  BY <1>u, <1>m, <1>r DEF Recorded, Times, After
<1>7. Cover'
  BY <1>u, <1>r DEF Recorded, Cover, Current
<1> QED
  BY <1>2, <1>3, <1>4, <1>5, <1>6, <1>7 DEF Recorded, Trust


\* Looking whether the mirror was lost: if it was not, what was recorded of
\* its sessions is true.
LEMMA CheckRecorded ==
    ASSUME TypeOK, Recorded, CheckCoherence
    PROVE  Recorded'
<1>u. /\ UNCHANGED <<backend, scopes, local, writing, now, wm, legacy, fps,
                     schemaDone, mirror>>
      /\ NextLast' = NextLast /\ Live' = Live /\ (Lost' <=> Lost)
      /\ Live \subseteq Sessions /\ run.pc = "check"
      /\ (schema => schema')
  BY DEF CheckCoherence, archive, states, NextLast, ReadLast, Live, Lost
<1>r. /\ run'.scope = run.scope /\ run'.cutoff = run.cutoff
      /\ run'.prior = run.prior /\ run'.pushed = run.pushed
      /\ run'.todo = run.todo /\ run'.err = run.err
      /\ \/ /\ WasReset /\ schema' /\ run'.full /\ run'.last = 0
            /\ run'.pc \in {"clear", "cutoff"}
            /\ (run'.pc = "clear" => run.scope = "some")
         \/ /\ ~WasReset /\ schema' = schema /\ run'.full = run.full
            /\ run'.last = run.last /\ run'.pc = "cutoff"
  BY DEF CheckCoherence, TypeOK
<1>n. \A s \in Sessions : local[s].rev \in Nat /\ local[s].mark \in Nat
                          /\ \A sc \in Scopes : fps[sc][s] \in Nat
  BY Numbers
<1>1. Sound => Sound'
  BY <1>u DEF Sound, HonestAt, PastAt, Current
<1>2. Trust'
  <2>1. CASE Sound
    BY <1>1, <2>1 DEF Trust
  <2>2. CASE "some" \notin scopes /\ (WasReset \/ run.full)
    <3>1. run'.full
      BY <1>r, <2>2
    <3> QED
      BY <1>u, <2>2, <3>1 DEF Trust
  <2>3. CASE "some" \notin scopes /\ Lost /\ ~WasReset /\ ~run.full
    <3>1. run.last = 0 /\ run.last = NextLast
      BY <1>u, <2>3, LostCount DEF WasReset, Recorded, Stages, Times
    <3>2. \A s \in Sessions, sc \in Scopes : fps[sc][s] = 0
      BY <2>3, <3>1 DEF Recorded, Marked, Scopes, None
    <3>3. Sound
      BY <1>n, <1>u, <3>1, <3>2
         DEF Recorded, Stages, Sound, HonestAt, PastAt
    <3> QED
      BY <1>1, <3>3 DEF Trust
  <2>4. Sound \/ ("some" \notin scopes /\ (run.full \/ Lost))
    BY DEF Recorded, Trust
  <2> QED
    BY <2>1, <2>2, <2>3, <2>4
<1>3. Bounded' /\ Marked'
  BY <1>u, <1>r DEF Recorded, Bounded, Marked
<1>4. Stages'
  <2>1. run'.full /\ run'.err => ~schema'
    <3>1. ~run.err
      BY <1>u DEF Recorded, Stages
    <3> QED
      BY <1>r, <3>1
  <2> QED
    BY <1>u, <1>r, <2>1 DEF Recorded, Stages
<1>5. Times'
  BY <1>u, <1>r DEF Recorded, Times, After
<1>6. Cover'
  <2>1. \A s \in Sessions : run.prior[s] = 0 /\ run.pushed[s] = 0
    BY <1>u DEF Recorded, Stages, None
  <2>2. run'.pc \notin Sending /\ run'.pc # "window"
    BY <1>r DEF Sending
  <2> QED
    BY <1>u, <1>r, <2>1, <2>2 DEF Recorded, Stages, Cover
<1> QED
  BY <1>2, <1>3, <1>4, <1>5, <1>6 DEF Recorded


\* What the steps that only prepare a push leave alone.
LEMMA PushOnly ==
    ASSUME UNCHANGED <<backend, scopes, archive, states, target>>
    PROVE  /\ UNCHANGED <<backend, scopes, local, writing, now, wm, legacy, fps,
                          schema, schemaDone, mirror>>
           /\ NextLast' = NextLast /\ Live' = Live /\ (Lost' <=> Lost)
           /\ Live \subseteq Sessions
           /\ (Sound => Sound')
           /\ \A s \in Sessions : Current(s)' <=> Current(s)
<1>1. /\ UNCHANGED <<backend, scopes, local, writing, now, wm, legacy, fps,
                     schema, schemaDone, mirror>>
      /\ NextLast' = NextLast /\ Live' = Live /\ (Lost' <=> Lost)
      /\ Live \subseteq Sessions
      /\ \A s \in Sessions : Current(s)' <=> Current(s)
  BY DEF archive, states, target, NextLast, ReadLast, Live, Lost, Current
<1>2. Sound => Sound'
  BY <1>1 DEF Sound, HonestAt, PastAt
<1> QED
  BY <1>1, <1>2

\* A push that had looked whether the mirror was lost goes on: what was
\* recorded is as true as it was.
LEMMA TrustKept ==
    ASSUME Trust, Sound => Sound', UNCHANGED <<scopes, schema>>,
           Lost' <=> Lost, run'.full = run.full,
           run.pc \in Looked \/ run'.pc \notin Looked
    PROVE  Trust'
<1>1. CASE Sound
  BY <1>1 DEF Trust
<1>2. CASE "some" \notin scopes /\ run.full
  BY <1>2 DEF Trust
<1>3. CASE "some" \notin scopes /\ Lost /\ ~(run.pc \in Looked /\ schema)
  BY <1>3 DEF Trust
<1> QED
  BY <1>1, <1>2, <1>3 DEF Trust

LEMMA CutoffRecorded ==
    ASSUME TypeOK, Recorded, TakeCutoff
    PROVE  Recorded'
<1>u. /\ UNCHANGED <<backend, scopes, local, writing, now, wm, legacy, fps,
                     schema, schemaDone, mirror>>
      /\ NextLast' = NextLast /\ Live' = Live /\ (Lost' <=> Lost)
      /\ Live \subseteq Sessions /\ (Sound => Sound')
      /\ \A s \in Sessions : Current(s)' <=> Current(s)
  BY PushOnly DEF TakeCutoff
<1>r. /\ run.pc = "cutoff" /\ run'.pc = "list" /\ run'.cutoff = now
      /\ run'.scope = run.scope /\ run'.full = run.full /\ run'.last = run.last
      /\ run'.todo = run.todo /\ run'.prior = run.prior
      /\ run'.pushed = run.pushed /\ run'.err = run.err
  BY DEF TakeCutoff, TypeOK
<1>n. now \in Nat /\ now # 0 /\ wm["all"] \in Nat /\ wm["all"] <= now
      /\ \A s \in Sessions : writing[s] \in Nat
  BY Numbers
<1>1. Trust'
  BY <1>u, <1>r, TrustKept DEF Recorded, Looked
<1>2. Bounded' /\ Marked' /\ Stages'
  BY <1>u, <1>r DEF Recorded, Bounded, Marked, Stages
<1>3. Times'
  <2>1. \A s \in Sessions : "late" \notin Env /\ writing[s] # 0 => writing[s] = now
    BY DEF TakeCutoff
  <2> QED
    BY <1>u, <1>r, <1>n, <2>1 DEF Recorded, Times
<1>4. Cover'
  BY <1>u, <1>r DEF Recorded, Cover, Sending
<1> QED
  BY <1>1, <1>2, <1>3, <1>4 DEF Recorded

\* What a push lists covers every session stamped between the watermark and
\* the cutoff; what it compares with is what was recorded.
LEMMA ListRecorded ==
    ASSUME TypeOK, Recorded, ListModified
    PROVE  Recorded'
<1>u. /\ UNCHANGED <<backend, scopes, local, writing, now, wm, legacy, fps,
                     schema, schemaDone, mirror>>
      /\ NextLast' = NextLast /\ Live' = Live /\ (Lost' <=> Lost)
      /\ Live \subseteq Sessions /\ (Sound => Sound')
      /\ \A s \in Sessions : Current(s)' <=> Current(s)
  BY PushOnly DEF ListModified
<1>r. /\ run.pc = "list" /\ run'.pc = "window" /\ run'.cutoff = run.cutoff
      /\ run'.scope = run.scope /\ run'.full = run.full /\ run'.last = run.last
      /\ run'.prior = IF run.full THEN None ELSE fps[run.scope]
      /\ run'.pushed = run.pushed /\ run'.err = run.err
      /\ run'.todo = Captured(ModifiedBetween(run.last, run.cutoff)
                                 \cap Scope(run.scope))
      /\ run.scope \in Scopes
  BY DEF ListModified, TypeOK
<1>n. /\ run.last \in Nat /\ run.cutoff \in Nat
      /\ \A s \in Sessions : /\ local[s].rev \in Nat /\ local[s].mark \in Nat
                             /\ \A sc \in Scopes : fps[sc][s] \in Nat
  BY Numbers
<1>1. Trust'
  BY <1>u, <1>r, TrustKept DEF Recorded, Looked
<1>p. \A s \in Sessions : \/ run'.prior[s] = 0
                          \/ ~run.full /\ run'.prior[s] = fps[run.scope][s]
  BY <1>r DEF None
<1>2. Bounded'
  BY <1>u, <1>r, <1>n, <1>p DEF Recorded, Bounded
<1>3. Marked' /\ Stages'
  BY <1>u, <1>r DEF Recorded, Marked, Stages
<1>4. Times'
  BY <1>u, <1>r DEF Recorded, Times, After
<1>5. Cover'
  <2> SUFFICES ASSUME NEW s \in Live
               PROVE  /\ run'.prior[s] = local[s].rev => Current(s) \/ ~schema
                      /\ run'.pushed[s] = local[s].rev => Current(s) \/ ~schema
                      /\ "late" \notin Env /\ run.scope = "all"
                              /\ local[s].mark < run.cutoff =>
                            \/ run'.todo[s] = local[s].rev
                            \/ run'.todo[s] = 0 /\ local[s].mark <= run.last
    BY <1>u, <1>r DEF Cover, Sending
  <2>0. s \in Sessions
    BY <1>u
  <2>1. run'.prior[s] = local[s].rev => Current(s) \/ ~schema
    <3>1. CASE run'.prior[s] = 0
      BY <3>1 DEF Recorded, Stages
    <3>2. CASE ~run.full /\ run'.prior[s] = fps[run.scope][s] /\ schema
      <4>1. Sound
        BY <1>r, <3>2 DEF Recorded, Trust, Looked
      <4> QED
        BY <1>r, <3>2, <4>1 DEF Sound, HonestAt
    <3> QED
      BY <2>0, <1>p, <3>1, <3>2
  <2>2. run'.pushed[s] = local[s].rev => Current(s) \/ ~schema
    BY <1>r DEF Recorded, Cover
  <2>3. ASSUME run.scope = "all", run.last < local[s].mark,
               local[s].mark <= run.cutoff
        PROVE  run'.todo[s] = local[s].rev
    <3>1. s \in ModifiedBetween(run.last, run.cutoff) \cap Scope(run.scope)
      BY <2>0, <2>3 DEF ModifiedBetween, Scope
    <3> QED
      BY <2>0, <1>r, <3>1 DEF Captured
  <2>4. run'.todo[s] \in {0, local[s].rev}
    BY <2>0, <1>r DEF Captured
  <2> QED
    BY <2>0, <1>n, <2>1, <2>2, <2>3, <2>4
<1> QED
  BY <1>1, <1>2, <1>3, <1>4, <1>5 DEF Recorded


\* The boundary completes what is listed; what is dropped is in the mirror.
LEMMA BoundaryRecorded ==
    ASSUME TypeOK, Recorded, AddBoundary
    PROVE  Recorded'
<1> DEFINE seen == [s \in Sessions |-> IF s \in Boundary THEN local[s].rev
                                                         ELSE run.todo[s]]
<1>u. /\ UNCHANGED <<backend, scopes, local, writing, now, wm, legacy, fps,
                     schema, schemaDone, mirror>>
      /\ NextLast' = NextLast /\ Live' = Live /\ (Lost' <=> Lost)
      /\ Live \subseteq Sessions /\ (Sound => Sound')
      /\ \A s \in Sessions : Current(s)' <=> Current(s)
  BY PushOnly DEF AddBoundary
<1>r. /\ run.pc = "window" /\ run'.pc = "send" /\ run'.cutoff = run.cutoff
      /\ run'.scope = run.scope /\ run'.full = run.full /\ run'.last = run.last
      /\ run'.prior = run.prior /\ run'.pushed = run.pushed
      /\ run'.err = run.err
      /\ run'.todo = [s \in Sessions |-> IF seen[s] = run.prior[s] THEN 0
                                                                   ELSE seen[s]]
  BY DEF AddBoundary, TypeOK
<1>n. /\ run.last \in Nat /\ run.cutoff \in Nat
      /\ \A s \in Sessions : /\ local[s].rev \in Nat /\ local[s].mark \in Nat
                             /\ run.todo[s] \in Nat
  BY Numbers
<1>1. Trust'
  BY <1>u, <1>r, TrustKept DEF Recorded, Looked
<1>2. Bounded'
  BY <1>u, <1>r DEF Recorded, Bounded
<1>3. Marked' /\ Stages'
  BY <1>u, <1>r DEF Recorded, Marked, Stages
<1>4. Times'
  BY <1>u, <1>r DEF Recorded, Times, After
<1>5. Cover'
  <2> SUFFICES ASSUME NEW s \in Live, "late" \notin Env, run.scope = "all",
                      local[s].mark < run.cutoff
               PROVE  run'.todo[s] = local[s].rev \/ Current(s) \/ ~schema
    BY <1>u, <1>r DEF Recorded, Cover
  <2>0. s \in Sessions /\ local[s].rev # 0 /\ local[s].mark # 0
    BY <1>u DEF Recorded, Stages
  <2>1. ASSUME seen[s] = local[s].rev
        PROVE  run'.todo[s] = local[s].rev \/ Current(s) \/ ~schema
    <3>1. run'.todo[s] = local[s].rev \/ run.prior[s] = local[s].rev
      BY <1>r, <2>0, <2>1
    <3> QED
      BY <3>1 DEF Recorded, Cover
  <2>2. CASE run.todo[s] = local[s].rev
    <3>1. seen[s] = local[s].rev
      BY <2>0, <2>2
    <3> QED
      BY <2>1, <3>1
  <2>3. CASE run.todo[s] = 0 /\ local[s].mark <= run.last /\ schema
    <3>1. run.last # 0 /\ ~run.full
      BY <1>n, <2>0, <2>3 DEF Recorded, Stages
    <3>2. Sound /\ run.last = NextLast
      BY <1>r, <2>3, <3>1 DEF Recorded, Trust, Looked, Times
    <3>3. CASE local[s].mark < run.last
      BY <3>2, <3>3 DEF Sound, PastAt
    <3>4. CASE local[s].mark = run.last
      <4>1. s \in Boundary
        BY <1>n, <2>0, <2>3, <3>1, <3>4
           DEF Boundary, ModifiedBetween, Scope
      <4>2. seen[s] = local[s].rev
        BY <2>0, <4>1
      <4> QED
        BY <2>1, <4>2
    <3> QED
      BY <1>n, <2>0, <2>3, <3>3, <3>4
  <2> QED
    BY <1>r, <2>2, <2>3 DEF Recorded, Cover
<1> QED
  BY <1>1, <1>2, <1>3, <1>4, <1>5 DEF Recorded


\* Copying a session that is alive never takes from the mirror what it has,
\* and copying it at its latest revision makes it current.
LEMMA CopyKeeps ==
    ASSUME TypeOK, Forward, NEW S \in SUBSET In(run.todo), NEW s \in Live,
           mirror'[s] = Copied(S)[s], UNCHANGED local
    PROVE  /\ Current(s) => Current(s)'
           /\ s \in S /\ run.todo[s] = local[s].rev => Current(s)'
<1>1. s \in Sessions /\ s \in Live
  BY DEF Live
<1>2. /\ local[s].rev \in Nat /\ run.todo[s] \in Nat /\ mirror[s].row \in Nat
  BY <1>1, Numbers
<1>3. mirror'[s] = IF s \notin S THEN mirror[s]
                   ELSE [row |-> run.todo[s], msgs |-> local[s].rev]
  BY <1>1 DEF Copied
<1>4. s \in S => /\ run.todo[s] # 0 /\ run.todo[s] <= local[s].rev
                 /\ mirror[s].row <= run.todo[s]
  BY <1>1 DEF In, Forward
<1> QED
  BY <1>2, <1>3, <1>4 DEF Current

\* Sessions that wait to be sent are sent to PostgreSQL.
LEMMA SentRecorded ==
    ASSUME TypeOK, Forward, Recorded, NEW S \in SUBSET In(run.todo),
           mirror' = Copied(S), run' = Sent(S), schema,
           run.pc \in {"send", "retry"}, backend = "postgres",
           UNCHANGED <<backend, scopes, archive, states, schema, schemaDone>>
    PROVE  Recorded'
<1>u. /\ UNCHANGED <<local, writing, now, wm, legacy, fps>>
      /\ NextLast' = NextLast /\ Live' = Live /\ Live \subseteq Sessions
  BY DEF archive, states, NextLast, ReadLast, Live
<1>r. /\ run'.pc \in {"send", "retry"} /\ run'.cutoff = run.cutoff
      /\ run'.scope = run.scope /\ run'.full = run.full /\ run'.last = run.last
      /\ run'.prior = run.prior /\ run'.err = run.err
      /\ \A s \in Sessions :
            /\ run'.pushed[s] = IF s \in S THEN run.todo[s] ELSE run.pushed[s]
            /\ run'.todo[s] = IF s \in S THEN 0 ELSE run.todo[s]
  BY DEF Sent, TypeOK
<1>n. \A s \in Sessions : /\ local[s].rev \in Nat /\ local[s].mark \in Nat
                          /\ \A sc \in Scopes : fps[sc][s] \in Nat
  BY Numbers
<1>c. \A s \in Live : /\ Current(s) => Current(s)'
                      /\ s \in S /\ run.todo[s] = local[s].rev => Current(s)'
  BY <1>u, CopyKeeps
<1>1. Trust'
  <2>1. CASE Sound
    <3>1. Sound'
      BY <1>u, <1>n, <1>c, <2>1, SoundKept DEF Recorded, Stages
    <3> QED
      BY <3>1 DEF Trust
  <2>2. CASE "some" \notin scopes /\ run.full
    BY <1>r, <2>2 DEF Trust
  <2> QED
    BY <2>1, <2>2 DEF Recorded, Trust, Looked
<1>2. Bounded'
  BY <1>u, <1>r DEF Recorded, Bounded, Forward
<1>3. Marked'
  BY <1>u DEF Recorded, Marked
<1>4. Stages'
  BY <1>u, <1>r DEF Recorded, Stages
<1>5. Times'
  BY <1>u, <1>r DEF Recorded, Times, After
<1>6. Cover'
  <2> SUFFICES ASSUME NEW s \in Live
               PROVE  /\ run'.prior[s] = local[s].rev => Current(s)'
                      /\ run'.pushed[s] = local[s].rev => Current(s)'
                      /\ "late" \notin Env /\ run.scope = "all"
                              /\ local[s].mark < run.cutoff /\ ~run.err =>
                            run'.todo[s] = local[s].rev \/ Current(s)'
    BY <1>u, <1>r DEF Cover
  <2>0. s \in Sessions
    BY <1>u
  <2>1. run'.prior[s] = local[s].rev => Current(s)'
    BY <1>r, <1>c DEF Recorded, Cover
  <2>2. run'.pushed[s] = local[s].rev => Current(s)'
    BY <2>0, <1>r, <1>c DEF Recorded, Cover
  <2>3. ASSUME "late" \notin Env, run.scope = "all",
               local[s].mark < run.cutoff, ~run.err
        PROVE  run'.todo[s] = local[s].rev \/ Current(s)'
    <3>1. run.todo[s] = local[s].rev \/ Current(s)
      BY <2>3 DEF Recorded, Cover, Sending
    <3> QED
      BY <2>0, <1>r, <1>c, <3>1
  <2> QED
    BY <2>1, <2>2, <2>3
<1> QED
  BY <1>1, <1>2, <1>3, <1>4, <1>5, <1>6 DEF Recorded

\* Everything listed is sent to DuckDB.
LEMMA DuckRecorded ==
    ASSUME TypeOK, Forward, Recorded, SendDuckDB
    PROVE  Recorded'
<1> DEFINE stale == { s \in Scope(run.scope) \ Live : mirror[s].row # 0 }
           sent == In(run.todo)
<1>u. /\ UNCHANGED <<backend, scopes, local, writing, now, wm, legacy, fps,
                     schema, schemaDone>>
      /\ NextLast' = NextLast /\ Live' = Live /\ Live \subseteq Sessions
      /\ schema
  BY DEF SendDuckDB, archive, states, NextLast, ReadLast, Live
<1>r. /\ run.pc = "send" /\ run'.cutoff = run.cutoff
      /\ run'.scope = run.scope /\ run'.full = run.full /\ run'.last = run.last
      /\ run'.err = run.err /\ run'.pushed = run.todo /\ run'.todo = None
      /\ run'.pc \in {"mark", "duckclear", "fps"}
      /\ (run'.pc = "mark" => run.scope = "all")
      /\ (run'.pc # "mark" => run.scope = "some")
  BY DEF SendDuckDB, TypeOK, Scopes
<1>p. \A s \in Sessions : run'.prior[s] \in {0, run.prior[s]}
  BY DEF SendDuckDB, TypeOK
<1>n. \A s \in Sessions : /\ local[s].rev \in Nat /\ local[s].mark \in Nat
                          /\ run.prior[s] \in Nat
                          /\ \A sc \in Scopes : fps[sc][s] \in Nat
  BY Numbers
<1>c. \A s \in Live : /\ Current(s) => Current(s)'
                      /\ run.todo[s] = local[s].rev => Current(s)'
  <2> TAKE s \in Live
  <2>1. s \in Sessions /\ s \notin stale
    BY DEF Live
  <2>2. mirror'[s] = Copied(sent)[s]
    BY <2>1 DEF SendDuckDB
  <2>3. sent \in SUBSET In(run.todo)
    OBVIOUS
  <2>4. run.todo[s] = local[s].rev => s \in sent
    BY <2>1 DEF In, Recorded, Stages
  <2> QED
    BY <1>u, <2>2, <2>3, <2>4, CopyKeeps
<1>1. Trust'
  <2>1. CASE Sound
    <3>1. Sound'
      BY <1>u, <1>n, <1>c, <2>1, SoundKept DEF Recorded, Stages
    <3> QED
      BY <3>1 DEF Trust
  <2>2. CASE "some" \notin scopes /\ run.full
    BY <1>u, <1>r, <2>2 DEF Trust
  <2> QED
    BY <1>u, <1>r, <2>1, <2>2 DEF Recorded, Trust, Looked
<1>2. Bounded'
  BY <1>u, <1>r, <1>p, <1>n DEF Recorded, Bounded, Forward
<1>3. Marked'
  BY <1>u DEF Recorded, Marked
<1>4. Stages'
  <2>1. ~run.err
    BY DEF SendDuckDB, Recorded, Stages
  <2> QED
    BY <1>u, <1>r, <2>1 DEF Recorded, Stages
<1>5. Times'
  BY <1>u, <1>r DEF Recorded, Times, After
<1>6. Cover'
  <2> SUFFICES ASSUME NEW s \in Live
               PROVE  /\ run'.prior[s] = local[s].rev => Current(s)'
                      /\ run'.pushed[s] = local[s].rev => Current(s)'
                      /\ "late" \notin Env /\ run.scope = "all"
                              /\ local[s].mark < run.cutoff /\ ~run.err =>
                            Current(s)'
    BY <1>u, <1>r DEF Cover
  <2>0. s \in Sessions
    BY <1>u
  <2>1. run'.prior[s] = local[s].rev => Current(s)'
    BY <2>0, <1>u, <1>p, <1>c DEF Recorded, Cover, Stages
  <2>2. run'.pushed[s] = local[s].rev => Current(s)'
    BY <1>r, <1>c
  <2>3. ASSUME "late" \notin Env, run.scope = "all",
               local[s].mark < run.cutoff, ~run.err
        PROVE  Current(s)'
    <3>1. run.todo[s] = local[s].rev \/ Current(s)
      BY <1>u, <1>r, <2>3 DEF Recorded, Cover, Sending
    <3> QED
      BY <1>c, <3>1
  <2> QED
    BY <2>1, <2>2, <2>3
<1> QED
  BY <1>1, <1>2, <1>3, <1>4, <1>5, <1>6 DEF Recorded


\* A batch fails, and its sessions are to be sent one by one.
LEMMA BatchFailRecorded ==
    ASSUME TypeOK, Recorded, NEW S \in SUBSET Sessions, BatchFails(S)
    PROVE  Recorded'
<1>u. /\ UNCHANGED <<backend, scopes, local, writing, now, wm, legacy, fps,
                     schema, schemaDone, mirror>>
      /\ NextLast' = NextLast /\ Live' = Live /\ (Lost' <=> Lost)
      /\ Live \subseteq Sessions /\ (Sound => Sound')
      /\ \A s \in Sessions : Current(s)' <=> Current(s)
  BY PushOnly DEF BatchFails
<1>r. /\ run.pc = "send" /\ run'.pc = "retry" /\ backend = "postgres"
      /\ run'.cutoff = run.cutoff /\ run'.scope = run.scope
      /\ run'.full = run.full /\ run'.last = run.last
      /\ run'.prior = run.prior /\ run'.pushed = run.pushed
      /\ run'.todo = run.todo /\ run'.err = run.err
  BY DEF BatchFails, TypeOK
<1>1. Trust'
  BY <1>u, <1>r, TrustKept DEF Recorded, Looked
<1>2. Bounded' /\ Marked' /\ Stages'
  BY <1>u, <1>r DEF Recorded, Bounded, Marked, Stages
<1>3. Times'
  BY <1>u, <1>r DEF Recorded, Times, After
<1>4. Cover'
  BY <1>u, <1>r DEF Recorded, Cover, Sending
<1> QED
  BY <1>1, <1>2, <1>3, <1>4 DEF Recorded

\* A session fails on its own: nothing will be recorded.
LEMMA OneFailRecorded ==
    ASSUME TypeOK, Recorded, "interrupted" \notin Env,
           NEW s \in Sessions, OneFails(s)
    PROVE  Recorded'
<1>u. /\ UNCHANGED <<backend, scopes, local, writing, now, wm, legacy, fps,
                     schema, schemaDone, mirror>>
      /\ NextLast' = NextLast /\ Live' = Live /\ (Lost' <=> Lost)
      /\ Live \subseteq Sessions /\ (Sound => Sound')
      /\ \A r \in Sessions : Current(r)' <=> Current(r)
  BY PushOnly DEF OneFails
<1>r. /\ run.pc = "retry" /\ run'.pc \in {"send", "retry"}
      /\ run'.cutoff = run.cutoff /\ run'.scope = run.scope
      /\ run'.full = run.full /\ run'.last = run.last
      /\ run'.prior = run.prior /\ run'.pushed = run.pushed
      /\ run'.err = TRUE
  BY DEF OneFails, TypeOK
<1>1. Trust'
  BY <1>u, <1>r, TrustKept DEF Recorded, Looked
<1>2. Bounded' /\ Marked'
  BY <1>u, <1>r DEF Recorded, Bounded, Marked
<1>3. Stages'
  <2>1. run.full => ~schema
    BY DEF OneFails, Fault
  <2> QED
    BY <1>u, <1>r, <2>1 DEF Recorded, Stages
<1>4. Times'
  BY <1>u, <1>r DEF Recorded, Times, After
<1>5. Cover'
  BY <1>u, <1>r DEF Recorded, Cover, Sending
<1> QED
  BY <1>1, <1>2, <1>3, <1>4, <1>5 DEF Recorded

\* Everything has been tried, and nothing failed.
LEMMA AllSentRecorded ==
    ASSUME TypeOK, Recorded, AllSent, ~run.err
    PROVE  Recorded'
<1>u. /\ UNCHANGED <<backend, scopes, local, writing, now, wm, legacy, fps,
                     schema, schemaDone, mirror>>
      /\ NextLast' = NextLast /\ Live' = Live /\ (Lost' <=> Lost)
      /\ Live \subseteq Sessions /\ (Sound => Sound')
      /\ \A r \in Sessions : Current(r)' <=> Current(r)
  BY PushOnly DEF AllSent
<1>r. /\ run.pc = "send" /\ run'.pc \in {"mark", "fps"}
      /\ (run'.pc = "mark" => run.scope = "all")
      /\ (run'.pc = "fps" => run.scope = "some")
      /\ run'.cutoff = run.cutoff /\ run'.scope = run.scope
      /\ run'.full = run.full /\ run'.last = run.last
      /\ run'.prior = run.prior /\ run'.pushed = run.pushed
      /\ run'.todo = run.todo /\ run'.err = run.err
  BY DEF AllSent, TypeOK, Scopes
<1>t. run.todo = None
  BY DEF AllSent, TypeOK, In, None
<1>1. Trust'
  BY <1>u, <1>r, TrustKept DEF Recorded, Looked
<1>2. Bounded' /\ Marked'
  BY <1>u, <1>r DEF Recorded, Bounded, Marked
<1>3. Stages'
  BY <1>u, <1>r, <1>t DEF Recorded, Stages
<1>4. Times'
  BY <1>u, <1>r DEF Recorded, Times, After
<1>5. Cover'
  BY <1>u, <1>r DEF Recorded, Cover, Sending
<1> QED
  BY <1>1, <1>2, <1>3, <1>4, <1>5 DEF Recorded

\* What the sessions that a push of the whole archive covers are worth, once
\* everything has been sent.
LEMMA CoverSound ==
    ASSUME TypeOK, Recorded, run.scope = "all",
           run.pc \in {"mark", "legacy", "fps"}, "late" \notin Env,
           NEW s \in Live, local[s].mark < run.cutoff
    PROVE  Current(s) \/ ~schema
<1>1. run.todo[s] = 0 /\ local[s].rev # 0 /\ ~run.err
  BY DEF Recorded, Stages, None, Live
<1> QED
  BY <1>1 DEF Recorded, Cover, Sending

\* The watermark is recorded, then the key that all scopes share.
LEMMA MarksRecorded ==
    ASSUME TypeOK, Recorded, RecordWatermark \/ RecordLegacy
    PROVE  Recorded'
<1>u. /\ UNCHANGED <<backend, scopes, local, writing, now, fps,
                     schema, schemaDone, mirror>>
      /\ Live' = Live /\ (Lost' <=> Lost) /\ Live \subseteq Sessions
      /\ \A s \in Sessions : Current(s)' <=> Current(s)
  BY DEF RecordWatermark, RecordLegacy, archive, target, Live, Lost, Current
<1>r. /\ run'.cutoff = run.cutoff /\ run'.scope = run.scope
      /\ run'.full = run.full /\ run'.last = run.last
      /\ run'.prior = run.prior /\ run'.pushed = run.pushed
      /\ run'.todo = run.todo /\ run'.err = run.err
      /\ \/ run.pc = "mark" /\ run'.pc = "legacy"
         \/ run.pc = "legacy" /\ run'.pc = "fps" /\ RecordLegacy
  BY DEF RecordWatermark, RecordLegacy, TypeOK
<1>s. run.scope = "all" /\ run.cutoff # 0
  BY <1>r DEF Recorded, Stages, Times, After
<1>n. /\ run.cutoff \in Nat
      /\ \A s \in Sessions : local[s].rev \in Nat /\ local[s].mark \in Nat
  BY Numbers
<1>w. /\ wm'["all"] = run.cutoff
      /\ (RecordLegacy => legacy' = run.cutoff)
      /\ legacy' \in {legacy, run.cutoff}
      /\ NextLast' \in {0, run.cutoff} /\ (NextLast' = 0 => NextLast = 0)
  <2>1. "all" \in Scopes /\ wm \in [Scopes -> 0 .. now]
    BY DEF Scopes, TypeOK
  <2>2. RecordLegacy => wm'["all"] = run.cutoff /\ legacy' = run.cutoff
    BY <1>s DEF RecordLegacy, Recorded, Times
  <2>3. RecordWatermark => wm'["all"] = run.cutoff /\ legacy' = legacy
    BY <1>s, <2>1 DEF RecordWatermark
  <2> QED
    BY <1>u, <1>s, <2>2, <2>3 DEF NextLast, ReadLast
<1>c. \A s \in Live : "late" \notin Env /\ local[s].mark < run.cutoff
                         => Current(s) \/ ~schema
  BY <1>r, <1>s, CoverSound
<1>1. ASSUME Sound, schema PROVE Sound'
  <2> SUFFICES ASSUME NEW s \in Live PROVE HonestAt(s)' /\ PastAt(s)'
    BY <1>u DEF Sound
  <2>1. HonestAt(s)'
    BY <1>1, <1>u DEF Sound, HonestAt
  <2>2. PastAt(s)'
    BY <1>1, <1>u, <1>n, <1>w, <1>c DEF PastAt
  <2> QED
    BY <2>1, <2>2
<1>2. Trust'
  <2>1. run.pc \in Looked /\ run.pc # "idle" /\ run'.pc \in Looked
    BY <1>r DEF Looked
  <2>2. ~schema => "some" \notin scopes /\ Lost
    BY <2>1 DEF Recorded, Stages, Lost, Empty
  <2>3. CASE schema
    BY <1>1, <1>u, <1>r, <2>1, <2>3 DEF Recorded, Trust
  <2>4. CASE ~schema
    BY <1>u, <2>2, <2>4 DEF Trust
  <2> QED
    BY <2>3, <2>4
<1>3. Bounded'
  BY <1>u, <1>r DEF Recorded, Bounded
<1>4. Marked'
  BY <1>u, <1>w DEF Recorded, Marked
<1>5. Stages'
  BY <1>u, <1>r, <1>s DEF Recorded, Stages
<1>6. Times'
  BY <1>u, <1>r, <1>w, <1>s DEF Recorded, Times, After
<1>7. Cover'
  BY <1>u, <1>r DEF Recorded, Cover, Sending
<1> QED
  BY <1>2, <1>3, <1>4, <1>5, <1>6, <1>7 DEF Recorded

\* The fingerprints are recorded: what was sent, and perhaps what was recorded
\* before.
LEMMA FingerprintsRecorded ==
    ASSUME TypeOK, Forward, Recorded, RecordFingerprints
    PROVE  Recorded'
<1>u. /\ UNCHANGED <<backend, scopes, local, writing, now, wm, legacy,
                     schema, schemaDone, mirror>>
      /\ NextLast' = NextLast /\ Live' = Live /\ (Lost' <=> Lost)
      /\ Live \subseteq Sessions
      /\ \A s \in Sessions : Current(s)' <=> Current(s)
      /\ run.pc = "fps" /\ run.scope \in Scopes
  BY DEF RecordFingerprints, archive, target, Live, Lost, Current, NextLast,
         ReadLast, TypeOK
<1>i. /\ run'.pc = "idle" /\ run'.scope = "all" /\ ~run'.full
      /\ ~run'.err /\ run' = Idle
      /\ \A s \in Sessions : run'.prior[s] = 0 /\ run'.pushed[s] = 0
  BY DEF RecordFingerprints, Idle, None
<1>n. \A s \in Sessions : /\ local[s].rev \in Nat /\ local[s].mark \in Nat
                          /\ run.prior[s] \in Nat /\ run.pushed[s] \in Nat
  BY Numbers
<1>f. /\ \A sc \in Scopes : sc # run.scope => fps'[sc] = fps[sc]
      /\ \A s \in Sessions :
            fps'[run.scope][s] \in {0, run.pushed[s], run.prior[s]}
  BY <1>u DEF RecordFingerprints, TypeOK
<1>1. ASSUME schema PROVE Sound'
  <2>0. Sound \/ (run.scope = "all" /\ run.full /\ "some" \notin scopes)
    BY <1>u, <1>1 DEF Recorded, Trust, Looked, Stages
  <2> SUFFICES ASSUME NEW s \in Live PROVE HonestAt(s)' /\ PastAt(s)'
    BY <1>u DEF Sound
  <2>1. ASSUME NEW sc \in Scopes, fps'[sc][s] = local[s].rev
        PROVE  Current(s)
    <3>1. CASE sc = run.scope
      BY <1>u, <1>f, <1>1, <2>1, <3>1 DEF Recorded, Cover, Stages
    <3>2. CASE sc # run.scope
      <4>1. fps[sc][s] = local[s].rev
        BY <1>f, <2>1, <3>2
      <4>2. "some" \notin scopes => sc = "some" /\ fps[sc][s] = 0
        BY <1>u, <3>2 DEF Recorded, Stages, Marked, Scopes, None
      <4> QED
        BY <2>0, <4>1, <4>2 DEF Sound, HonestAt, Recorded, Stages
    <3> QED
      BY <3>1, <3>2
  <2>2. ASSUME "late" \notin Env, local[s].mark < NextLast
        PROVE  Current(s)
    <3>1. CASE run.scope = "all"
      <4>1. wm["all"] = run.cutoff /\ legacy = run.cutoff /\ run.cutoff # 0
        BY <1>u, <3>1 DEF Recorded, Times, After
      <4>2. NextLast = run.cutoff
        BY <4>1 DEF NextLast, ReadLast
      <4> QED
        BY <1>u, <1>1, <2>2, <3>1, <4>2, CoverSound
    <3>2. CASE Sound
      BY <2>2, <3>2 DEF Sound, PastAt
    <3> QED
      BY <2>0, <3>1, <3>2
  <2>3. HonestAt(s)'
    BY <1>u, <2>1 DEF HonestAt
  <2>4. PastAt(s)'
    BY <1>u, <2>2 DEF PastAt
  <2> QED
    BY <2>3, <2>4
<1>2. Trust'
  <2>1. ~schema => "some" \notin scopes /\ Lost
    BY <1>u DEF Recorded, Stages, Lost, Empty
  <2>2. CASE schema
    BY <1>1, <2>2 DEF Trust
  <2>3. CASE ~schema
    BY <1>u, <2>1, <2>3 DEF Trust
  <2> QED
    BY <2>2, <2>3
<1>3. Bounded'
  <2>1. \A s \in Sessions, sc \in Scopes : fps'[sc][s] <= local[s].rev
    BY <1>n, <1>f DEF Recorded, Bounded
  <2> QED
    BY <1>u, <1>i, <1>n, <2>1 DEF Bounded
<1>4. Marked'
  <2> SUFFICES ASSUME "some" \notin scopes
               PROVE  fps'["some"] = None /\ (NextLast = 0 => fps'["all"] = None)
    BY <1>u DEF Marked
  <2>1. run.scope = "all" /\ fps["some"] = None
    BY DEF Recorded, Stages, Marked
  <2>2. wm["all"] = run.cutoff /\ legacy = run.cutoff /\ run.cutoff # 0
    BY <1>u, <2>1 DEF Recorded, Times, After
  <2>3. NextLast # 0
    BY <2>2 DEF NextLast, ReadLast
  <2> QED
    BY <1>f, <2>1, <2>3 DEF Scopes
<1>5. Stages'
  BY <1>u, <1>i DEF Recorded, Stages
<1>6. Times'
  BY <1>u, <1>i DEF Recorded, Times, After
<1>7. Cover'
  BY <1>u, <1>i DEF Recorded, Stages, Cover, Sending
<1> QED
  BY <1>2, <1>3, <1>4, <1>5, <1>6, <1>7 DEF Recorded

LEMMA RecordedStep ==
    ASSUME "filteredreset" \notin Env, "interrupted" \notin Env,
           TypeOK, Forward, Recorded, [Next]_vars
    PROVE  Recorded'
<1>1. ASSUME NEW S \in SUBSET Sessions, SendBatch(S) PROVE Recorded'
  <2>1. S \in SUBSET In(run.todo)
    BY <1>1 DEF SendBatch, Batch
  <2> QED
    BY <1>1, <2>1, SentRecorded DEF SendBatch
<1>2. ASSUME NEW s \in Sessions, SendOne(s) PROVE Recorded'
  <2>1. {s} \in SUBSET In(run.todo)
    BY <1>2 DEF SendOne, Forward, In
  <2>2. backend = "postgres"
    BY <1>2 DEF SendOne, Recorded, Stages
  <2> QED
    BY <1>2, <2>1, <2>2, SentRecorded DEF SendOne
<1>3. CASE AllSent
  BY <1>3, AllSentRecorded, FailedRecorded
<1>4. CASE UNCHANGED vars
  <2>1. UNCHANGED <<backend, scopes, local, writing, now, wm, legacy, fps,
                    schema, schemaDone, mirror, run>>
    BY <1>4 DEF vars, archive, states, target
  <2>2. UNCHANGED <<Live, NextLast, Lost>>
    BY <2>1 DEF Live, NextLast, ReadLast, Lost
  <2>3. Trust'
    BY <2>1, <2>2
       DEF Recorded, Trust, Sound, HonestAt, PastAt, Current
  <2>4. Cover'
    BY <2>1, <2>2 DEF Recorded, Cover, Current
  <2>5. Bounded' /\ Stages' /\ Marked' /\ Times'
    BY <2>1, <2>2 DEF Recorded, Bounded, Stages, Marked, Times
  <2> QED
    BY <2>3, <2>4, <2>5 DEF Recorded
<1> QED
  BY <1>1, <1>2, <1>3, <1>4, ArchiveRecorded, RebuildRecorded, ResetRecorded,
     FailedRecorded, BeginRecorded, ClearRecorded, CheckRecorded,
     CutoffRecorded, ListRecorded, BoundaryRecorded, DuckRecorded,
     BatchFailRecorded, OneFailRecorded, MarksRecorded, FingerprintsRecorded
     DEF Next, PushStep, World

LEMMA RecordedAlways ==
    ASSUME "filteredreset" \notin Env, "interrupted" \notin Env
    PROVE  Spec => [](TypeOK /\ Recorded)
<1>1. Init => Recorded
  BY RecordedInit
<1>2. TypeOK /\ Forward /\ Recorded /\ [Next]_vars => Recorded'
  BY RecordedStep
<1> QED
  BY <1>1, <1>2, Inductive, PTL DEF Spec

\* FingerprintsHonest in every state, where a mirror that filtered pushes feed
\* is not lost and a push that sends everything anew does not fail half way: no
\* crash, failed batch, failed session or rebuild makes a push pass over a
\* session for a fingerprint that the mirror does not bear out.
THEOREM FingerprintsTell ==
    ASSUME "filteredreset" \notin Env, "interrupted" \notin Env
    PROVE  Spec => []FingerprintsHonest
<1>1. ASSUME TypeOK, Recorded PROVE FingerprintsHonest
  <2> SUFFICES ASSUME run.pc = "idle", NEW sc \in Scopes, NEW s \in Live,
                      fps[sc][s] = local[s].rev
               PROVE  Current(s) \/ Count = 0
    BY DEF FingerprintsHonest
  <2>1. Sound \/ Lost
    BY <1>1 DEF Recorded, Stages, Trust
  <2> QED
    BY <1>1, <2>1, LostCount DEF Sound, HonestAt
<1> QED
  BY <1>1, RecordedAlways, PTL

\* NothingSlipsPast in every state, where besides no change is committed with a
\* stamp older than a cutoff: a session that the mirror does not have as it is
\* will be sent by the next push, whatever failed or crashed before.
THEOREM NothingSlips ==
    ASSUME "filteredreset" \notin Env, "interrupted" \notin Env,
           "late" \notin Env
    PROVE  Spec => []NothingSlipsPast
<1>1. ASSUME TypeOK, Recorded PROVE NothingSlipsPast
  <2> SUFFICES ASSUME run.pc = "idle", NEW s \in Live
               PROVE  Current(s) \/ WillBeSent(s)
    BY DEF NothingSlipsPast
  <2>n. NextLast \in Nat /\ local[s].mark \in Nat /\ s \in Sessions
        /\ local[s].rev # 0 /\ "all" \in Scopes
    BY <1>1, Numbers DEF Live, Recorded, Stages, Scopes
  <2>1. CASE Sound
    BY <2>1, <2>n DEF Sound, HonestAt, PastAt, WillBeSent
  <2>2. CASE "some" \notin scopes /\ Lost
    <3>1. Count = 0
      BY <1>1, <2>2, LostCount
    <3>2. NextLast = 0 => fps["all"][s] # local[s].rev
      BY <1>1, <2>n, <2>2 DEF Recorded, Marked, None
    <3> QED
      BY <3>1, <3>2 DEF WillBeSent
  <2> QED
    BY <1>1, <2>1, <2>2 DEF Recorded, Stages, Trust
<1> QED
  BY <1>1, RecordedAlways, PTL
=============================================================================

--------------------------- MODULE PidLockProofs ----------------------------
(***************************************************************************)
(* Theorems about PidLock, for any set of processes and any number of lock *)
(* files.                                                                  *)
(***************************************************************************)
EXTENDS PidLock, TLAPS

USE PidLockAssumption

-----------------------------------------------------------------------------
(* Type correctness. *)

LEMMA TypeInit == Init => TypeOK
BY DEF Init, TypeOK, None, Points

LEMMA CreateType ==
    ASSUME TypeOK, NEW p \in Procs, Create(p), dead' = dead
    PROVE  TypeOK'
<1> DEFINE ino == CHOOSE i \in Free : TRUE
<1>1. ino \in Inodes /\ ino # 0
  BY DEF Create, Free
<1>2. lock' = [ino |-> ino, pid |-> {}] /\ fd' = [fd EXCEPT ![p] = ino]
  BY DEF Create
<1> HIDE DEF ino
<1>3. pc' = [pc EXCEPT ![p] = "writepid"]
  BY DEF Create, Goto
<1>4. lock' \in [ino : Inodes \cup {0}, pid : {{}} \cup {{q} : q \in Procs}]
      /\ lock'.ino # 0
  BY <1>1, <1>2
<1>5. fd' \in [Procs -> Inodes \cup {0}]
      /\ \A q \in Procs : pc'[q] = "writepid" <=> fd'[q] # 0
  BY <1>1, <1>2, <1>3 DEF TypeOK
<1> QED
  BY <1>3, <1>4, <1>5 DEF TypeOK, Points

LEMMA TypeStep == TypeOK /\ [Next]_vars => TypeOK'
<1> SUFFICES ASSUME TypeOK, [Next]_vars PROVE TypeOK'
  OBVIOUS
<1>n. None \in [ino : Inodes \cup {0}, pid : {{}} \cup {{q} : q \in Procs}]
  BY DEF TypeOK, None
<1>1. ASSUME NEW p \in Procs, Attempt(p) PROVE TypeOK'
  BY <1>1, CreateType DEF Attempt, Goto, TypeOK, Points
<1>2. ASSUME NEW p \in Procs, WritePid(p) PROVE TypeOK'
  <2>1. CASE lock' = lock
    BY <1>2, <2>1 DEF WritePid, Goto, TypeOK, Points
  <2>2. CASE lock.ino = fd[p] /\ lock' = [lock EXCEPT !.pid = {p}]
    <3>1. lock' \in [ino : Inodes \cup {0}, pid : {{}} \cup {{q} : q \in Procs}]
      BY <2>2 DEF TypeOK
    <3>2. lock'.ino # 0
      BY <1>2, <2>2 DEF WritePid, TypeOK
    <3> QED
      BY <1>2, <3>1, <3>2 DEF WritePid, Goto, TypeOK, Points
  <2> QED
    BY <1>2, <2>1, <2>2 DEF WritePid
<1>3. ASSUME NEW p \in Procs, CheckStale(p) PROVE TypeOK'
  BY <1>3 DEF CheckStale, Goto, TypeOK, Points
<1>4. ASSUME NEW p \in Procs, RemoveStale(p) PROVE TypeOK'
  BY <1>n, <1>4 DEF RemoveStale, Goto, TypeOK, Points
<1>5. ASSUME NEW p \in Procs, Retry(p) PROVE TypeOK'
  BY <1>5, CreateType DEF Retry, Goto, TypeOK, Points
<1>6. ASSUME NEW p \in Procs, Release(p) PROVE TypeOK'
  BY <1>n, <1>6 DEF Release, Goto, TypeOK, Points
<1>7. ASSUME NEW p \in Procs, Crash(p) PROVE TypeOK'
  BY <1>7 DEF Crash, TypeOK
<1>8. CASE UNCHANGED vars
  BY <1>8 DEF vars, TypeOK
<1> QED
  BY <1>1, <1>2, <1>3, <1>4, <1>5, <1>6, <1>7, <1>8 DEF Next, Step

\* The pid file holds at most one pid, one of the processes', and an absent
\* file holds none, wherever processes are killed.
THEOREM TypeCorrect == Spec => []TypeOK
<1> QED
  BY TypeInit, TypeStep, PTL DEF Spec

-----------------------------------------------------------------------------
(* Exclusion. *)

\* ExclusiveUntilCrash is not inductive.  What it rests on: while nobody has
\* been killed no lock is stale, so nobody removes a lock it does not own, and
\* the file is there as long as it has an owner.
ExclusionInv ==
    /\ TypeOK
    /\ dead = {} =>
          /\ \A p \in Procs : pc[p] \notin {"remove", "retry"}
          /\ \A p \in Procs : Owner(p) => lock # None
          /\ MutualExclusion

LEMMA ExclusionInit == Init => ExclusionInv
BY TypeInit DEF Init, ExclusionInv, MutualExclusion, Owner

LEMMA ExclusionStep == ExclusionInv /\ [Next]_vars => ExclusionInv'
<1> SUFFICES ASSUME ExclusionInv, [Next]_vars PROVE ExclusionInv'
  OBVIOUS
<1>0. TypeOK /\ TypeOK'
  BY TypeStep DEF ExclusionInv
<1> SUFFICES ASSUME dead' = {}
             PROVE  /\ \A q \in Procs : pc'[q] \notin {"remove", "retry"}
                    /\ \A q \in Procs : Owner(q)' => lock' # None
                    /\ MutualExclusion'
  BY <1>0 DEF ExclusionInv
<1>1. dead = {}
  BY DEF Next, Step, Attempt, WritePid, CheckStale, RemoveStale, Retry,
         Release, Crash, vars
<1>2. /\ \A q \in Procs : pc[q] \notin {"remove", "retry"}
      /\ \A q \in Procs : Owner(q) => lock # None
      /\ MutualExclusion
  BY <1>1 DEF ExclusionInv
<1>3. pc \in [Procs -> Points]
  BY <1>0 DEF TypeOK
<1> USE <1>1, <1>2, <1>3 DEF Owner, MutualExclusion
<1>4. ASSUME NEW p \in Procs, Create(p)
      PROVE  /\ \A q \in Procs : pc'[q] \notin {"remove", "retry"}
             /\ \A q \in Procs : Owner(q)' => lock' # None
             /\ MutualExclusion'
  <2>1. lock' # None
    <3>1. \A i \in Free : i # 0
      BY DEF Free
    <3>2. lock'.ino # 0
      BY <1>4, <3>1 DEF Create
    <3> QED
      BY <3>2 DEF None
  <2>2. \A q \in Procs : ~Owner(q)
    BY <1>4 DEF Create
  <2> QED
    BY <1>4, <2>1, <2>2 DEF Create, Goto
<1>5. ASSUME NEW p \in Procs, Attempt(p)
      PROVE  /\ \A q \in Procs : pc'[q] \notin {"remove", "retry"}
             /\ \A q \in Procs : Owner(q)' => lock' # None
             /\ MutualExclusion'
  BY <1>4, <1>5 DEF Attempt, Goto
<1>6. ASSUME NEW p \in Procs, WritePid(p)
      PROVE  /\ \A q \in Procs : pc'[q] \notin {"remove", "retry"}
             /\ \A q \in Procs : Owner(q)' => lock' # None
             /\ MutualExclusion'
  <2>1. lock # None
    BY <1>6 DEF WritePid
  <2>2. lock' # None
    BY <1>0, <1>6, <2>1 DEF WritePid, None, TypeOK
  <2> QED
    BY <1>6, <2>2 DEF WritePid, Goto
<1>7. ASSUME NEW p \in Procs, CheckStale(p)
      PROVE  /\ \A q \in Procs : pc'[q] \notin {"remove", "retry"}
             /\ \A q \in Procs : Owner(q)' => lock' # None
             /\ MutualExclusion'
  <2>1. ~Stale
    BY DEF Stale
  <2> QED
    BY <1>7, <2>1 DEF CheckStale, Goto
<1>8. ASSUME NEW p \in Procs, Release(p)
      PROVE  /\ \A q \in Procs : pc'[q] \notin {"remove", "retry"}
             /\ \A q \in Procs : Owner(q)' => lock' # None
             /\ MutualExclusion'
  BY <1>8 DEF Release, Goto
<1>9. CASE UNCHANGED vars
  BY <1>9 DEF vars
<1> QED
  BY <1>5, <1>6, <1>7, <1>8, <1>9
     DEF Next, Step, RemoveStale, Retry, Crash

\* As long as no process is killed, at most one has the lock, whatever the
\* interleaving of any number of processes in AcquireLock and Release.
THEOREM ExclusionHolds == Spec => []ExclusiveUntilCrash
<1>1. ExclusionInv => ExclusiveUntilCrash
  BY DEF ExclusionInv, ExclusiveUntilCrash
<1> QED
  BY ExclusionInit, ExclusionStep, <1>1, PTL DEF Spec
=============================================================================

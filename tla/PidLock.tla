------------------------------ MODULE PidLock -------------------------------
(***************************************************************************)
(* The single-flight lock of the background workers: a pid file created    *)
(* with O_EXCL (internal/consolidate/lock.go; internal/backup/lock.go is   *)
(* the same code with other names).  Each process is an agentsview         *)
(* instance or a command line invocation that runs a cycle now and then    *)
(* and may be killed at any point.  Worker says when, and what a cycle is. *)
(***************************************************************************)
EXTENDS Naturals, FiniteSets

CONSTANTS
    Procs,      \* the processes that compete for the lock
    Inodes,     \* inode numbers; a free one is reused
    CrashAt     \* the program points at which a process may be killed

Points == {"idle", "writepid", "check", "remove", "retry", "held"}

ASSUME PidLockAssumption ==
    Inodes \subseteq Nat \ {0} /\ CrashAt \subseteq Points

None == [ino |-> 0, pid |-> {}]

VARIABLES
    lock,     \* the file at the lock path: its inode and the pid in it
    pc,       \* where each process is in AcquireLock
    fd,       \* the inode of the file a process has open, 0 for none
    dead      \* processes that were killed

vars == <<lock, pc, fd, dead>>

\* A pid file holds nothing or one pid, an absent file holds nothing, and a
\* process that writes its pid has created a file to write it to.
TypeOK ==
    /\ lock \in [ino : Inodes \cup {0}, pid : {{}} \cup {{p} : p \in Procs}]
    /\ lock.ino = 0 => lock = None
    /\ pc \in [Procs -> Points]
    /\ fd \in [Procs -> Inodes \cup {0}]
    /\ dead \subseteq Procs
    /\ \A p \in Procs : pc[p] = "writepid" <=> fd[p] # 0

Init ==
    /\ lock = None
    /\ pc = [p \in Procs |-> "idle"]
    /\ fd = [p \in Procs |-> 0]
    /\ dead = {}

-----------------------------------------------------------------------------
Goto(p, l) == pc' = [pc EXCEPT ![p] = l]

\* Inodes that no name and no live process refers to.
Free == { i \in Inodes : i # lock.ino
                         /\ \A p \in Procs \ dead : fd[p] # i }

\* os.OpenFile with O_CREATE|O_EXCL: only one process can create the file.
Create_NotExclusive(p) ==
    /\ Free # {}
    /\ LET ino == CHOOSE i \in Free : TRUE
       IN  /\ lock' = [ino |-> ino, pid |-> {}]
           /\ fd' = [fd EXCEPT ![p] = ino]
    /\ Goto(p, "writepid")
Create(p) ==
    /\ lock = None
    /\ Free # {}
    /\ LET ino == CHOOSE i \in Free : TRUE
       IN  /\ lock' = [ino |-> ino, pid |-> {}]
           /\ fd' = [fd EXCEPT ![p] = ino]
    /\ Goto(p, "writepid")

\* The first tryCreate of AcquireLock: the file is new, or it exists.
Attempt(p) ==
    /\ pc[p] = "idle"
    /\ \/ Create(p)
       \/ /\ lock # None
          /\ Goto(p, "check")
          /\ UNCHANGED <<lock, fd>>
    /\ UNCHANGED dead

\* The pid goes into the file that was created, wherever its name is now, and
\* the file is closed.
WritePid(p) ==
    /\ pc[p] = "writepid"
    /\ lock' = IF lock.ino = fd[p] THEN [lock EXCEPT !.pid = {p}] ELSE lock
    /\ fd' = [fd EXCEPT ![p] = 0]
    /\ Goto(p, "held")
    /\ UNCHANGED dead

\* lockIsStale: an absent or empty file is not stale, nor is one whose
\* process is alive; then AcquireLock returns ErrLocked.
Stale == lock.pid # {} /\ lock.pid \subseteq dead

CheckStale(p) ==
    /\ pc[p] = "check"
    /\ Goto(p, IF Stale THEN "remove" ELSE "idle")
    /\ UNCHANGED <<lock, fd, dead>>

\* os.Remove of the path, whatever file it names by now.
RemoveStale(p) ==
    /\ pc[p] = "remove"
    /\ lock' = None
    /\ Goto(p, "retry")
    /\ UNCHANGED <<fd, dead>>

\* The second tryCreate: the lock, or ErrLocked.
Retry(p) ==
    /\ pc[p] = "retry"
    /\ \/ Create(p)
       \/ /\ lock # None
          /\ Goto(p, "idle")
          /\ UNCHANGED <<lock, fd>>
    /\ UNCHANGED dead

\* The cycle is over: Release removes the path.
Release(p) ==
    /\ pc[p] = "held"
    /\ lock' = None
    /\ Goto(p, "idle")
    /\ UNCHANGED <<fd, dead>>

\* The process is killed; what it left on disk stays.
Crash(p) ==
    /\ pc[p] \in CrashAt
    /\ dead' = dead \cup {p}
    /\ UNCHANGED <<lock, pc, fd>>

Step(p) ==
    /\ p \notin dead
    /\ \/ Attempt(p) \/ WritePid(p) \/ CheckStale(p)
       \/ RemoveStale(p) \/ Retry(p) \/ Release(p)

Next == \E p \in Procs : Step(p) \/ (p \notin dead /\ Crash(p))

Spec == Init /\ [][Next]_vars

-----------------------------------------------------------------------------
(* Properties. *)

Owner(p) == p \notin dead /\ pc[p] \in {"writepid", "held"}

\* At most one live process has the lock.
MutualExclusion ==
    \A p, q \in Procs : Owner(p) /\ Owner(q) => p = q

\* As long as no process has been killed there is nothing to reclaim, and the
\* lock is exclusive.
ExclusiveUntilCrash == dead = {} => MutualExclusion
=============================================================================
